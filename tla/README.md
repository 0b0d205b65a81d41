# TLA+ models of the go-ipfs chunked file reader, mutable directory overlay and node lifecycle

This directory holds TLA+ models of three parts of the repository, the TLC configurations
that check them, and the results. The parts are:
- the chunked file reader (`src/unixfs/io/dagreader.go`);
- the mutable directory overlay with its upward-close protocol (`src/ipnsfs/dir.go`);
- the core node's construction, online start and teardown (core.go, in `src/unnamed/part_000`). `PROJECT.json` lists every component, every run, the line
ranges each definition translates ("map"), the findings and the hazards.

## 1. Inventory

| Component | Source | State | Operations | Status |
|---|---|---|---|---|
| Chunked File Reader | dagreader.go | node, `linkPosition`, `offset`, context (cancelled), `buf`. `buf` is a byte cursor or a nested DagReader. | NewDagReader, newDataFileReader, precalcNextBuf, Read, WriteTo, Seek (SET/CUR/END), Close | modelled: `DagReader`, refines `FileStream` |
| Directory overlay | dir.go | per overlay: name, parent, `node`, caches `childDirs` and `files` | NewDirectory, Open, childDir, childFile, Child, Mkdir, Unlink, RenameEntry, AddChild | modelled: `DirOverlay`, refines `FsTree` |
| Upward close | dir.go `closeChild` | the ancestors' nodes | closeChild, then `parent.closeChild(name)` up to the root | modelled inside each mutation, with `DAGService.Add` able to fail at any level |
| File overlay | `ipnsfs/file.go` (not in this tree) | node | a write: new node, then upward close | partly, from the spec (`Write`) |
| Core node lifecycle | `src/unnamed/part_000` (core.go) | IpfsNode fields, the services they hold (open or closed), the bootstrapper | standardWithRouting, NewIPFSNode, teardown, Bootstrap, LoadPrivateKey, startOnlineServices(WithHost) (inside an online construction), SetupOfflineRouting | modelled: `NodeLifecycle` |
| merkledag, unixfs codec, DAGService, network | external | — | — | not modelled: no source here |

How the parts interact:
- A reader pulls chunks from the DAGService through promises. A fetch may fail, or be cancelled when a reader's context, or an enclosing reader's, is closed.
- A directory overlay materialises child overlays lazily from its node's links.
- Every mutation ends in a chain of `closeChild` calls that relink the new node in each ancestor, up to the root's sink.
- The core node builds both, but neither depends on the core's state.

Correctness properties per component:
- **Reader.** Two properties:
  - `offset` always equals where the buffers are (`OffsetMatchesBuffers`).
  - The reader behaves as a byte cursor over the file (`Refines`): a read returns the bytes at the offset and is short only with an error; a drain reports success only at the end; a seek lands within `[0, filesize]` or fails and leaves the cursor.
- **Node lifecycle.** Two properties hold:
  - Every open service is reachable from a field of the node, so teardown can close it (`NoOrphanedResource`). After a failed construction there is no node, so nothing but the caller's repo may be open.
  - After Close, every closer has been called, even when one of them fails (`ClosedNodeHoldsNothing`).

  Two more are violated: constructing a node does not panic (`NoPanic`), and an online construction whose routing option fails leaves nothing open (`NoOrphanedResource` in the host-leak run).
- **Overlay.** `DAGService.Add` may fail partway up a cascade. Two properties:
  - `SyncedByCloses` (spec §5 and §7):
    - a call that returns nil leaves no stale link between its overlay and the root, and makes no link stale elsewhere;
    - a call that fails leaves the root node as it was.
  - `ClientViewRefines`: what a client reads through the overlays changes exactly as each successful call says. A call that failed in a cascade's Add changed it as the call says or not at all.

  Together they give `Refines` when no Add fails: the root node, read as a tree, changes exactly as every successful mutation says, and not at all on a failed one. The violation runs check `Refines` directly.

## 2. Modules

- **`FileStream`** — the abstract reader. It holds `pos`, the last result `out`, and `closed`.
  - `Read(n)` returns the next `n` bytes, or a shorter prefix with an error, or the rest with EOF past the end.
  - `WriteTo` returns the rest of the file, or a prefix with an error.
  - `Seek` moves anywhere in `0..Len` or fails without moving.
- **`DagReader`** — the reader. The variable `reader` is a record `[node, lp, off, cancelled, buf]`, where `buf` is `[t |-> "bytes", s, i]` or `[t |-> "dag", r]` with a nested reader. `last` is the last call's returned bytes and error.
  - Each Go method is a recursive operator over the record: `PrecalcNextBuf`, `ReadFrom`, `WriteFrom`, `SeekTo` with `SeekChunk` and `SeekTarget`.
  - Each client call (`Read`, `WriteTo`, `Seek`, `Close`) is one action. The reader is single-consumer (spec §5), so no call interleaves with another.
  - A fetch failure is the choice `fails \in SUBSET Flaky`, made once per call and only for the calls in `FaultyOps`. A cancelled reader's `Get` fails.
  - `Refines` is `FileStream!Spec` under the mapping `pos <- reader.off`, `out <- last`, `closed <- reader.cancelled`, with `Content` the file's bytes (`FileBytes`, the reference definition).
- **`FsTree`** — the abstract overlay: a map from paths (up to `MaxDepth`) to `"none"`, `"dir"` or file data. `op` records the last operation, whether it returned nil, and whether it failed while persisting (`partial`).
  - A successful step must satisfy the operation's precondition and apply it.
  - A partial failure applies the operation or leaves the tree.
  - Any other failed step leaves the tree unchanged.
- **`DirOverlay`** — the overlay. DAG nodes are values compared by value, as content-addressed nodes are compared by hash. Overlays are handles in a pool of `MaxHandles`. `ov[h]` holds kind, name, parent handle, node, and the caches `dirs` and `files` (name to handle).
  - Every dir.go method is an operator returning `[st, err, h]`.
  - `CloseChild` and `CloseParent` are mutually recursive and run inside the mutating call.
  - Each mutating action picks `af \in AddFault(h)`: the directory on the cascade whose `dserv.Add` fails in this call, or 0 for none. `addFaults` counts the failed calls and is capped by `MaxAddFaults`.
  - The client actions are `DoMkdir`, `DoUnlink`, `DoRenameEntry`, `DoAddChild`, `DoOpen`, `DoChild`, `DoRacedChild` and `DoWrite`.
  - Every call is atomic (single writer, spec §5) except the one interleaving the spec allows: two lookups of the same name. `DoRacedChild` is that pair of `childDir`/`childFile` calls with both cache reads before both cache writes, the only order that differs from two atomic lookups; `RacedLookup` installs two overlays and leaves the second in the cache. Go's runtime may instead abort on the concurrent map writes; that outcome stops the process and has nothing to check.
  - `RemoveNodeLink`, `AddNodeLinkClean` (merkledag) and `Write` (file.go) are modelled from the spec because their code is not in this tree.
  - `op` is a history variable that the mutating actions set: kind, handle, path, arguments and error.
  - `ClientViewRefines` is `FsTree!Spec` with `fs <- ViewTree` and `partial` meaning the error came from a failed Add. `ViewTree` follows each directory's links, and shows an entry's cached overlay node where the cache has one, as `Child` does.
  - `Refines` is `FsTree!Spec` with `fs <- TreeOf(ov[Root].node)` and no partial failures.
- **`NodeLifecycle`** — the core node. `n` is the IpfsNode as a record of its fields. Each field holds `"nil"` or the resource it refers to. `rs` maps each resource (repo, blockservice, host, DHT, bitswap, IpnsFs, bootstrappers) to `unused`, `open` or `closed`.
  - Each Go function is an operator `(node, fault point) -> [n, rs, boots, err]`: `LoadPrivateKey`, `Bootstrap`, `StartOnlineServicesWithHost`, `StartOnlineServices`, `SetupOfflineRouting`, `StandardWithRouting`, `NewIPFSNode` and `Teardown` (with `Closers`, the closer list in teardown's order, and `CloseAll`, the loop that calls each whatever the others return).
  - Every external constructor that can return an error (loadID, the blockstore, the private key, the host, the routing option, IpnsFs, Listen, the bootstrapper) is a fault point. The cfg chooses which may fail. The action picks one with `\E fp`.
  - A nil dereference sets `built` to `"panic"`. The Go program would crash there.
  - The actions are the caller's calls: `Construct(mode)` (Offline, Online or OnlineWithOptions), `DoSetupOfflineRouting`, `DoBootstrap` and `Close` (the ContextGroup's teardown, in which the Close of any one closer may fail). `startOnlineServices` is unexported and its only caller is standardWithRouting (line 208), so it runs only inside an online `Construct`. `last` records the last call, its fault point and its error.
  - `rs[x] = "closed"` means Close was called on `x`, whatever it returned.
- **`MC_DagReader`, `MC_DirOverlay`, `MC_NodeLifecycle`** — the instances: the DAG, names, data and bounds.

## 3. Runs

| Run | Cfg | Expect | Shows |
|---|---|---|---|
| reader | MC_DagReader.cfg | pass (108 states) | Reads of 0–3 bytes, drains, Close, and seeks with SET/CUR/END to targets 0..5. Chunk fetches of c1, c2 and c4 may fail during Read and WriteTo. `TypeOK`, `OffsetMatchesBuffers` and `Refines` hold. |
| reader_seek | MC_DagReader_seek.cfg | violation of `Refines` | Seeks to targets up to 7, with chunk fetches failing during Seek. Three defects are reachable here. (1) A seek past the end succeeds and returns the unclamped offset 7 (dagreader.go:248): this is TLC's trace: a Seek that succeeds at offset 7 (with two workers TLC may show it after a Read(1)). (2) A seek to exactly 6 (= filesize) leaves `linkPosition` stale (dagreader.go:233), and the next Read returns the byte at offset 1. (3) A Seek whose fetch fails sets `linkPosition` but keeps the old buffer (dagreader.go:242). TLC shows only the first trace it finds; (2) is the counterexample with `SeekBound` 6 and no Seek faults, and (3) the one with `SeekBound` 5 and Seek faults. |
| reader_bad_chunk | MC_DagReader_baddag.cfg | violation of `OffsetMatchesBuffers` | A directory chunk in a file: `linkPosition++` runs before decoding (dagreader.go:112), so the chunk is skipped. |
| overlay | MC_DirOverlay.cfg | pass (165,455 states, ~115 s, ~160 s with coverage) | All operations by the baseline client (below), whose lookups may race. `DAGService.Add` may fail once, in the closeChild of any directory. `TypeOK`, `SyncedByCloses` and `ClientViewRefines` hold. |
| overlay_stale_handle | MC_DirOverlay_stalehandle.cfg | violation of `Refines` | A client keeps a file handle across Unlink-and-re-create of its name, or a rename of a directory over it (dir.go:240). closeChild resolves by name (dir.go:72), so a write through the handle returns nil and is lost. TLC's trace is Child (the client takes the handle of file `a`), Unlink, Mkdir, Write. |
| overlay_opendir | MC_DirOverlay_opendir.cfg | violation of `Refines` | `Open(["b"])` on directory `b` creates a shadow file overlay (create test always true, dir.go:45). Writes to it are lost. |
| overlay_rename_file | MC_DirOverlay_renamefile.cfg | violation of `Refines` | A file rename deletes from `childDirs`, not `files` (dir.go:263). The stale cache entry later links the wrong content. |
| overlay_race | MC_DirOverlay_race.cfg | violation of `Refines` | Two concurrent `Child("a")` calls on the root both miss the unlocked `files` map, and the second map write wins (dir.go:126, and dir.go:158 for directories). The losing caller writes `"e"` through its overlay: Write returns nil, closeChild resolves `"a"` to the winner's unchanged node, and the root never changes. |
| lifecycle | MC_NodeLifecycle.cfg | pass (115 states) | An offline or online construction, then SetupOfflineRouting, Bootstrap (up to 4 bootstrappers) and Close in any order. Every fault point except the routing option may fail, and in teardown the Close of any one closer may fail. `NoOrphanedResource` and `ClosedNodeHoldsNothing` hold. |
| lifecycle_online_panic | MC_NodeLifecycle_online.cfg | violation of `NoPanic` | `NewIPFSNode(Online(r))` reaches `n.Context()` at part_000:276 before `n.ContextGroup` is set (line 124), and panics. |
| lifecycle_host_leak | MC_NodeLifecycle_hostleak.cfg | violation of `NoOrphanedResource` | An online construction (OnlineWithOptions) whose routing option fails after the host is made (part_000:258). The host is only in a local variable; the option returns a nil node, so its deferred teardown (line 199) does not run, and the host stays open with nothing that can close it. |

**The baseline client.** The overlay's passing run is for a client that keeps four rules. Each rule avoids one of the four defects above:
- It calls only overlays still attached to the root.
- It renames only directories.
- It renames only onto free names.
- It opens no directory as a file.

It is not a rule of the client that its lookups do not race: the spec (§5) allows concurrent reads of a stable overlay. In the passing run (`Client` = `{"racing"}`) two lookups of one name may race; the caller that lost drops the overlay it was returned, and the run checks that the race itself changes nothing a client reads. overlay_race lets that caller use it.

The constant `Client` lifts the first two rules together in overlay_stale_handle, because both leave a stale handle, and one rule in each other violation run. The passing run therefore checks that, apart from these four, every sequence of the operations, with or without an Add failure, keeps the root correct and the client's view correct.

A file that Open created is not linked until its first close. If that close fails in Add, the write is kept only in the file overlay: no later close publishes it, and the view never shows it. `ClientViewRefines` allows this as a partial failure with no effect. Spec §7 leaves recovery to the caller.

**Mutants.** Each property of a passing run is broken by a plausible code fault, written as an operator beside the definition it replaces:

| Module | Mutant | Fault | Breaks |
|---|---|---|---|
| DagReader | `ReadCountingBuffer` | offset advanced by the buffer length | `TypeOK` |
| DagReader | `PrecalcNextBufAdvanceFirst` | `linkPosition++` before `Get` | `OffsetMatchesBuffers` |
| DagReader | `WriteToIgnoringErrors` | every drain error reported as success | `Refines` |
| DirOverlay | `AddChildAsDir` | a file installed as a Directory | `TypeOK` |
| DirOverlay | `CloseChildLinkingBeforeAdd` | the link is rewritten before the child is persisted | `SyncedByCloses` |
| DirOverlay | `UnlinkIgnoringNotFound` | `ErrNotFound` ignored | `ClientViewRefines` |
| NodeLifecycle | `BootstrapKeepingPrevious` | the old bootstrapper not closed before it is replaced | `NoOrphanedResource` |
| NodeLifecycle | `TeardownStoppingAtError` | teardown returns at the first Close that fails | `ClosedNodeHoldsNothing` |

## 4. Bounds and why they are enough

**Reader DAG.** A metadata wrapper over a file with:
- inline data (1 byte);
- a raw chunk (2 bytes);
- a nested file chunk, with no inline data and two raw chunks of 1 and 2 bytes.

This has every buffer kind, two nesting levels, inline data at the top, and chunk boundaries at offsets 1, 3, 4 and 6.

**Reader inputs.**
- Read sizes 0–3 cross every boundary, including reads that span a nested reader.
- Seek offsets −1..5 with three whences reach every target from every offset, plus the negative case.
- `SeekBound` 5 keeps the passing run off the end-of-file defects. The reader_seek run raises it to 7, one byte past the end (SEEK_END with offset −1).

**Overlay.** Two names, depth 2, and a root with one file `a` holding `"x"`.
- These reach rename, overwrite, re-create, and nested close of depth 2 (a file in a directory in the root). A nested close is the smallest case in which a cascade can fail above the mutated directory, leaving a stale link below the root.
- The passing run writes `"x"` only (`MCWriteData`). A write still changes a file that Open created empty. The violation runs also write `"e"`.
- `Modes` is `{0}` (O_RDONLY). The create test `mode|O_CREATE != 0` holds for every mode, so every other mode takes the same branch.
- `MaxAddFaults` 1 with `AddFails` covering every handle lets the one failure hit any level of any cascade. Each later call then runs against a stale root. A second failure would add no new kind of state: it makes another stale link of the same shape. It would also multiply a state space that already takes two minutes.
- `MaxHandles` 4 allows the root plus three materialised overlays. A call needing more is not taken, so no state is cut short in the middle of a call.

**Node lifecycle.** Four bootstrappers (`Boots`) allow replacements after failures and after successes. A call that would need a fifth is not taken. Each call may fail at every point the code checks an error, and teardown at any one closer. The passing run builds offline and online nodes; an online build either fails before the host is made or panics, and checking stops at the panic. It leaves the routing option's failure to the host-leak run, because that failure always leaks. The module has no type invariant: its fields can hold only what Go's types allow, so one would restate the types and no bug that compiles could break it. `CHECK_DEADLOCK FALSE` is needed because a closed, failed or panicked node takes no more calls, which is a real final state.

## 5. Fairness

There is none. All three components are driven by their client: a reader, overlay or node call happens only when the client makes it. No goroutine of the modelled code runs on its own. The properties are safety properties and refinement of safety specs (`[][Next]_vars`).

## 6. Not modelled, and the plan for later sittings

1. **Other interleavings of the overlay.** Concurrent mutations are excluded by the spec (§5, single writer), so each is one atomic action. A lookup racing a mutation is a misuse of the same kind. The Go runtime's abort on concurrent map writes is an outcome of the modelled race that ends the process.
2. **Node pieces without modelled state.**
   - `loadID` and `OnlineMode` only read the config or the mode. A loadID failure is a construction fault point.
   - The reprovider goroutine (part_000:243) is bound to the caller's context, not to the node.
   - Address and key helpers change nothing.
3. **Liveness:** a `WriteTo` with no faults eventually reaches end-of-stream. This needs fairness on the client, which the code does not provide.

The merkledag and unixfs codecs and the network services have no source here and stay abstract.
