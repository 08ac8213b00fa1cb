# TLA+ models of CryptFS

CryptFS is a FUSE filesystem shared by several mounts. Each mount keeps
metadata in a central, versioned key-value server and file content in a
content-addressed blob store. This directory holds TLA+ models of that
system and TLC configurations that check them.

## 1. The system

| Part | Source | State | Operations |
|---|---|---|---|
| Node engine (`CryptNode`) | `pkg/node/metadata_test.go` (the node code, despite the name), `unnamed/part_006` | per node: `version`, `User/Group/Mode/Time`, `xattrs`, `contentKey`, `content`, `Children`, dirty flags `shouldSaveMetadata`, `shouldSaveContent`, `shouldReloadMetadata`; one mutex | FUSE callbacks `Setxattr`, `Getxattr`, `Setattr`, `Write`, `Read`, `Flush`/`Release`/`Fsync`, `Getattr`, `Open`, `Lookup`, `Create`, `Mkdir`, `Symlink`, `Unlink`, `Rmdir`, `Rename`, `Opendir`; helpers `sync`, `saveMetadata`, `LoadMetadata`, `reloadIfNeeded`, `ensureContentLoaded`, `ensureChildLoaded` |
| Node factory | `pkg/node/nodefcatory.go` | the known nodes by key, never pruned | `allocateNode`, `ExistingNode`, `addKnown`, `getKnown`, `InvalidateCache` (the change listener) |
| Inode generator | `unnamed/part_006` 1-42 | a counter goroutine | `Start`, `Next`, `Stop` |
| Metadata server | `unnamed/part_005`, `unnamed/part_009` | the connection list, a `VersionedStore` | `Serve` (attach), `removeConn`, `ApplyMessage` (get/put), `broadcast` of every accepted put to all other connections, `Shutdown` |
| Versioned store | `unnamed/part_011` | key -> (version, value) over a raw `Store`, one lock | `Put(version, k, v)`: stale iff the key exists and `version < current + 1`; `Get` |
| Metadata client | `pkg/network/client/client.go` and the remote store, which is not under `src/` | a cached connection, tagged in-flight requests, a reader goroutine | `Send`, a request timeout, delivery of broadcasts to the change listener |
| Blob store | `pkg/storage/bitcask.go` | content keyed by its Blake2b-512 hash | `Put` returns the key even when the delegate fails; `Get` |
| Raw stores | `unnamed/part_007` (DiskStore), `unnamed/part_008` (InMemory), `bitcask.go` | files, a map, a bitcask | `Put`, `Get` |
| Paired store | `unnamed/part_010` | fast and slow store, a write-back channel with capacity 42 | `Get` (fast, falling back to slow), `writeback` with retry |
| Message codec | `unnamed/part_002`, `part_003`, `part_004` | byte buffers | `Encode`, `Decode`, bit packing |
| CLI, blob HTTP server, Docker, genhash | `cmd/`, `unnamed/part_001`, `Dockerfile` | none of interest | wiring and I/O |

How the parts interact:

- A kernel callback on a mount locks the node and changes it in memory.
- When it must persist, it calls `sync`:
  1. If content is dirty, `sync` puts the content in the blob store and sets `contentKey` to the hash.
  2. It then puts the serialized metadata at `version + 1`.
- The server applies the put under the store lock. It answers the sender and writes the put to every other connection.
- Each mount's reader goroutine hands a broadcast to `InvalidateCache`. If the broadcast is newer than the node, `InvalidateCache` sets `shouldReloadMetadata`.
- The next `Getattr`, `Open` or `Lookup` reloads the node.
- A rejected (stale) put also sets the reload flag.
- A failed callback rolls back some fields.

What makes this hard:

- Mounts interleave. A callback's put can be stale because another mount's put got in first.
- Broadcasts arrive late, and a failed broadcast write is dropped.
- A request can be lost before the server sees it. Or the server applies it and the answer times out.
- A blob put can fail after `sync` has already taken the new key.
- Rollbacks restore only some of the state that sync changed.

## 2. Modules

### `VersionedRegister` (abstract)

This module states what the metadata store promises (spec.md §3, §4.2). Each accepted mutation moves a key to exactly the next version, and a key with no entry can be created at any version.

### `NodeSync` (detailed)

`NodeSync` models several mounts, each with a node per file, over one shared metadata store, blob store and the broadcast queues.

| TLA+ | Code |
|---|---|
| `node[m][k]` | mount `m`'s `CryptNode` for key `k`: `ver`=`version`, `attr`=User/Group/Mode, `xattr`, `ckey`=`contentKey`, `content`, and the three dirty flags |
| `store[k]` | the `VersionedWrapper` entry |
| `blobs` | the contents present in the blob store |
| `bq[m]` | broadcasts written to `m`'s connection and not yet read |
| `VersionedPutAccepts` | `VersionedWrapper.Put`'s stale test |
| `Broadcast` | `Server.broadcast`, excluding the sender |
| `BlobStep`, `MetaStep`, `Sync` | `sync` and `saveMetadata`, as a set of outcomes: success, a failed blob put, a lost request, an applied put whose answer timed out |
| `Reload`, `EnsureContentLoaded` | `reloadIfNeeded`/`LoadMetadata`, `ensureContentLoaded` |
| `Setxattr`, `Setattr`, `Write`, `Flush`, `Getattr` | the callbacks of the same names, each with its whole sync and rollback. `Flush` also stands for `Release` and `Fsync`, and `Getattr` for `Open`. |
| `InvalidateCache` | the change listener, fed by the client's reader |
| `DropBroadcast` | a broadcast write that failed |

**Atomicity.** Each callback is one step, because it holds the node mutex for its whole run and the server applies a put under the store lock. What interleaves is the callbacks of different mounts and the delivery of broadcasts.

**Data abstraction.**

- Attributes, xattr values and contents are model values.
- `Empty` doubles as "not loaded", exactly as `len(content) == 0` does in the code.
- The hash is an injective tagging.
- `Time` is left out, because no property reads it.

**Refinement.** `StoreRefinesRegister` instantiates `VersionedRegister` with `reg <- store` and checks its `Spec` as a property.

**Fairness.** The only fairness is weak fairness of `InvalidateCache` for each mount. The client's reader goroutine decodes its connection continuously, so a broadcast in the queue is eventually handed to the listener. No user callback is assumed to happen.

### `MetaServer` (detailed)

`MetaServer` models the metadata server together with raw clients. The clients dial, send tagged requests of any kind and version, and close.

| TLA+ | Code |
|---|---|
| `store` | the `VersionedWrapper` entries |
| `listening`, `serving`, `acc` | the listener, `Serve`'s loop, and the connection `Serve` has accepted but not yet appended to `s.conns` |
| `conns` | `s.conns` |
| `stage`, `open`, `authorized` | a connection's lifecycle, its socket, and its auth flag |
| `req`, `resp` | the two directions of each TCP stream |
| `pend` | the put a handler has applied and not yet broadcast |
| `shut` | how far `Shutdown` has got |
| `Accept`, `Register`, `ServeReturns` | the two halves of `Serve`'s loop body, and its exit |
| `Handle`, `Authenticate`, `Apply` | the per-connection handler: the auth handshake, `ApplyMessage`, the reply |
| `Broadcast` | `Server.broadcast` |
| `HandlerExit` | `removeConn` |
| `CloseListener`, `CloseConns` | the two halves of `Shutdown` |

**What the handler is built from.** The handler (`serverConn.handleInput`) is not in the repository, so its steps follow spec.md §4.5.

**Why apply and broadcast are separate steps.** The apply and the broadcast of one put are two steps, because `VersionedWrapper.Put` releases its lock on return and `broadcast` takes only `s.mu`.

**Fairness.** There is weak fairness for each of the server's goroutines: the handlers, broadcast, the accept loop and `removeConn`. Clients are not assumed to do anything.

**Deadlock checking is off.** These runs set `CHECK_DEADLOCK FALSE`, because the server really stops: after `Shutdown`, with every connection closed and removed, nothing is left to run.

### `BlobStores` (detailed)

This module models the content path of every mount: `BlobStoreWrapper` → `Paired` (fast = the mount's `DiskStore` cache, slow = the blob server) → the blob HTTP server's `DiskStore`.

**State.** A blob is identified with its content, because its key is the hash of that content.
- A `DiskStore` is a record: the set of files it holds and the set of shard directories (the first byte of the hash) that exist.
- `cache[m]` is each mount's cache and `server` is the blob server's store.
- `wbc[m]` is the write-back channel.
- `putOK[m]` is the set of blobs whose put reported success.
- `missed` records every get that said NotFound while the server held the blob.

**Operations.**
- `DiskPut`/`DiskHas` translate `DiskStore.Put`/`Get`, including Put's inverted error test: a failed write returns nil, and a successful one returns an error.
- `BlobPut` is a wrapper put. `Paired.Put` is not in the repository; following spec §4.4, it writes the fast store and, on success, queues the blob, blocking while the channel is full.
- `BlobGet` is `Paired.Get`.
- `Writeback` is one attempt of `writeback1`. The HTTP client is not in the repository and is taken to map status 200 to success and anything else to an error; the handler answers 500 exactly when `DiskStore.Put` errs.

**Fairness.** Each mount's write-back goroutine has weak fairness; it runs until the process exits.

**Bounds.** 2 mounts, 3 blobs in 2 shards, and a channel capacity of 2, which stands in for 42. The cfgs choose which shard directories exist at start:
- none, which is what a fresh directory gives, since nothing ever calls `MkdirAll` per shard;
- all of them on the server, which an operator or an earlier version may have created.

### `ClientConn` (detailed)

This module models `client.go`'s `Client`: one cached `net.Conn` under `c.mu`, used at once by two goroutines of the remote versioned store (spec.md §4.6). The sender calls `Send` and the reader calls `Receive` in a loop.

| TLA+ | Code |
|---|---|
| `conn` | `c.conn` |
| `held[p]` | the connection goroutine `p`'s `doWithConn` got from `getCachedConn` |
| `pc[p]` | `idle`, `io` (inside the encoder or decoder, with `c.mu` released) or `failed` (about to call `closeBoth`) |
| `dialed`, `closed`, `broken` | the connections dialed, closed by the client, and broken by the network |
| `GetCachedConn` | `getCachedConn`: reuse `c.conn`, dial and cache a new connection, or a failed dial |
| `Consume` | `Send`'s `Encode` or `Receive`'s `Decode`, which fails on a closed or broken connection |
| `Fail` | `doWithConn`'s `closeBoth(conn)` after an error |
| `CloseBoth` | `closeBoth`: close `cached` if it is not `c.conn`, then close `c.conn`, whatever it is now, and set it to nil |
| `Close` | `Client.Close` |
| `Break` | the network breaking a connection |

**Connections.** A connection is a model value. A closed connection that nothing refers to any more is garbage, and its value may stand for the next dial (`Free`). Three ids are therefore enough for unbounded reconnecting.

**Disruptions.** Broken connections, failed dials and `Close` calls together are bounded by `MaxDisruptions`.

**Fairness.** The reader loops for the life of the store, so all its steps are weakly fair. A `Send` that has started runs to its end, so the sender's `Consume` and `Fail` are weakly fair. Nothing obliges the sender to start a request.

### `NodeRegistry` (detailed)

This module models one mount's root directory and its node factory while other mounts change the directory. Its central question is whether a broadcast for a key reaches the node the mount actually uses for that key.

| TLA+ | Code |
|---|---|
| `known` | `CryptNodeFactory.known`, key -> node |
| `okey[o]`, `over[o]` | node `o`'s `Key` and `version`; nodes are numbered in allocation order |
| `loaded`, `reload` | nodes whose `Mode` is not `modeNotLoaded`, and nodes with `shouldReloadMetadata` |
| `children` | the root's `Children` |
| `sver`, `sdir` | the store's version of each key, and the root's listing in the store |
| `bq` | broadcasts received and not yet handed to `InvalidateCache` |
| `AddKnown`, `GetKnown`, `AllocateNode` | `addKnown` (the first node of a key stays), `getKnown`, `allocateNode` |
| `Fresh`, `KnownAfterLoad` | `unserialize` making one node per listed child through `ExistingNode`, which registers it and returns it even when `addKnown` kept another |
| `RootAfterReload`, `RootReloaded` | `reloadIfNeeded` on the root: keep a child whose key is unchanged, rekey and flag a kept child whose key changed, adopt nn's node for a new name, drop names nn does not list |
| `rdirty` | the root's `shouldSaveMetadata` |
| `ino`, `ich`, `gnext` | each node's `StableAttr.Ino` (0 for none, 1 for the root), the generator's buffered channel `nextCh`, and its loop's `ino` |
| `InitGenerator`, `GenSend`, `TakeIno` | `mount.go` starting the generator at 2; one turn of `Start`'s loop (send, then `ino++`); `Next` |
| `CreateLockedChild` | `createLockedChild`: `Next`, then `allocateNode`, then the child is added to `Children` and to the tree |
| `LoadInto`, `ToLoad` | `ensureChildLoaded` on a set of children: load each unloaded child that has a stored entry, and give it an inode number from `Next`, in any order (map iteration order) |
| `Lookup` | `Lookup`: `reloadIfNeeded` on the root, then `ensureChildLoaded` |
| `Opendir` | `Opendir`: `reloadIfNeeded` on the root, then `ensureChildLoaded` for every child |
| `Getattr` | `Getattr` on a file (its `reloadIfNeeded`) |
| `Create`, `SaveVersion`, `RootPutAccepted`, `ListingOf` | `Create`/`createLockedChild` with the child's put and the root's put through `sync`/`saveMetadata`. A stale root put sets `shouldReloadMetadata` and leaves `shouldSaveMetadata` set; the child is already stored |
| `Unlink` | `Unlink` (and `Rmdir` of an empty directory): drop the name, put the root, and restore `Children` on failure |
| `Rename` | `Rename` within the root: put the moved child, then the root, with no rollback. A stale root put leaves the new `Children` in memory, still to be saved |
| `InvalidateCache` | the change listener |
| `RemoteCreate`, `RemoteUpdate`, `RemoteUnlink`, `RemoteRename` | one operation of another mount, with its puts and the broadcasts this mount receives for them |
| `Init` | `mount.go`'s root setup: `ExistingNode` for the zero key, then `LoadMetadata` (an empty directory on NotFound) |

**Another mount's rename.** `RemoteRename` is the root put of another mount's `Rename`. The code's `Rename` also puts the moved child first (`md:590`), which bumps the child's version and broadcasts it. That put is left out, so this mount receives one broadcast fewer; the child's stored metadata is otherwise unchanged.

**Data abstraction.** Keys are model values. A fresh random key is one no store entry and no registry entry uses. Content and attributes are left out, because no property reads them.

**Fairness.** `InvalidateCache` is weakly fair: the client's reader hands every broadcast to the listener. User callbacks are not assumed to happen.

**Bounds.** 2 names, `MaxVersion = 2`, at most 9 nodes, and a channel of capacity `ChanCap = 2` (42 in the code). An `Opendir` takes one number per child in one step, so the capacity must be at least the number of names. With more children, the code's loop waits for the generator between children, and the result is the same. `Stop` is not modelled: `mount` calls it only after `server.Wait` returns, when no callback can call `Next`. The pass run uses 2 file keys; the rekey run uses 3, so that a remote rename can move a name onto a key that has not yet been used. These bounds allow one create or rename per name, followed by an update of the file under its new key, while this mount creates, unlinks and renames the same names.

**A failed rename is not rolled back.** When the root's put in `Rename` is stale, `Children` keeps the new names and `shouldSaveMetadata` stays set. The next reload keeps those in-memory names as long as the store's listing does not contradict them, and the next successful root put persists them. `ListingMatchesStore` is therefore stated only for a clean root.

### `Codec` (detailed)

This module models one connection: an `Encoder` writing whole frames and a `Decoder` reading them with its reused buffer. It works at the byte level. Bytes are integers in 0..255, strings are byte sequences, and the length arithmetic keeps the code's `uint16` width (`LenMod = 2^16`).

| TLA+ | Code |
|---|---|
| `Messages` | `NewGetMessage`, `NewPutMessage`, `NewErrorMessage`, `NewAuthMessage`: only the fields of the kind are set |
| `BigEndian`, `Puts` | `bits.Put16`/`Put64` and `Encoder.puts` (u16 length, then the bytes). `bits` is not in the repository, so `BigEndian` follows spec §4.1 |
| `Frame`, `Encode` | `Encoder.Encode`: kind, tag, then the body of the kind, sent with one `Write` |
| `stream` | the bytes in the connection |
| `dbuf`, `doff`, `Read` | `Decoder.buf`, `Decoder.off`, `Decoder.read`. The buffer grows to `off + n` only when fewer than `n` bytes lie beyond `off`; it is never cleared; `io.ReadFull` blocks until `n` bytes have arrived |
| `Get16`, `Slice` | `get16`, `gets` (which slices `buf[0:n]` and panics beyond its length) |
| `DecodeFrom`, `Decode` | `Decoder.Decode`, including the `uint16` sums `n+2` and `n+8`, and the unknown-kind branch that returns after the header |
| `panicked` | the runtime panic of an out-of-range slice in the reading goroutine |

`bits.Get64` on fewer than 8 bytes is taken to yield no version bytes. This matters only after a short read, when the value is already wrong. Transport errors are not modelled here; `ClientConn` models them.



The MC module `MC_NodeSync` fixes the model values:

- 2 mounts
- 1 file
- 2 attribute values
- 1 xattr value
- contents {e, d1, d2}
- `MaxVersion = 3`, which allows two puts

This bound is enough for one mount to put while the other holds a stale node and then tries its own put. Symmetry over mounts, attributes and the non-empty contents is used only in the safety run.

| Run | cfg | Expect | What it shows |
|---|---|---|---|
| nodesync_safety | `NodeSync.cfg` (faults: lost, bcast, timeout) | pass | Checks `TypeOK`, `VersionNotAhead`, `CleanNodeMatchesStore` and `StoreRefinesRegister`. A mount never runs ahead of the store, a clean node at the store's version holds the store's metadata, and the store refines the register. This holds even when requests are lost, applied puts time out and broadcasts are dropped: the stale-put check alone keeps metadata safe. About 421k distinct states. |
| nodesync_live | `NodeSyncLive.cfg` (no symmetry, contents {e, d1}) | pass | `EventualInvalidation`: with reliable broadcast, a mount that falls behind is eventually flagged for reload. |
| nodesync_stale_truncate | `NodeSyncStaleTruncate.cfg` (no faults) | violation | `ContentMatchesKey` is violated (see the findings below). |
| metaserver_auth | `MetaServerAuth.cfg`: 2 clients, 2 requests each, auth required, no symmetry | pass | `TypeOK`, `RepliesMatchRequests` and `BroadcastsAreOthersPuts` hold through the auth handshake. Every request read gets exactly one reply, with its tag and in order. Every broadcast a client receives is another authorized client's accepted put. `BroadcastVisibility` (spec §8) also holds: every other registered, authorized, open connection eventually receives each accepted put. About 118k distinct states. |
| metaserver_order | `MetaServerOrder.cfg` | violation | `BroadcastOrder` is violated (see the findings below). |
| blob_writeback_stuck | `BlobStoresStuck.cfg`: a fresh cache, the server's shard directories present, capacity 2 | violation | `WritebackDrains` is violated (see the findings below). |
| blob_readback | `BlobStoresReadback.cfg` | violation | `ReadYourWrites` is violated (see the findings below). |
| clientconn_safety | `ClientConn.cfg`: 3 connection ids, 2 disruptions | pass | `TypeOK`, `NoLeakedConn` and `BrokenEventuallyClosed` hold. Every dialed, unclosed connection is `c.conn` or in use by a goroutine, and a broken connection is eventually closed. 2103 distinct states. |
| clientconn_livelock | `ClientConnLivelock.cfg`: 1 disruption | violation | `Recovers` is violated (see the findings below). |
| registry_safety | `NodeRegistry.cfg`: 2 file keys; local create, unlink, rename and opendir; remote create, update, unlink and rename; the inode generator | pass | `TypeOK`, `ListingMatchesStore` and `RegisteredEventuallyFresh` hold. A clean root that is not flagged and is at the store's version lists exactly the names, and the keys, of the store's listing, through local puts that fail halfway. A loaded node that is the registered node of its key is flagged once another mount changes that key. About 114k distinct states, in about 2 minutes. |
| registry_rekey | `NodeRegistryRekey.cfg` | violation | `ChildEventuallyFresh` is violated (see the findings below). |
| codec_roundtrip | `CodecRoundTrip.cfg`: one connection, up to two frames, a 20-byte key, values of 0, 3 and 65528 bytes | violation | `DecodedAreSent` is violated (see the findings below). It takes about 1.5 minutes, because the states hold 65k-byte sequences. |

Each property of a passing run has a mutant, defined in its module, that TLC kills under that run's cfg:

| Property | Mutant |
|---|---|
| `TypeOK` | content loaded as the key |
| `VersionNotAhead` | version bumped on a failed put |
| `CleanNodeMatchesStore` | reload that keeps the xattrs |
| `StoreRefinesRegister` | stale test off by one |
| `RepliesMatchRequests` | put answered with its tag-0 copy |
| `BroadcastsAreOthersPuts` | sender not excluded, or unauthorized connections not skipped |
| `BroadcastVisibility` | broadcast written only to the sender |
| `TypeOK` (MetaServer) | `VersionedWrapper` stores version + 1 |
| `TypeOK` (ClientConn) | `closeBoth` without its nil test closes a nil connection |
| `NoLeakedConn` | `closeBoth` closes only the failed connection and drops `c.conn` unclosed |
| `BrokenEventuallyClosed` | `doWithConn` returns the error without `closeBoth` |
| `TypeOK` (NodeRegistry) | `saveMetadata` bumps the version twice |
| `RegisteredEventuallyFresh` | `InvalidateCache`'s stale test off by one |
| `ListingMatchesStore` | `reloadIfNeeded` keeps names the store no longer lists |
| `EventualInvalidation` | broadcast sent only to the sender |

### Findings

- **Stale truncate.** `Setattr` with a size change computes the new `contentKey` inside `sync`. When the metadata put then loses to another mount's put, the rollback restores `content` but not `contentKey`. The node then holds the old bytes under the truncated key, with nothing marked to save. It stays so until the reload that the stale put requested replaces `contentKey` and drops `content`; reads in between return the old bytes under the truncated key. No injected fault is needed: one concurrent put by another mount is enough.
- **Broadcast order.** Two handlers apply v1 and v2 of one key, then broadcast v2 before v1. Spec §4.5 promises acceptance order, but no lock spans the apply and the broadcast.
- **Version gaps (not a run).** `VersionedWrapper.Put` accepts version 3 over version 1. Spec §8 says only the next version succeeds, but §4.2 describes the code's rule. With `Versions = {1, 3}`, `StoreRefinesRegister` of `MetaServer` is violated by exactly this step.
- **Blob put loses data.** `DiskStore.Put` returns nil when `os.WriteFile` fails and never reaches `MkdirAll`. In a fresh cache, every put reports success with nothing stored, so a mount cannot read back what it just wrote.
- **Write-back never drains.** This is the same inverted test in `DiskStore.Put`. Where the shard directory exists, the store writes the blob and then returns an error. The blob server answers 500, and `writeback1` retries the same blob every second forever, so no queued blob leaves the channel. TLC's trace: puts into a fresh cache "succeed" and are queued, the worker writes the head blob to the server, is told it failed, and from then on its retries change nothing. Once the 42-slot channel is full, every put of that mount blocks. The comment on `Paired` says puts are synced to the slow store in the background. With no shard directories on the server, the retry never runs at all, because every server put "fails" and is answered 200; so neither directory layout gives a working write-back.
- **Reconnect livelock.** `closeBoth(cached)` closes `c.conn` whatever connection it is now. Take a `Close`, or one broken connection, while one goroutine is blocked on the old connection. The other goroutine redials. The first one then fails on the old connection, and its `closeBoth` closes the other's new one. That goroutine's next `Encode` or `Decode` then fails and closes the first one's redial. In TLC's trace the roles alternate from one round to the next. TLC finds a cycle in which this repeats forever after a single disruption. Spec §4.6 says only that the failed connection is closed and the next send redials.
- **Renamed child never invalidated.** The registry keeps the first node registered for a key, and `reloadIfNeeded` changes which node holds a key without updating it. TLC's trace: this mount starts with `n1` bound to file key `k1`. Another mount renames `n1` to `n2`, one root put that keeps `k1`. This mount's reload drops its node for `n1` and adopts, for `n2`, the node that `nn`'s `unserialize` made through `ExistingNode`. `addKnown` did not register that node, because `n1`'s node already held `k1`. The same `Lookup` (or `Opendir`) that reloads the root loads `n2`. Another mount then updates `k1`, and `InvalidateCache` flags the dropped node, so the loaded `n2` keeps version 1 forever. Rekeying a kept child in place (`md:283`) has the same effect, as does a remote unlink followed by a create of the same name; those need more root puts than `MaxVersion = 2` allows.
- **PUT of 65528 to 65535 bytes breaks the connection.** `Decode` reads a PUT's value and version with `d.read(r, n+8)`, where `n` is the `uint16` value length. For a value of 65528 to 65535 bytes (a length the u16 field holds), the sum wraps to 0 to 7. `Decode` reads that many bytes and slices `buf[0:n]`. On a buffer not yet grown this panics, and the panic ends the process, because the reading goroutine does not recover. On a buffer grown by earlier large messages, `Decode` returns stale bytes as the value and leaves the rest of the frame in the stream, to be parsed as the next message. TLC's trace: one `Encode` of such a PUT, then a `Decode` that panics. Spec §8 promises `decode(encode(m)) == m` for every well-formed message. The round-trip test's generated strings are at most 50 bytes long. A serialized directory with about 1900 entries, or a file with one large xattr, reaches this size.

### Known issues no run checks

The project keeps its runs to twelve. Three earlier violations are not re-run:
- **Slow store never read (`BlobStores`, `CrossMountRead` with `ServerShards = {s1, s2}`).** `Paired.Get` returns on any fast-store error, including NotFound. So a blob that another mount wrote back to the server is reported NotFound, while spec §4.4 says a fast miss is served from the slow store. TLC found this with `CacheShards = {}`, `QCap = 1` and the other constants of `BlobStoresStuck.cfg`. Its run gave its slot to `codec_roundtrip`.
- **Timeout after apply (`NodeSync`, `EventualInvalidation` with `Faults = {"timeout"}`).** The server applies the put, but the client's request times out. The server does not send the broadcast to the sender, and the client does not bump the version. Nothing ever flags that mount for reload.
- **Shutdown race (`MetaServer`, `ShutdownClosesAll`).** `Serve` appends a connection it accepted just before `ln.Close()` after `Shutdown` has closed `s.conns`. The connection stays open and is served after shutdown.

To reproduce one of them, give the module's cfg that fault or that property.

Two hazards were found by reading the code, and no model has them yet:
- **`Rmdir` on a stale directory.** `Rmdir` tests emptiness on the child's in-memory `Children` without calling `reloadIfNeeded`. A directory that another mount has filled is removed while it still has entries, and those entries are orphaned in the store.
- **`BitcaskStore.Get` hides read errors.** It returns `(nil, nil)` for any error other than `ErrKeyNotFound`. `VersionedWrapper.Put` then takes the key as absent and accepts any version. `VersionedWrapper.Get` slices `nil[:8]` and panics.

## 4. Plan for the remaining parts

1. **Version 0.** A put of version 0 on an absent key, in `MetaServer`.
2. **`NodeTree`.** Extends `NodeRegistry` (which has the root's `Lookup`, `Opendir`, `Create`, `Unlink`, same-directory `Rename` and `Children` reload) to nested directories: `Mkdir`/`Symlink`, and `Rename` across directories (three syncs with no rollback). Planned properties:
   - every child key a directory names in the store has an entry;
   - no two directories hold the same child after a completed rename.

   `Rename` locks the source directory, then the destination, and crossing renames look like a deadlock. They are not one: the kernel's `lock_rename` serializes renames across directories, and it holds both parents' `i_rwsem` before the FUSE request is sent. So no deadlock property is planned.
3. **`BlobStores` extensions.** Model `Paired.Get`'s propagation from slow to fast, once a corrected `Get` is modelled as an alternative, and `InMemoryStore`.
4. **`NodeSync` extensions:**
   - a property that written data is never replaced by empty content after a failed blob put (the Flush rollback);
   - `Write` at offsets into unloaded content.

## 5. Not modelled

- The CLI, the blob HTTP server beyond its PUT status mapping (modelled in `BlobStores`), the Docker image and `genhash` are wiring and I/O.
- Bitcask is an external library.
- Logging and message wording are left out.
- `Time` is left out (see the data abstraction above).
- `Statfs` (`pkg/node/stat.go`) returns 0 and changes no state.
- `InodeNumbersGenerator.Stop` runs only after the FUSE server has stopped serving (see `NodeRegistry`), so no callback can observe it.
- No property is stated about inode numbers. A Go channel hands each value to exactly one receiver, and `Start` sends 2, 3, … in order, so the numbers are distinct by construction. The generator is in `NodeRegistry` because `createLockedChild` and `ensureChildLoaded` wait on it.
- Subdirectories and `Write` at an offset into unloaded content remain in the plan (section 4). `Rmdir`, a timeout after an applied put, the shutdown race, version 0 and `BitcaskStore.Get`'s hidden read errors are hazards without a run. The project is at its cap of twelve runs, and each would need a run of its own that expects a violation (see "Known issues no run checks").
