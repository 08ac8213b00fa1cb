------------------------------ MODULE NodeSync ------------------------------
(***************************************************************************)
(* The filesystem node engine of several mounts (CryptNode, metadata       *)
(* sync, rollback, lazy reload and broadcast invalidation) over one shared *)
(* metadata server (ApplyMessage on a VersionedWrapper, then broadcast to  *)
(* every other connection) and a shared blob store.                        *)
(*                                                                         *)
(* A node operation holds the node's mutex for its whole duration, so each *)
(* kernel callback is one atomic step here; the server applies a put under *)
(* the VersionedWrapper lock, so it too is atomic.  What interleaves is    *)
(* the callbacks of different mounts, and the delivery of broadcasts to    *)
(* each mount's change listener (InvalidateCache).                         *)
(*                                                                         *)
(* Data is abstracted: a node's metadata is one attribute value (standing  *)
(* for uid/gid/mode/mtime), one extended attribute and its content key;    *)
(* content is a member of Data, and Empty doubles as "not loaded" exactly  *)
(* as len(node.content) == 0 does in ensureContentLoaded.  This module     *)
(* models regular files; directories and their children are NodeTree's.   *)
(***************************************************************************)
EXTENDS Naturals, Sequences

CONSTANTS
  Mounts,      \* client nodes mounting the filesystem
  Keys,        \* node keys (regular files), all present in the store
  Attrs,       \* values of the POSIX attributes a Setattr may set
  XVals,       \* values of the one extended attribute
  NoX,         \* the extended attribute is absent
  Data,        \* file contents
  Empty,       \* the empty content (and nil: content not loaded)
  NoKey,       \* empty content key: node has no content
  Unset,       \* a Setattr field the kernel did not set
  NoEntry,     \* store entry of a key never put
  MaxVersion,  \* bound on store versions: no put beyond it
  Faults       \* the failures the environment may inject

ASSUME Empty \in Data /\ NoX \notin XVals /\ MaxVersion \in Nat \ {0}
ASSUME Faults \subseteq {"blob", "lost", "timeout", "bcast"}

VARIABLES
  node,    \* node[m][k]: mount m's in-memory CryptNode for key k
  store,   \* store[k]: the server's versioned entry for key k
  blobs,   \* contents present in the blob store
  bq       \* bq[m]: broadcasts written to m's connection, not yet read

vars == <<node, store, blobs, bq>>

(***************************************************************************)
(* BlobStoreWrapper keys a content by its Blake2b-512 hash.  Model it as   *)
(* an injective tagging, i.e. a collision-free hash.                       *)
(***************************************************************************)
H(d) == <<"blake2b", d>>

CKeys == {H(d) : d \in Data} \cup {NoKey}

DataOf(ck) == CHOOSE d \in Data : H(d) = ck

\* The serialized metadata of a node (CryptNode.serialize, minus children).
Meta == [attr : Attrs, xattr : XVals \cup {NoX}, ckey : CKeys]

MetaOf(n) == [attr |-> n.attr, xattr |-> n.xattr, ckey |-> n.ckey]

NodeRec == [ver : 0..MaxVersion, attr : Attrs, xattr : XVals \cup {NoX},
            ckey : CKeys, content : Data,
            saveMeta : BOOLEAN, saveContent : BOOLEAN, reload : BOOLEAN]

BMsg == [key : Keys, version : 1..MaxVersion]

(***************************************************************************)
(* Server side.                                                            *)
(***************************************************************************)

\* Mutant: an off-by-one that also accepts a put at the current version.
VersionedPutAcceptsEqual(entry, v) ==
  entry = NoEntry \/ ~(v < entry.version)

\* VersionedWrapper.Put: stale iff an entry exists and the put version is
\* below its version + 1.  A larger version is accepted.
VersionedPutAccepts(entry, v) ==
  entry = NoEntry \/ ~(v < entry.version + 1)

\* Mutant: the exclusion test inverted, so only the sender is notified.
BroadcastToSenderOnly(sender, k, v) ==
  [o \in Mounts |-> IF o # sender THEN bq[o]
                    ELSE Append(bq[o], [key |-> k, version |-> v])]

\* Server.broadcast: the accepted put, with tag 0, to every connection but
\* the sender's.
Broadcast(sender, k, v) ==
  [o \in Mounts |-> IF o = sender THEN bq[o]
                    ELSE Append(bq[o], [key |-> k, version |-> v])]

(***************************************************************************)
(* node.sync(), as the set of its possible outcomes.  An outcome records   *)
(* the node after sync, the new store, blobs and broadcast queues, and     *)
(* whether sync returned OK.                                               *)
(***************************************************************************)

\* Step 1: save content.  BlobStoreWrapper.Put returns the hash even when
\* the delegate fails, and sync assigns it to contentKey before looking at
\* the error.
BlobStep(n) ==
  IF ~n.saveContent
  THEN {[n |-> n, blobs |-> blobs, ok |-> TRUE]}
  ELSE LET key == H(n.content) IN
       {[n |-> [n EXCEPT !.ckey = key, !.saveContent = FALSE,
                         !.saveMeta = @ \/ key # n.ckey],
         blobs |-> blobs \cup {n.content}, ok |-> TRUE]}
       \cup
       (IF "blob" \in Faults
        THEN {[n |-> [n EXCEPT !.ckey = key], blobs |-> blobs, ok |-> FALSE]}
        ELSE {})

\* Mutant: saveMetadata bumps node.version whatever Put returned.
MetaStepBumpAlways(m, k, n) ==
  IF ~n.saveMeta
  THEN {[n |-> n, store |-> store, bq |-> bq, ok |-> TRUE]}
  ELSE LET v == n.ver + 1 IN
       IF VersionedPutAccepts(store[k], v)
       THEN {[n |-> [n EXCEPT !.ver = v, !.saveMeta = FALSE],
              store |-> [store EXCEPT ![k] = [version |-> v, value |-> MetaOf(n)]],
              bq |-> Broadcast(m, k, v), ok |-> TRUE],
             [n |-> [n EXCEPT !.ver = v], store |-> store, bq |-> bq, ok |-> FALSE]}
       ELSE {[n |-> [n EXCEPT !.ver = v, !.reload = TRUE],
              store |-> store, bq |-> bq, ok |-> FALSE]}

\* Step 2: saveMetadata, a versioned put at version + 1 through the remote
\* store.  The request may be lost before the server ("lost"), or applied
\* by the server with the answer never reaching the client ("timeout").
MetaStep(m, k, n) ==
  IF ~n.saveMeta
  THEN {[n |-> n, store |-> store, bq |-> bq, ok |-> TRUE]}
  ELSE LET v        == n.ver + 1
           accepted == VersionedPutAccepts(store[k], v)
           applied  == [store EXCEPT ![k] = [version |-> v, value |-> MetaOf(n)]]
       IN  (IF accepted
            THEN {[n |-> [n EXCEPT !.ver = v, !.saveMeta = FALSE],
                   store |-> applied, bq |-> Broadcast(m, k, v), ok |-> TRUE]}
            ELSE {[n |-> [n EXCEPT !.reload = TRUE],
                   store |-> store, bq |-> bq, ok |-> FALSE]})
           \cup
           (IF "lost" \in Faults
            THEN {[n |-> n, store |-> store, bq |-> bq, ok |-> FALSE]}
            ELSE {})
           \cup
           (IF "timeout" \in Faults /\ accepted
            THEN {[n |-> n, store |-> applied, bq |-> Broadcast(m, k, v),
                   ok |-> FALSE]}
            ELSE {})

Sync(m, k, n) ==
  UNION {IF b.ok
         THEN {[n |-> q.n, store |-> q.store, bq |-> q.bq, ok |-> q.ok,
                blobs |-> b.blobs] : q \in MetaStep(m, k, b.n)}
         ELSE {[n |-> b.n, store |-> store, bq |-> bq, ok |-> FALSE,
                blobs |-> b.blobs]}
         : b \in BlobStep(n)}

\* Install a sync outcome, the node of mount m becoming n.
Commit(m, k, o, n) ==
  /\ node'  = [node EXCEPT ![m][k] = n]
  /\ store' = o.store
  /\ blobs' = o.blobs
  /\ bq'    = o.bq

(***************************************************************************)
(* Read side: reloadIfNeeded (LoadMetadata into a fresh node, then copy)   *)
(* and ensureContentLoaded.  Each returns outcomes [n, ok].                *)
(***************************************************************************)
\* Mutant: reload forgets to replace the extended attributes.
ReloadKeepXattr(k, n) ==
  IF ~n.reload
  THEN {[n |-> n, ok |-> TRUE]}
  ELSE LET nn == store[k].value IN
       {[n |-> [n EXCEPT !.saveMeta = FALSE, !.reload = FALSE,
                         !.saveContent = FALSE, !.attr = nn.attr,
                         !.ver = store[k].version, !.ckey = nn.ckey,
                         !.content = IF n.ckey # nn.ckey THEN Empty ELSE @],
         ok |-> TRUE]}

Reload(k, n) ==
  IF ~n.reload
  THEN {[n |-> n, ok |-> TRUE]}
  ELSE LET nn == store[k].value IN
       {[n |-> [n EXCEPT !.saveMeta = FALSE, !.reload = FALSE,
                         !.saveContent = FALSE,
                         !.attr = nn.attr, !.ver = store[k].version,
                         !.xattr = nn.xattr,
                         !.ckey = nn.ckey,
                         !.content = IF n.ckey # nn.ckey THEN Empty ELSE @],
         ok |-> TRUE]}
       \cup (IF "lost" \in Faults THEN {[n |-> n, ok |-> FALSE]} ELSE {})

\* Mutant: the blob's key cached in place of its value.
EnsureContentLoadedKey(n) ==
  IF n.saveContent \/ n.ckey = NoKey \/ n.content # Empty
  THEN {[n |-> n, ok |-> TRUE]}
  ELSE {[n |-> [n EXCEPT !.content = n.ckey], ok |-> TRUE]}

EnsureContentLoaded(n) ==
  IF n.saveContent \/ n.ckey = NoKey \/ n.content # Empty
  THEN {[n |-> n, ok |-> TRUE]}
  ELSE (IF DataOf(n.ckey) \in blobs
        THEN {[n |-> [n EXCEPT !.content = DataOf(n.ckey)], ok |-> TRUE]}
        ELSE {})
       \cup
       (IF "blob" \in Faults \/ DataOf(n.ckey) \notin blobs
        THEN {[n |-> n, ok |-> FALSE]} ELSE {})

(***************************************************************************)
(* Kernel callbacks of mount m on node k.  A callback that may put is      *)
(* enabled only while the store is below MaxVersion.                       *)
(***************************************************************************)
CanPut(k) == store[k] # NoEntry /\ store[k].version < MaxVersion

\* Setxattr: XATTR_CREATE fails with EEXIST if present, XATTR_REPLACE with
\* ENODATA if absent (both before any change); then set, sync, roll back
\* the one attribute on error.
Setxattr(m, k, flag, x) ==
  LET n == node[m][k] IN
  /\ CanPut(k)
  /\ ~(flag = "create" /\ n.xattr # NoX)
  /\ ~(flag = "replace" /\ n.xattr = NoX)
  /\ \E o \in Sync(m, k, [n EXCEPT !.xattr = x, !.saveMeta = TRUE]) :
       Commit(m, k, o, IF o.ok THEN o.n ELSE [o.n EXCEPT !.xattr = n.xattr])

\* Setattr: set the requested attributes; a size change resizes the content
\* and marks it for saving.  On error restore the attributes and the
\* content, and nothing else.
Setattr(m, k, a, d) ==
  LET n  == node[m][k]
      n1 == [n EXCEPT !.attr = IF a = Unset THEN @ ELSE a,
                      !.content = IF d = Unset THEN @ ELSE d,
                      !.saveContent = @ \/ d # Unset,
                      !.saveMeta = TRUE]
  IN
  /\ CanPut(k)
  /\ \E o \in Sync(m, k, n1) :
       Commit(m, k, o, IF o.ok THEN o.n
                       ELSE [o.n EXCEPT !.attr = n.attr, !.content = n.content])

\* Write: copy data in (growing the content), mark content for saving; the
\* save is deferred to Flush.
Write(m, k, d) ==
  /\ node' = [node EXCEPT ![m][k].content = d, ![m][k].saveContent = TRUE]
  /\ UNCHANGED <<store, blobs, bq>>

\* Flush (and Release, Fsync): sync; on error, if the content key moved,
\* restore it and drop the cached content.
Flush(m, k) ==
  LET n == node[m][k] IN
  /\ CanPut(k)
  /\ n.saveMeta \/ n.saveContent
  /\ \E o \in Sync(m, k, n) :
       Commit(m, k, o, IF o.ok \/ o.n.ckey = n.ckey THEN o.n
                       ELSE [o.n EXCEPT !.ckey = n.ckey, !.content = Empty])

\* Getattr (and Open): reloadIfNeeded, then ensureContentLoaded; an error in
\* either returns EIO with what was done so far kept.
Getattr(m, k) ==
  LET n == node[m][k] IN
  /\ n.reload \/ (~n.saveContent /\ n.ckey # NoKey /\ n.content = Empty)
  /\ \E r \in Reload(k, n) :
       IF ~r.ok THEN UNCHANGED vars
       ELSE \E c \in EnsureContentLoaded(r.n) :
              /\ node' = [node EXCEPT ![m][k] = c.n]
              /\ UNCHANGED <<store, blobs, bq>>

\* The client's reader reads a broadcast and calls the change listener,
\* CryptNodeFactory.InvalidateCache: a newer version marks the node.
InvalidateCache(m) ==
  LET msg == Head(bq[m])
      n   == node[m][msg.key]
  IN
  /\ bq[m] # <<>>
  /\ bq' = [bq EXCEPT ![m] = Tail(@)]
  /\ node' = IF msg.version <= n.ver THEN node
             ELSE [node EXCEPT ![m][msg.key].reload = TRUE]
  /\ UNCHANGED <<store, blobs>>

\* A broadcast write to m's connection fails: logged and dropped.
DropBroadcast(m) ==
  /\ "bcast" \in Faults
  /\ bq[m] # <<>>
  /\ bq' = [bq EXCEPT ![m] = Tail(@)]
  /\ UNCHANGED <<node, store, blobs>>

(***************************************************************************)
(* Specification.  Every mount has looked its files up: each node is       *)
(* loaded at the store's version, content not yet loaded.                  *)
(***************************************************************************)
Init ==
  /\ store \in [Keys -> [version : {1}, value : Meta]]
  /\ blobs = {d \in Data : \E k \in Keys : store[k].value.ckey = H(d)}
  /\ node = [m \in Mounts |-> [k \in Keys |->
              [ver |-> 1, attr |-> store[k].value.attr,
               xattr |-> store[k].value.xattr, ckey |-> store[k].value.ckey,
               content |-> Empty,
               saveMeta |-> FALSE, saveContent |-> FALSE, reload |-> FALSE]]]
  /\ bq = [m \in Mounts |-> <<>>]

Next ==
  \/ \E m \in Mounts, k \in Keys :
       \/ \E f \in {"create", "replace", "default"}, x \in XVals :
            Setxattr(m, k, f, x)
       \/ \E a \in Attrs \cup {Unset}, d \in Data \cup {Unset} : Setattr(m, k, a, d)
       \/ \E d \in Data \ {Empty} : Write(m, k, d)
       \/ Flush(m, k)
       \/ Getattr(m, k)
  \/ \E m \in Mounts : InvalidateCache(m) \/ DropBroadcast(m)

\* Each client's reader goroutine decodes its connection continuously.
Fairness == \A m \in Mounts : WF_vars(InvalidateCache(m))

Spec == Init /\ [][Next]_vars /\ Fairness

(***************************************************************************)
(* Properties.                                                             *)
(***************************************************************************)
TypeOK ==
  /\ node \in [Mounts -> [Keys -> NodeRec]]
  /\ store \in [Keys -> [version : 1..MaxVersion, value : Meta]]
  /\ blobs \subseteq Data
  /\ bq \in [Mounts -> Seq(BMsg)]

\* A mount never believes a node is at a version the store has not reached:
\* sync bumps node.version only after the server accepted the put, and a
\* reload copies the store's version.  A node ahead of the store would put
\* version + 1 over a version nobody has seen.
VersionNotAhead ==
  \A m \in Mounts, k \in Keys : node[m][k].ver <= store[k].version

\* Cache coherence of the node engine: a node at the store's current
\* version, with nothing to save and no reload pending, holds exactly the
\* metadata the store holds.  Rollbacks, reloads and the dirty flags of
\* sync must all agree for this to hold across mounts.
CleanNodeMatchesStore ==
  \A m \in Mounts, k \in Keys :
    LET n == node[m][k] IN
    (n.ver = store[k].version /\ ~n.saveMeta /\ ~n.reload)
      => MetaOf(n) = store[k].value

\* The metadata server, driven by every mount's syncs, implements the
\* versioned register: each accepted put moves a key to exactly the next
\* version (spec.md section 3: version increases by exactly 1 per
\* accepted mutation).
Register == INSTANCE VersionedRegister WITH reg <- store, Values <- Meta
StoreRefinesRegister == Register!Spec

\* Loaded content that is not marked for saving is the content its key
\* names (spec.md section 3: content_key lags only while content written
\* locally is not yet flushed).  Otherwise the next metadata save persists
\* a key for other bytes than the mount shows, or the mount's bytes are
\* never saved at all.
ContentMatchesKey ==
  \A m \in Mounts, k \in Keys :
    LET n == node[m][k] IN
    (n.content # Empty /\ ~n.saveContent) => n.ckey = H(n.content)

\* Every mount eventually learns that a node moved on elsewhere: while the
\* store is ahead of a mount's node, the change listener eventually flags
\* the node for reload (or the mount catches up by itself).
EventualInvalidation ==
  \A m \in Mounts, k \in Keys :
    (store[k].version > node[m][k].ver)
      ~> (node[m][k].reload \/ node[m][k].ver >= store[k].version)

=============================================================================
