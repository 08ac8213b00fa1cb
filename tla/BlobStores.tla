----------------------------- MODULE BlobStores -----------------------------
(***************************************************************************)
(* The content path of every mount: BlobStoreWrapper over a Paired store   *)
(* whose fast side is a DiskStore cache and whose slow side is the blob    *)
(* HTTP server, itself a DiskStore (cmd/mount.go, the blob command).       *)
(*                                                                         *)
(* A blob is named by the hash of its content, so a blob is identified     *)
(* with its content d and a DiskStore holds a set of contents.  DiskStore  *)
(* writes <dir>/<first hash byte>/<hash>; which shard directories exist is *)
(* part of its state.  Paired.Put and the HTTP client of the blob server   *)
(* are not in the repository: Put writes the fast store and, on success,   *)
(* queues the blob for the write-back worker (spec.md 4.4); the HTTP      *)
(* client maps status 200 to success and any other status to an error.    *)
(***************************************************************************)
EXTENDS Naturals, Sequences

CONSTANTS
  Mounts,        \* mounting processes, each with its own cache directory
  Data,          \* blob contents
  Shards,        \* shard directories (first byte of a blob's hash)
  ShardOf(_),    \* the shard directory of a blob
  CacheShards,   \* shard directories present in each cache when it starts
  ServerShards,  \* shard directories present in the blob server's data dir
  QCap           \* capacity of the write-back channel (42 in NewPaired)

ASSUME \A d \in Data : ShardOf(d) \in Shards
ASSUME CacheShards \subseteq Shards /\ ServerShards \subseteq Shards
ASSUME QCap \in Nat \ {0}

VARIABLES
  cache,   \* cache[m]: mount m's DiskStore, [files, dirs]
  server,  \* the blob server's DiskStore
  wbc,     \* wbc[m]: the write-back channel of m's Paired store
  putOK,   \* putOK[m]: blobs whose put returned success to m's node
  missed   \* pairs <<m, d>>: m's get of d said NotFound while the
           \* slow store held d

vars == <<cache, server, wbc, putOK, missed>>

Disk == [files : SUBSET Data, dirs : SUBSET Shards]

(***************************************************************************)
(* DiskStore.                                                              *)
(***************************************************************************)

\* DiskStore.Put: os.WriteFile fails when the shard directory is missing,
\* and then Put returns nil; when it succeeds, err is nil, !IsNotExist(nil)
\* holds, and Put returns an error.  MkdirAll is never reached.
DiskPut(disk, d) ==
  IF ShardOf(d) \in disk.dirs
  THEN [disk |-> [disk EXCEPT !.files = @ \cup {d}], ok |-> FALSE]
  ELSE [disk |-> disk, ok |-> TRUE]

\* DiskStore.Get: os.ReadFile, NotFound when the file does not exist.
DiskHas(disk, d) == d \in disk.files

(***************************************************************************)
(* Mount side.                                                             *)
(***************************************************************************)

\* BlobStoreWrapper.Put(d) -> Paired.Put(H(d), d): write the fast store;
\* on success queue the blob (blocking while the channel is full).
BlobPut(m, d) ==
  LET r == DiskPut(cache[m], d) IN
  /\ d \notin putOK[m]
  /\ r.ok => Len(wbc[m]) < QCap
  /\ cache' = [cache EXCEPT ![m] = r.disk]
  /\ wbc' = IF r.ok THEN [wbc EXCEPT ![m] = Append(@, d)] ELSE wbc
  /\ putOK' = IF r.ok THEN [putOK EXCEPT ![m] = @ \cup {d}] ELSE putOK
  /\ UNCHANGED <<server, missed>>

\* Paired.Get: the fast store's error is returned before it is compared
\* with ErrNotFound, so a fast miss is returned as is and the slow store
\* is never consulted (nor the fast store filled from it).
BlobGet(m, d) ==
  /\ ~DiskHas(cache[m], d)
  /\ missed' = IF DiskHas(server, d) THEN missed \cup {<<m, d>>} ELSE missed
  /\ UNCHANGED <<cache, server, wbc, putOK>>

\* Paired.writeback1: one attempt to put the head of the channel on the
\* slow store (an HTTP PUT, served by DiskStore.Put on the blob server).
\* Status 200 ends the loop; any other status is retried after a second.
Writeback(m) ==
  LET d == Head(wbc[m])
      r == DiskPut(server, d)
  IN
  /\ wbc[m] # <<>>
  /\ server' = r.disk
  /\ wbc' = IF r.ok THEN [wbc EXCEPT ![m] = Tail(@)] ELSE wbc
  /\ UNCHANGED <<cache, putOK, missed>>

(***************************************************************************)
(* Specification.                                                          *)
(***************************************************************************)
Init ==
  /\ cache = [m \in Mounts |-> [files |-> {}, dirs |-> CacheShards]]
  /\ server = [files |-> {}, dirs |-> ServerShards]
  /\ wbc = [m \in Mounts |-> <<>>]
  /\ putOK = [m \in Mounts |-> {}]
  /\ missed = {}

Next ==
  \E m \in Mounts :
    \/ \E d \in Data : BlobPut(m, d) \/ BlobGet(m, d)
    \/ Writeback(m)

\* The write-back goroutine of each Paired store runs until process exit.
Fairness == \A m \in Mounts : WF_vars(Writeback(m))

Spec == Init /\ [][Next]_vars /\ Fairness

(***************************************************************************)
(* Properties.                                                             *)
(***************************************************************************)
TypeOK ==
  /\ cache \in [Mounts -> Disk] /\ server \in Disk
  /\ \A m \in Mounts : wbc[m] \in Seq(Data) /\ Len(wbc[m]) <= QCap
  /\ putOK \in [Mounts -> SUBSET Data]
  /\ missed \subseteq Mounts \X Data

Queued(m, d) == \E i \in 1..Len(wbc[m]) : wbc[m][i] = d

\* Spec.md 4.4 and 8: a blob whose put returned success is visible to
\* the same mount's gets at once (blob.get(blob.put(v)) == v).
ReadYourWrites ==
  \A m \in Mounts : \A d \in putOK[m] : DiskHas(cache[m], d)

\* Spec.md 4.4: a get that misses the fast store consults the slow one,
\* so no get reports NotFound for a blob the blob server holds.
CrossMountRead == missed = {}

\* Every blob queued for write-back eventually leaves the channel: the
\* worker's slow put eventually returns success.
WritebackDrains ==
  \A m \in Mounts, d \in Data : Queued(m, d) ~> ~Queued(m, d)

====
