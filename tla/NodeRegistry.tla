----------------------------- MODULE NodeRegistry -----------------------------
(***************************************************************************)
(* One mount's view of a directory: the factory's registry of known nodes *)
(* (pkg/node/nodefcatory.go), the root directory's Children, and how they *)
(* are kept in step with the metadata store by Lookup, reloadIfNeeded,    *)
(* Getattr, Create and the change listener InvalidateCache, and the      *)
(* inode numbers the mount's generator hands to the nodes it attaches.    *)
(*                                                                         *)
(* Nodes are the objects the mount allocates, numbered in allocation      *)
(* order; 0 is the root, set up by cmd/mount.go.  The root's children are *)
(* regular files.  Other mounts are the environment: they create, update, *)
(* unlink and rename entries of the root in the store, and the server     *)
(* broadcasts every put they make to this mount.  Attributes, xattrs and  *)
(* content are left out (NodeSync models them); a node's metadata is its  *)
(* key and version.                                                        *)
(***************************************************************************)
EXTENDS Naturals, FiniteSets, Sequences, Functions

CONSTANTS
  Names,       \* entry names in the root directory
  RootKey,     \* the all-zero key of the root node
  FileKeys,    \* the random keys allocateNode may draw
  NoKey,       \* no key
  NoObj,       \* nil
  MaxObjs,     \* bound on the nodes one mount allocates
  MaxVersion,  \* bound on the versions of a key
  RemoteOps,   \* what other mounts do: "create", "update", "unlink", "rename"
  ChanCap      \* capacity of the inode generator's channel (42 in the code)

ASSUME RemoteOps \subseteq {"create", "update", "unlink", "rename"}
ASSUME MaxObjs \in Nat /\ MaxVersion \in Nat
\* Opendir takes one inode number per child; a larger directory only makes
\* its loop wait for the generator in between.
ASSUME ChanCap >= Cardinality(Names)

Keys == {RootKey} \cup FileKeys
Objs == 0..MaxObjs
RootObj == 0

VARIABLES
  sver,      \* sver[k]: the version of k in the metadata store, 0 if absent
  sdir,      \* the root's listing in the store: name -> key
  known,     \* factory.known: key -> node
  okey,      \* okey[o]: o.Key
  over,      \* over[o]: o.version
  loaded,    \* the nodes whose Mode is not modeNotLoaded
  reload,    \* the nodes with shouldReloadMetadata set
  children,  \* root.Children: name -> node
  nobj,      \* the number of nodes allocated
  bq,        \* broadcasts received and not yet passed to InvalidateCache
  rdirty,    \* the root's shouldSaveMetadata
  ino,       \* ino[o]: the StableAttr.Ino of o's fs.Inode, 0 if it has none
  ich,       \* InodeNumbersGenerator.nextCh: numbers sent, not yet received
  gnext      \* the generator loop's ino

vars == <<sver, sdir, known, okey, over, loaded, reload, children, nobj, bq,
          rdirty, ino, ich, gnext>>
inoVars == <<ino, ich, gnext>>

Listed == {n \in Names : sdir[n] # NoKey}
Bcast(k, v) == [key |-> k, version |-> v]

(***************************************************************************)
(* Factory.                                                                *)
(***************************************************************************)

\* addKnown: the first node registered for a key stays; a later one is
\* not registered.
AddKnown(kn, k, o) == IF kn[k] # NoObj THEN kn ELSE [kn EXCEPT ![k] = o]

\* getKnown.
GetKnown(k) == known[k]

\* allocateNode: a new node, the next one allocated, under random key k,
\* registered by addKnown.
AllocateNode(k) == AddKnown(known, k, nobj + 1)

\* Mutant: a broadcast taken as stale unless it is two versions ahead.
InvalidateCacheOffByOne(m) ==
  /\ m \in bq
  /\ bq' = bq \ {m}
  /\ reload' = IF GetKnown(m.key) # NoObj
                  /\ m.version > over[GetKnown(m.key)] + 1
                 THEN reload \cup {GetKnown(m.key)} ELSE reload
  /\ UNCHANGED <<sver, sdir, known, okey, over, loaded, children, nobj, rdirty>>
  /\ UNCHANGED inoVars

\* InvalidateCache, the change listener: flag the registered node of the
\* broadcast's key when the broadcast is newer than the node's version.
InvalidateCache(m) ==
  /\ m \in bq
  /\ bq' = bq \ {m}
  /\ reload' = IF GetKnown(m.key) # NoObj
                  /\ m.version > over[GetKnown(m.key)]
                 THEN reload \cup {GetKnown(m.key)} ELSE reload
  /\ UNCHANGED <<sver, sdir, known, okey, over, loaded, children, nobj, rdirty>>
  /\ UNCHANGED inoVars

(***************************************************************************)
(* The inode number generator (unnamed/part_006).                          *)
(***************************************************************************)

\* cmd/mount.go: NewInodeNumbersGenerator, go g.Start(); the loop's ino
\* starts at 2, since 1 is the root's.
InitGenerator == ich = <<>> /\ gnext = 2

\* One turn of Start's loop: send ino on the buffered channel, then ino++.
GenSend ==
  /\ Len(ich) < ChanCap
  /\ ich' = Append(ich, gnext)
  /\ gnext' = gnext + 1
  /\ UNCHANGED <<sver, sdir, known, okey, over, loaded, reload, children, nobj,
                 bq, rdirty, ino>>

\* Next: receive one number from the channel for node o.
TakeIno(o) ==
  /\ ich # <<>>
  /\ ino' = [ino EXCEPT ![o] = Head(ich)]
  /\ ich' = Tail(ich)
  /\ UNCHANGED gnext

(***************************************************************************)
(* The root directory.                                                     *)
(***************************************************************************)

\* LoadMetadata of the root into a fresh node nn: unserialize calls
\* ExistingNode(name, key) for every listed child, a new unloaded node each
\* time, handed to addKnown.  fresh[n] is the node made for name n.
Fresh == CHOOSE g \in [Listed -> nobj + 1 .. nobj + Cardinality(Listed)] :
           IsInjective(g)

KnownAfterLoad ==
  [k \in Keys |->
     IF \E n \in Listed : sdir[n] = k
       THEN AddKnown(known, k, Fresh[CHOOSE n \in Listed : sdir[n] = k])[k]
       ELSE known[k]]

\* Mutant: the loop dropping the names nn does not list left out.
RootReloadedKeepRemoved ==
  LET kept == {n \in Listed : children[n] # NoObj}
      rekeyed == {children[n] : n \in {m \in kept : okey[children[m]] # sdir[m]}}
      NewChild(n) == IF n \in kept THEN children[n] ELSE Fresh[n]
  IN
  [children |-> [n \in Names |-> IF n \in Listed THEN NewChild(n) ELSE children[n]],
   okey |-> [o \in Objs |->
               IF \E n \in Listed : NewChild(n) = o \/ Fresh[n] = o
                 THEN sdir[CHOOSE n \in Listed : NewChild(n) = o \/ Fresh[n] = o]
                 ELSE okey[o]],
   over |-> [over EXCEPT ![RootObj] = sver[RootKey]],
   reload |-> (reload \ {RootObj}) \cup rekeyed,
   known |-> KnownAfterLoad,
   nobj |-> nobj + Cardinality(Listed),
   dirty |-> FALSE]

\* reloadIfNeeded on the flagged root: take nn's version; for each listed
\* name keep the node the root has (setting its key and flagging it when
\* the key changed) or adopt nn's node; drop the names nn does not list.
RootReloaded ==
  LET kept == {n \in Listed : children[n] # NoObj}
      rekeyed == {children[n] : n \in {m \in kept : okey[children[m]] # sdir[m]}}
      NewChild(n) == IF n \in kept THEN children[n] ELSE Fresh[n]
  IN
  [children |-> [n \in Names |-> IF n \in Listed THEN NewChild(n) ELSE NoObj],
   okey |-> [o \in Objs |->
               IF \E n \in Listed : NewChild(n) = o \/ Fresh[n] = o
                 THEN sdir[CHOOSE n \in Listed : NewChild(n) = o \/ Fresh[n] = o]
                 ELSE okey[o]],
   over |-> [over EXCEPT ![RootObj] = sver[RootKey]],
   reload |-> (reload \ {RootObj}) \cup rekeyed,
   known |-> KnownAfterLoad,
   nobj |-> nobj + Cardinality(Listed),
   dirty |-> FALSE]

\* The root after reloadIfNeeded: reloaded if flagged, unchanged if not.
RootAfterReload ==
  IF RootObj \in reload
    THEN RootReloaded
    ELSE [children |-> children, okey |-> okey, over |-> over,
          reload |-> reload, known |-> known, nobj |-> nobj, dirty |-> rdirty]

\* The root r after reloadIfNeeded, and ensureChildLoaded for the nodes S
\* of its children: a child in modeNotLoaded loads its version from the
\* store and is added to the tree with an inode number from Next, in the
\* order the Children map is iterated; a loaded child is left as it is.
LoadInto(r, S) ==
  /\ r.nobj <= MaxObjs
  /\ Len(ich) >= Cardinality(S)
  /\ \E order \in Injection(S, 1..Cardinality(S)) :
       ino' = [o \in Objs |-> IF o \in S THEN ich[order[o]] ELSE ino[o]]
  /\ ich' = SubSeq(ich, Cardinality(S) + 1, Len(ich))
  /\ UNCHANGED gnext
  /\ children' = r.children
  /\ okey' = r.okey
  /\ over' = [o \in Objs |-> IF o \in S THEN sver[r.okey[o]] ELSE r.over[o]]
  /\ loaded' = loaded \cup S
  /\ reload' = r.reload
  /\ known' = r.known
  /\ nobj' = r.nobj
  /\ rdirty' = r.dirty
  /\ UNCHANGED <<sver, sdir, bq>>

\* The children of r that ensureChildLoaded loads, among the names N.
\* A listed key always has a store entry (a child is put before the
\* listing that names it), so LoadMetadata does not fail here.
ToLoad(r, N) ==
  {r.children[n] : n \in {m \in N : r.children[m] # NoObj
                                   /\ r.children[m] \notin loaded
                                   /\ sver[r.okey[r.children[m]]] > 0}}

\* Lookup(name), under the root's lock: reloadIfNeeded, then
\* ensureChildLoaded for the named child.
Lookup(n) == LoadInto(RootAfterReload, ToLoad(RootAfterReload, {n}))

\* Opendir, under the root's lock: reloadIfNeeded, then ensureChildLoaded
\* for every child.
Opendir == LoadInto(RootAfterReload, ToLoad(RootAfterReload, Names))

\* Getattr on a child the kernel holds: reloadIfNeeded (a regular file has
\* no children to merge).
Getattr(o) ==
  /\ o \in loaded /\ o \in reload
  /\ \E n \in Names : children[n] = o
  /\ sver[okey[o]] > 0
  /\ over' = [over EXCEPT ![o] = sver[okey[o]]]
  /\ reload' = reload \ {o}
  /\ UNCHANGED <<sver, sdir, known, okey, loaded, children, nobj, bq, rdirty>>
  /\ UNCHANGED inoVars

\* Mutant: the version bumped twice.
SaveVersionSkip(v) == v + 2

\* saveMetadata: the put carries node.version + 1, which becomes the
\* node's version when the put succeeds.
SaveVersion(v) == v + 1

\* The root's sync: its put of version + 1 is accepted when the store is
\* not ahead of the root; the listing is its Children's keys.
RootPutAccepted == sver[RootKey] < SaveVersion(over[RootObj])

ListingOf(kids, keyOf) ==
  [m \in Names |-> IF kids[m] = NoObj THEN NoKey ELSE keyOf[kids[m]]]

\* createLockedChild: take an inode number, allocate node o under the
\* fresh random key k (allocateNode registers it), set its Mode and add it
\* to the tree.
CreateLockedChild(k, o) ==
  /\ TakeIno(o)
  /\ known' = AllocateNode(k)
  /\ okey' = [okey EXCEPT ![o] = k]
  /\ loaded' = loaded \cup {o}
  /\ nobj' = o

\* Create(name): createLockedChild allocates a node under a fresh random
\* key and adds it to Children; the child's
\* sync puts version 1; the root's sync puts the root's version + 1 with
\* its own Children as the listing.  On StalePut the root is flagged for
\* reload, keeps shouldSaveMetadata, and the rollback removes the child
\* from Children; the child's key stays in the store and in the registry.
Create(n) ==
  LET k == CHOOSE x \in FileKeys : sver[x] = 0 /\ known[x] = NoObj
      o == nobj + 1
      kids == [children EXCEPT ![n] = o]
  IN
  /\ children[n] = NoObj
  /\ \E x \in FileKeys : sver[x] = 0 /\ known[x] = NoObj
  /\ o <= MaxObjs /\ over[RootObj] < MaxVersion
  /\ CreateLockedChild(k, o)
  /\ \/ /\ RootPutAccepted
        /\ sver' = [sver EXCEPT ![k] = SaveVersion(0),
                                ![RootKey] = SaveVersion(over[RootObj])]
        /\ sdir' = ListingOf(kids, okey')
        /\ over' = [over EXCEPT ![o] = SaveVersion(0),
                                ![RootObj] = SaveVersion(@)]
        /\ children' = kids
        /\ rdirty' = FALSE
        /\ UNCHANGED reload
     \/ /\ ~RootPutAccepted
        /\ sver' = [sver EXCEPT ![k] = SaveVersion(0)]
        /\ over' = [over EXCEPT ![o] = SaveVersion(0)]
        /\ reload' = reload \cup {RootObj}
        /\ rdirty' = TRUE
        /\ UNCHANGED <<sdir, children>>
  /\ UNCHANGED bq

\* Unlink(name), under the root's lock: delete the entry (a name the
\* kernel still holds may already be gone after a reload) and sync the
\* root; on StalePut the rollback puts the child back.  Rmdir of an empty
\* directory takes the same steps.
Unlink(n) ==
  LET kids == [children EXCEPT ![n] = NoObj]
  IN
  /\ over[RootObj] < MaxVersion
  /\ \/ /\ RootPutAccepted
        /\ sver' = [sver EXCEPT ![RootKey] = SaveVersion(over[RootObj])]
        /\ sdir' = ListingOf(kids, okey)
        /\ over' = [over EXCEPT ![RootObj] = SaveVersion(@)]
        /\ children' = kids
        /\ rdirty' = FALSE
        /\ UNCHANGED reload
     \/ /\ ~RootPutAccepted
        /\ reload' = reload \cup {RootObj}
        /\ rdirty' = TRUE
        /\ UNCHANGED <<sver, sdir, over, children>>
  /\ UNCHANGED <<known, okey, loaded, nobj, bq>>
  /\ UNCHANGED inoVars

\* Rename(name, newName) within the root, which the kernel has looked up
\* (so the child is loaded): under the root's and the child's locks, move
\* the child to newName (dropping what was there), mark child and root
\* for saving, then sync the child and then the root.  Nothing is rolled
\* back: when a sync fails, Children keep the move and the error is
\* returned.
Rename(m, n) ==
  LET c == children[m]
      kids == [children EXCEPT ![n] = c, ![m] = NoObj]
      childAccepted == sver[okey[c]] < SaveVersion(over[c])
  IN
  /\ m # n /\ c # NoObj /\ c \in loaded
  /\ over[c] < MaxVersion /\ over[RootObj] < MaxVersion
  /\ children' = kids
  /\ \/ /\ ~childAccepted
        /\ reload' = reload \cup {c}
        /\ rdirty' = TRUE
        /\ UNCHANGED <<sver, sdir, over>>
     \/ /\ childAccepted /\ RootPutAccepted
        /\ sver' = [sver EXCEPT ![okey[c]] = SaveVersion(over[c]),
                                ![RootKey] = SaveVersion(over[RootObj])]
        /\ sdir' = ListingOf(kids, okey)
        /\ over' = [over EXCEPT ![c] = SaveVersion(@),
                                ![RootObj] = SaveVersion(@)]
        /\ rdirty' = FALSE
        /\ UNCHANGED reload
     \/ /\ childAccepted /\ ~RootPutAccepted
        /\ sver' = [sver EXCEPT ![okey[c]] = SaveVersion(over[c])]
        /\ over' = [over EXCEPT ![c] = SaveVersion(@)]
        /\ reload' = reload \cup {RootObj}
        /\ rdirty' = TRUE
        /\ UNCHANGED sdir
  /\ UNCHANGED <<known, okey, loaded, nobj, bq>>
  /\ UNCHANGED inoVars

(***************************************************************************)
(* Other mounts.  Each step is one operation of another mount with all    *)
(* its puts, and the broadcasts the server sends this mount for them.      *)
(***************************************************************************)

\* Put a new version of the root listing.
RootPut(listing) ==
  /\ sver[RootKey] < MaxVersion
  /\ sdir' = listing
  /\ sver' = [sver EXCEPT ![RootKey] = @ + 1]
  /\ bq' = bq \cup {Bcast(RootKey, sver[RootKey] + 1)}

RemoteCreate(n) ==
  /\ "create" \in RemoteOps
  /\ sdir[n] = NoKey
  /\ \E k \in FileKeys :
       /\ sver[k] = 0 /\ known[k] = NoObj
       /\ sver[RootKey] < MaxVersion
       /\ sdir' = [sdir EXCEPT ![n] = k]
       /\ sver' = [sver EXCEPT ![k] = 1, ![RootKey] = @ + 1]
       /\ bq' = bq \cup {Bcast(k, 1), Bcast(RootKey, sver[RootKey] + 1)}
  /\ UNCHANGED <<known, okey, over, loaded, reload, children, nobj, rdirty>>
  /\ UNCHANGED inoVars

RemoteUpdate(n) ==
  /\ "update" \in RemoteOps
  /\ sdir[n] # NoKey
  /\ sver[sdir[n]] < MaxVersion
  /\ sver' = [sver EXCEPT ![sdir[n]] = @ + 1]
  /\ bq' = bq \cup {Bcast(sdir[n], sver[sdir[n]] + 1)}
  /\ UNCHANGED <<sdir, known, okey, over, loaded, reload, children, nobj,
                 rdirty>>
  /\ UNCHANGED inoVars

RemoteUnlink(n) ==
  /\ "unlink" \in RemoteOps
  /\ sdir[n] # NoKey
  /\ RootPut([sdir EXCEPT ![n] = NoKey])
  /\ UNCHANGED <<known, okey, over, loaded, reload, children, nobj, rdirty>>
  /\ UNCHANGED inoVars

RemoteRename(m, n) ==
  /\ "rename" \in RemoteOps
  /\ m # n /\ sdir[m] # NoKey
  /\ RootPut([sdir EXCEPT ![n] = sdir[m], ![m] = NoKey])
  /\ UNCHANGED <<known, okey, over, loaded, reload, children, nobj, rdirty>>
  /\ UNCHANGED inoVars

(***************************************************************************)
(* Specification.                                                          *)
(***************************************************************************)

\* The store a mount may start on: empty, or holding the root with one
\* file under the first name.
InitStores ==
  LET n1 == CHOOSE n \in Names : TRUE
      k1 == CHOOSE k \in FileKeys : TRUE
  IN {[sver |-> [k \in Keys |-> 0], sdir |-> [n \in Names |-> NoKey]],
      [sver |-> [k \in Keys |-> IF k \in {RootKey, k1} THEN 1 ELSE 0],
       sdir |-> [n \in Names |-> IF n = n1 THEN k1 ELSE NoKey]]}

\* cmd/mount.go: ExistingNode("root", zero key) registers the root, then
\* LoadMetadata: an unloaded child for every listed name; on NotFound an
\* empty directory at version 0.
Init ==
  /\ \E s \in InitStores : sver = s.sver /\ sdir = s.sdir
  /\ LET Fr == CHOOSE g \in [Listed -> 1..Cardinality(Listed)] : IsInjective(g)
     IN
     /\ children = [n \in Names |-> IF n \in Listed THEN Fr[n] ELSE NoObj]
     /\ okey = [o \in Objs |->
                  IF o = RootObj THEN RootKey
                  ELSE IF \E n \in Listed : Fr[n] = o
                    THEN sdir[CHOOSE n \in Listed : Fr[n] = o]
                    ELSE NoKey]
     /\ known = [k \in Keys |->
                   IF k = RootKey THEN RootObj
                   ELSE IF \E n \in Listed : sdir[n] = k
                     THEN Fr[CHOOSE n \in Listed : sdir[n] = k]
                     ELSE NoObj]
     /\ nobj = Cardinality(Listed)
  /\ over = [o \in Objs |-> IF o = RootObj THEN sver[RootKey] ELSE 0]
  /\ loaded = {RootObj}
  /\ reload = {}
  /\ bq = {}
  /\ rdirty = FALSE
  /\ ino = [o \in Objs |-> IF o = RootObj THEN 1 ELSE 0]
  /\ InitGenerator

Next ==
  \/ \E n \in Names : Lookup(n) \/ Create(n) \/ Unlink(n)
  \/ \E m, n \in Names : Rename(m, n)
  \/ Opendir
  \/ \E o \in Objs : Getattr(o)
  \/ \E m \in bq : InvalidateCache(m)
  \/ \E n \in Names : RemoteCreate(n) \/ RemoteUpdate(n) \/ RemoteUnlink(n)
  \/ \E m, n \in Names : RemoteRename(m, n)
  \/ GenSend

\* mount installs factory.InvalidateCache as the store's change listener and
\* starts the store, whose reader task passes every broadcast to it.
Fairness == WF_vars(\E m \in bq : InvalidateCache(m))

Spec == Init /\ [][Next]_vars /\ Fairness

(***************************************************************************)
(* Properties.                                                             *)
(***************************************************************************)
TypeOK ==
  /\ sver \in [Keys -> 0..MaxVersion]
  /\ sdir \in [Names -> FileKeys \cup {NoKey}]
  /\ known \in [Keys -> Objs \cup {NoObj}]
  /\ okey \in [Objs -> Keys \cup {NoKey}] /\ over \in [Objs -> 0..MaxVersion]
  /\ loaded \subseteq Objs /\ reload \subseteq Objs
  /\ children \in [Names -> Objs \cup {NoObj}]
  /\ nobj \in 0..MaxObjs
  /\ rdirty \in BOOLEAN
  /\ ino \in [Objs -> Nat] /\ ich \in Seq(Nat) /\ gnext \in Nat

\* InvalidateCache's contract (spec.md 5.1): a loaded node that is the
\* registered node of its key, and whose key another mount has since
\* changed, is eventually flagged for reload, reloaded or rekeyed.  This
\* covers the root, whose key never changes, through every remote create,
\* unlink and rename of its listing.
RegisteredEventuallyFresh ==
  \A k \in Keys, o \in Objs :
    (known[k] = o /\ okey[o] = k /\ o \in loaded /\ over[o] < sver[k])
      ~> (o \in reload \/ okey[o] # k \/ over[o] >= sver[k])

\* The root's Children agree with its listing in the store whenever the
\* root has nothing to save (shouldSaveMetadata clear), is not flagged for
\* reload and is at the store's version: every change Create, Unlink and
\* Rename make to Children is either put, rolled back, or left marked for
\* saving or reloading, and reloadIfNeeded takes the store's listing.
ListingMatchesStore ==
  (~rdirty /\ RootObj \notin reload /\ over[RootObj] = sver[RootKey])
    => /\ \A n \in Names : (children[n] = NoObj) <=> (sdir[n] = NoKey)
       /\ \A n \in Names : children[n] # NoObj => okey[children[n]] = sdir[n]

\* Spec.md 5.1 and 8: a child this mount has loaded and that another mount
\* has since changed is eventually flagged for reload (or reloaded, or
\* gone from the directory).
ChildEventuallyFresh ==
  \A n \in Names, o \in Objs :
    (children[n] = o /\ o \in loaded /\ over[o] < sver[okey[o]])
      ~> (o \in reload \/ children[n] # o \/ over[o] >= sver[okey[o]])

==============================================================================
