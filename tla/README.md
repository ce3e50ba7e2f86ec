# Verification of prolly

This directory specifies, in TLA+, the parts of prolly that several clients or
several code paths have to agree on: strict transactions and the named-root
operations beside them, garbage collection, the file store, versioned maps,
indexed collections, the canonical tree with its writers, diffs and merges, and
the publication and collection protocols of the S3 extension. TLC checks small
instances; TLAPS proves the main results for all values of the constants.

## 1. The system

Prolly trees are immutable. A tree handle is a root CID and a configuration;
its nodes are content-addressed and shared between trees. The only mutable
state is the set of *named roots*: each name holds a manifest (a tree handle
with timestamps). Everything that can go wrong between clients goes wrong there.

| Part (under `src/src/prolly/`) | State | Operations that change it | What is hard |
| --- | --- | --- | --- |
| `manifest.rs`, `store/memory.rs` | nodes, named roots | node batches, root put, delete, compare-and-swap, commit | the contract everything else rests on |
| `transaction.rs` | overlay: staged nodes, root reads, root writes | begin, read, tree updates, publish, delete, swap, commit, rollback, drop | reads release the overlay's mutex; commits validate reads |
| `mod.rs` (named roots) | locals of one call | load, build, publish, swap, delete | three store calls that other clients interleave with |
| `mod.rs`, `gc.rs` (collection) | retained trees, plan | load roots, plan, sweep | nodes shared with trees that are being published |
| `store/file.rs` | node and root files, mutex, lock file | root operations, commit | multi-file commits, I/O errors, killed processes |
| `versioned_map.rs` | a head root and a catalog root per version | updates, conditional updates, append, rebuild, merge, restore, rollback, import, restore of a backup, prune | reads outside the transaction, bounded retries |
| `secondary_index/` | a collection-state root: head, snapshots, descriptors, pins | takeover of a map, builds, incremental maintenance, replacement, pins, retention, restore | stale candidates, counts kept by deltas, pruning what is still named |
| `boundary.rs`, `builder.rs`, `builder/streaming.rs` | the open chunks of a level | building a tree | two builders, one result |
| `write.rs`, `range_delete.rs` | a tree and the batches applied to it | eight paths of one write, range delete | the canonical result on every path |
| `diff.rs` | cursors | diff, scan, merge, range merge | partly overlapping spans, resumption, shortcuts that must equal the definition |
| `extensions/s3/core` (publication) | a lease and a ref per branch, permits, sessions | acquire, renew, take over, put, session, reset, create, delete | late, lost and repeated conditional writes, dying processes |
| `extensions/s3/core` (collection) | coordinator, tickets, cursor, objects | the phases of an epoch beside writers | publications that are under way while marking |
| `crdt.rs`, `patch.rs`, `blob.rs`, `sync.rs`, `content_graph/` | blobs, remote stores | merge of values, copy, collection | not modelled, see section 5 |
| `proximity/`, `proof.rs`, `stats.rs`, `debug.rs` | none, or caches | numeric search, hashing, reports | out of scope |
| `extensions/dynamodb`, `stores/`, `bindings/`, `integrations/` | external systems | adapters | semantics of the external system |

`PROJECT.json` lists every component with its status, the hazards at their
lines, and for every definition the source lines it stands for.

## 2. Modules

* `Manifests` — manifests, trees and the nodes they reach. A timestamp pair is
  one *stamp*: manifests are compared stamp included, tree-level operations
  compare the tree only. A stamp is chosen arbitrarily, so equal and different
  clocks are both covered.
* `TransactionalStore` — the store traits as atomic operators, from `MemStore`,
  which holds its write locks throughout each operation.
* `Transactions` — transactions, writers without a transaction, and collectors
  over one store. `ReadBaseRoot` and `RecordRootRead` are the two halves of the
  overlay's `get_root` around the unlocked read; `CompareNamedRoot` and
  `SwapNamedRoot` the two halves of its compare-and-swap. `Mutate` stages the
  nodes of the new tree that the base tree does not have. `seen` is a history
  of what `get_root` returned and is used by properties only. A writer's load,
  build, compare and swap are separate store calls, as are a collector's load,
  plan and sweep.
* `StrictStore` — the contract of `TransactionalStore::supports_transactions`:
  commits are atomic, failures leave at most unreachable nodes, listings are
  snapshots.
* `FileStore` — `FileNodeStore`, one file operation per step. `put_root`,
  `delete_root` and `compare_and_swap_root` are requests with at most one
  condition and one write; `get_root` is a one-name listing. `Return` releases
  both locks, as the guards of the code do on every path. The order of a
  commit's root writes, that of `root_writes` in the code, is arbitrary here.
  `Crash` kills the process of one handle.
* `VersionedMaps` — one managed map. A tree stands for its version and for its
  catalog name, since a version id is the hash of the tree. `ReadOutside`,
  `Guard`, `ReadHead`, `ReadVersion`, `ListVersions`, `ReadName` and `Commit`
  are the store calls of the operations in `Calls`, in their order. A retention
  policy is an arbitrary set of versions to keep. `OpenIndexed` and `Takeover`
  are the two steps by which an index coordinator takes the map over. Nodes are
  left to `Transactions`.
* `IndexedCollections` — one indexed collection as its coordinator and the async
  coordinator run it. `root` is the collection-state root; a snapshot holds its
  source map, its parent, and an index tree with its entry count per index name.
  `Load` reads the state and computes the `Candidate` of the request (one
  operator per operation: `Ensured`, `AppliedTo`, `Replaced`, `Deactivated`,
  `Repaired`, `KeptLast`, `Restored`, `Removed`, `Rebuilt`), or returns;
  `Publish` is the commit that compares the root with what was loaded;
  `Conflict` retries or gives up. `Maintained` is the incremental maintenance,
  `Build` what a full build gives; `Limited` is `enforce_policy_limits`, `Closed`
  is `validate_closure`. An extractor is a function `Emits` from key and value
  to terms and projections.
* `LevelEmitter` — nodes, boundary rules (`Closes`) and the emitter of one level
  (`Push`, `Level`). A node stands for its identifier. The hash verdicts are
  parameters, so any placement of boundaries can be instantiated; sizes are an
  abstract number.
* `ProllyTree` — the level-by-level builder (`Build`), the streaming one
  (`SortedBuild`), and point lookups.
* `LeafReplay` — the leaf level after a batch, as `apply_impl` computes it on its
  general path and by islands. `Feed` merges the due mutations into one old leaf,
  `Replayed` streams leaves until one comes out unchanged (`Aligned`), `Round` is
  one turn of the loop over the pending mutations, `Rewritten` the whole loop.
  `Islands` plans the regions that are replayed on their own, `Islanded` replays
  them and merges the results, or gives None. It declares no recursive operator,
  so that it can be reasoned about.
* `TreeWrites` — `Applied` is `apply_impl` with its paths in the order the code
  tries them: build from nothing, append, value updates in place, single delete
  in place, localized deep delete, localized deletes under a root of level two,
  replay by islands and sequential replay. `RangeDeleted` is the range delete.
  The state is a tree, the map it should hold, and whether the last write was
  refused.
* `TreeMerge` — the diff iterator (`Paired`, `Processed`, `Filled`, `Page`) and
  its cursor, the borrowed scan (`Scanned`), and the merge: by the batches a
  handle remembers, by shape, by difference, or by grafting the tail of one tree
  (`SuffixAppended`). They are evaluated in every state `TreeWrites` reaches.
* `BranchPublication` — one branch of an S3 repository. `store` holds the two
  control objects, `requests` the conditional writes under way. `Answered`
  executes a request and delivers the answer, `Lost` tells its caller of an
  error while the request is still on its way, `Unnoticed` executes it late or a
  first of two times. The steps of a call are `Permit`, `Validate`, `Reconcile`,
  `Load`, `Publish` (`Recheck`, `Create` for a creation); a takeover is
  `BeginTakeover`, `Barrier`, `Activate`. The ref's value carries its journal.
  `commits` is what the object store holds: the commits of this branch and those
  that other branches or an import put there (`Elsewhere`); a reset may go to any
  of them, a creation too. Reconciliation is the lookup of the operation index
  (`LookupFails`, `Finds`, `Misses`): it refuses a clock behind the current event,
  and finds an operation only while `IdempotencyRetention` retains its event, by
  distance in generations and by age (`Retained`). If the journal has several
  events of one operation, whichever the segments yield first decides.
* `BranchLog` — what a branch promises: one journal that only grows, appended to
  under the present authority, which only a takeover changes; an operation of a
  caller is a commit on top of the present head, a reset moves the head to any
  stored commit, and no event names a commit that was not stored before it; a
  receipt names an operation of the journal. `BranchContract` says that
  `BranchPublication` implements it.
* `RepositoryGc` — the collector of that repository beside puts and resets:
  tickets and the coordinator on the writers' side, the phases `Drain`,
  `Discover`, `Mark`, `Scan`, `Sweep`, `Cleanup` on the worker's, with the
  durable cursor (`checkpoint`), crashes and `Resume`. Every page is refused
  (`Refused`) once the process has forgotten the epoch. An operator may call
  `abandon_gc` at any moment (`AbandonGc`), after which pages go on until the
  process forgets the epoch; `AbandonIncomplete` gives up an epoch without a
  cursor. A reset names any stored commit (`BeginReset`), reads the ref, reads the
  commit again (`Check`), and meets the collector only at its ticket, as
  `reset_branch` never asks whether admission is open.
* `TransactionsProofs`, `FileStoreProofs`, `VersionedMapsProofs`,
  `IndexedCollectionsProofs`, `RepositoryGcProofs`, `LeafReplayProofs` (which also
  covers `LevelEmitter`), and for `BranchPublication` `BranchJournalProofs`, on
  which `BranchSessionProofs` builds — the inductive invariants, the facts about
  each action, and the theorems.
* `MCTransactions`, `MCFileStore`, `MCVersionedMaps`, `MCIndexedCollections`,
  `MCBranchPublication`, `MCRepositoryGc`, `MCTreeWrites` — the instances.

An operator under a comment that begins with "Mutant" is a deliberately wrong
variant of the definition after it; no specification uses it. Each property is
known to fail when that variant replaces the original.

## 3. What TLC checks

| Run | Instance | Properties |
| --- | --- | --- |
| `tx` | a transaction with 2 overlapping reads, a writer, a collector, 3 trees sharing nodes | `TypeOK`, `RepeatableReads`, `AppliedReadsAreCurrent`, `RootsComplete`, `SwapReplacesItsBase` |
| `file_strict` | 3 threads, 2 handles, 2 roots, 2 I/O errors | `TypeOK`, `StrictContract` |
| `file_faults` | 2 processes, an I/O error, a failed restore, a crash | `RootFilesComplete`, `LockReleased` |
| `map_catalog` | 2 clients, all operations but `rollback_to` | `TypeOK`, `HeadCataloged`, `UpdatesSerialize`, `ExpectedReplaced` |
| `map_managed` | 2 fair clients and a coordinator | `ManagedMapIsFrozen`, `CallsReturn` |
| `index_collection` | 2 clients, 2 keys, 2 values, 2 definitions of one index, 1 pin, 5 calls, 2 snapshots retained | `TypeOK`, `IndexesMatchSource`, `CountsExact`, `CandidatesClosed`, `ActiveIsSelected`, `PinsHeld`, `UpdatesChain` |
| `s3_branch` | 2 writers, a put, a session, an imported commit, 5 calls, 1 fault, leases of 2 ticks, a retention window of 1 generation and 0 ticks | `TypeOK`, `ActiveLeaseOwnsRef`, `AckedIsPublished`, `SessionOnce`, `BranchContract` |
| `s3_gc` | a put, a reset to any stored commit, a worker, 1 epoch, 1 fault or abandonment, 3 ticks | `TypeOK`, `ClosureComplete`, `MarkingWaitsForTickets`, `AdmissionReopens` |
| `tree` | keys 1..7, 6 formats, 23 batches, 4 ranges, 5 branches, 3 resolvers | `TypeOK`, `ContentExact`, `Routed`, `BuildersAgree`, `CanonicalBelowRoot`, `DiffsExact`, `MergeExact`, `MergeCanonical` |

Bounds. Two clients suffice for each race described by the hazards: every one
is between one operation and one interfering commit, and a third client only
repeats the second. In `tx` the writer is the second client; the theorems cover
any number of transactions. Three trees (empty, and two that share a node, or
that are reached from each other by batches) give shared nodes, no-op updates
and a return to an earlier tree. Two requests that touch both roots, with the
conditions that let each follow the other, give half-written commits.
`MaxInflight`, `MaxSwaps`, `MaxFaults`, `MaxRestoreFaults`, `MaxCrashes`,
`MaxCalls`, `MaxClock` and `MaxEpochs` cap counters that the code does not
bound; `MaxRetries` is `DEFAULT_VERSIONED_MAP_RETRIES`, 8 in the code and 2 in
the runs, so that both a retry and giving up happen; `MaxAttempts` is the same
for collections. Five calls of an indexed collection are enough to build an
index, write twice, pin and prune while another client's candidate is stale;
five calls of a branch are enough for an initialisation, a session, a takeover,
and a repetition by the first writer. There the last of the five calls has to
publish a session (`LastIsSession`, a constraint on the calls of a behaviour that
leaves every shorter one in), so that resets, takeovers and lapsed events are
followed by what could go wrong. The retention window is as narrow as it can be,
so that events leave it within the run. In `s3_gc` the grace period is two ticks
and a ticket lives for one, the smallest values for which a ticket expires within
it; calls of `abandon_gc` by hand are counted with the faults (`MaxFaults`). A
writer that dies is one that takes no further step. With a second epoch a reset
to a deleted commit would also stop marking, so `AdmissionReopens` is a statement
about the first. In `tree` seven keys reach height three
under the densest of the formats; all trees over these keys that the batches
produce are explored, whatever their number. Symmetry is used for
interchangeable clients in the runs that check safety only.

Fairness. `FileStore` assumes that a thread inside the critical section keeps
running unless its process dies; waiting for a lock is not assumed to end.
`VersionedMaps` assumes that a call that has begun keeps taking its own steps.
Both are the scheduler's guarantee to a running thread; nothing is assumed
about who wins a race. `RepositoryGc` assumes that time passes and that every
maintenance process keeps being run: `AdmissionReopens` is a statement about an
operator who resumes or gives up what a dead worker left, as
`extensions/s3/OPERATIONS.md` asks. Nothing is assumed of the writers there.

### Disagreements with the documentation

Three runs are expected to fail; `PROJECT.json` quotes the sentence each refutes.

* `tree_history` — a localized range delete (or delete of several keys) under a
  root of level two makes its last child the root even if that child has one
  child itself, so the root differs from a bulk build. `CanonicalBelowRoot` shows
  that nothing else differs: below such single-child roots the tree is the
  canonical one.
* `merge_revives` — the merge grafts the tail of the right tree when the right
  branch only added keys, and brings back keys the left branch deleted there.
  `MergeExact` is the same property with exactly this case excluded.
* `merge_range` — the same graft ignores the end of the range.

Further instances are kept beside the runs. Each fails, with
`tlc -config <file>.cfg <module>`, and shows the stated behaviour:

| Instance | Module | Fails | Behaviour |
| --- | --- | --- | --- |
| `MCTransactionsSwaps` | `MCTransactions` | `SwapReplacesWhatItCompared` | two overlapping swaps of one transaction with the same expected value both succeed: the overlay unlocks between comparing and writing |
| `MCFileStoreCrash` | `MCFileStore` | `StrictContract` | a process killed between two root files leaves a partial commit visible, while `supports_transactions` is true |
| `MCVersionedMapsRollback` | `MCVersionedMaps` | `HeadCataloged` | `rollback_to` reads its target outside the transaction, so a concurrent prune leaves the head outside the catalog; it is the only operation that can |
| `MCVersionedMapsCorrupt` | `MCVersionedMaps` | `CorruptionIsReal` | `prune_with` compares the transaction's head with a listing made outside it and reports a sound catalog as inconsistent |
| `MCVersionedMapsTakeover` | `MCVersionedMaps` | `TakeoverRejectsUsedMap` | a map written between the coordinator's check and its commit is taken over |
| `MCIndexedCollectionsPins` | `MCIndexedCollections` | `PinnedReadable` | the synchronous `snapshot_at` follows parents from the head and misses a pinned snapshot whose descendants were pruned, which the async one finds |
| `MCBranchPublicationRecreate` | `MCBranchPublication` | `ActiveLeaseOwnsRef` | a creation over a tombstone validates its lease before it reads the ref, so a replaced writer can create the branch again after a takeover |
| `MCBranchPublicationWindow` | `MCBranchPublication` | `SessionUnique` | a session is published, the branch is reset to the session's base, the operation leaves the retention window: the session is published a second time |
| `MCRepositoryGcReset` | `MCRepositoryGc` | `ClosureAlways` | a reset reads a commit that no ref reaches any more, an epoch marks, sweeps and reopens admission, then the reset takes its ticket: the branch ends on a deleted commit although the reset took less than the grace period |
| `MCTreeWritesCap` | `MCTreeWrites` | `CanonicalBelowRoot` | after a split forced by the byte cap, an update or delete in place makes entries smaller without looking whether they now fit the leaf before |
| `MCTreeWritesChunk` | `MCTreeWrites` | `NeverRefused` | under a rule on chunks with counts and keys, the in-place value update refuses with an error instead of falling back |
| `MCTreeMergeCap` | `MCTreeWrites` | `MergeExact` | when the byte cap closes an internal node during the graft, the child that opened the next one is dropped |

## 4. What is proved

TLAPS checks the theorems below for every value of the constants that
satisfies the named assumptions of the modules (`ReachAssumption`: every tree
has a set of nodes; `EmptyTreeAssumption`; `SentinelAssumption`: the sentinels
are not manifests; `NamesAssumption`, `ClientsAssumption` and the typing of
batches, backups, requests and bounds). TLC evaluates the same assumptions in
every run. For collections they are `DefinitionsAssumption` (definitions have a
name, a generation and an extractor) and the typing of registries, batches and
limits. For the S3 modules they are `OpsAssumption`, `HandlesAssumption`,
`KindsAssumption`, `OpsGcAssumption` (operations, payloads and commits are
different things), `NoncesAssumption` (an identifier the code draws is not the
operation id of a caller), `NoneAssumption` and `NoneGcAssumption` (`None` is no
record), and the typing of the bounds.

**`TransactionsProofs`.** `TypeCorrect`, `RootsAlwaysComplete`, `ReadsRepeat`,
`AppliedCommitsAreCurrent`, `SwapsReplaceTheirBase`. `RootsComplete` is not
inductive: a commit may publish a tree whose nodes it did not stage. The
invariant `IInv` adds why that is safe. Every node of a tree that a client
holds is staged, or reachable from a root the commit validates
(`HandlesCovered`); only held trees are staged as roots (`StagedHeld`); what
was shown to the client is what is validated (`SeenIsRead`); a writer's nodes
are stored while it works (`WritersSafe`), and a collector reclaims nothing
that a root reaches (`CollectorsSafe`).

**`FileStoreProofs`.** `FileTypeCorrect` and `RootFilesAlwaysComplete` hold
under any number of I/O errors, failed restores and killed processes;
`CoveredRequestsAssumption` is what `HandlesCovered` says of a commit's
request. `FileStoreIsStrict` shows that the file store implements `StrictStore`.
The refinement mapping shows a commit's snapshot as the roots while the commit
is half written, which no other client can observe because of the lock file
(`HolderInside`). The invariant adds that the conditions of a commit hold in
its snapshot (`Validated`), that its nodes precede its roots (`NodesFirst`),
that the files are the snapshot overlaid with the writes made so far
(`HalfWritten`), and that a listing's entries are still current
(`ListingCurrent`). The theorem assumes `MaxCrashes = 0` and
`MaxRestoreFaults = 0`: a killed process leaves a partial commit (`MCFileStoreCrash`),
and so does an error while a root is restored, which the code ignores.

**`VersionedMapsProofs`.** `MapTypeCorrect`; `HeadAlwaysCataloged`, for every
set of operations without `rollback_to` (with it the claim is false, see
`MCVersionedMapsRollback`); `UpdatesAlwaysSerialize`, `ExpectedAlwaysReplaced` and
`ManagedMapStaysFrozen`, with `rollback_to` included. The invariant speaks of
one client at a time and not of the store, so another client's step cannot
disturb it (`ClientInvLocal`): the transaction has read the collection state as
absent and then the head (`ReadSet`); the target is the batch applied to the
head it read (`BuildsOnHead`); a published head is cataloged by the same commit
or by an entry it validates (`PublishesCataloged`); a pruned version is not the
head that was read (`PruneSparesHead`). The validation of the commit turns each
of these into a statement about the store (`CommitRoots`).

**`IndexedCollectionsProofs`.** `Typed`, `Synchronized`, `Counted`, `Selected`,
`ClosedCandidates`, `Pins`, `Chained`. The inductive invariant has two parts.
`GoodState(root)`: the collection state is typed and closed, every index of
every retained snapshot is the build of its definition over that snapshot's
source, with the exact count, and the active indexes are those of the head.
`ClientOK`: the request of a client is well formed, and at its publication the
candidate was computed from a good state that admitted the request. The weight
lies in the lemmas that each operation turns a good state into a good one:
deleting the old terms of the touched keys and inserting the new ones gives the
build over the new source; the deltas give its cardinality; retention keeps the
head, the pins and every descriptor still referred to. `Publish` compares the
root with the loaded state, so a candidate of a good state is published on that
very state, which gives the two action properties.

**`BranchJournalProofs`.** `BranchTypes`, `ReceiptsArePublished`, `BranchIsALog`,
`ActiveLeaseOwnsTheRef`. A receipt may be given from an answer, from the operation index or from a settled
unknown result, and a request may be executed long after its caller was told of
an error, so `AckedIsPublished` needs the whole control flow behind it. The
invariant `Journal` has four parts: types (`Types`, `StoreOK`: the journal has as
many events as the ref has had versions); for each call what it may rely on
(`CallOK`): the ref it has read is the stored one unless the token has moved since
(`SeenRef`), and the request it waits for carries its own operation; for each
request on its way (`RequestOK`): it expects no later version than the stored one,
and if it expects that very version it extends that very journal by one event;
and that an operation with a receipt is in the journal. A conditional write that
succeeds therefore only appends, and nothing a receipt was given for is ever
lost.

`BranchIsALog` is the refinement of `BranchLog`, for every set of operations,
deletion and creation included, and for resets to any commit that is stored,
whoever committed it. It needs one more invariant (`Successors`): a
request that can still succeed would append an event that `BranchLog` allows on
the present ref, and every event of a request or of the ref names a stored
commit. The event was made from a ref that was read earlier, so the step
that sends it has shown it to be a successor of that ref, and a token that has
not moved makes it the present one. The barrier of a takeover is where a check is
needed: it is written only if the ref is under the generation before the lease's.

`ActiveLeaseOwnsTheRef` holds for every set of operations without `delete_branch`
(with it the claim is false, see `MCBranchPublicationRecreate`). The invariant `Fenced` adds to `Journal` that
generations never run backwards: the stamp of the ref and of every request for it
was a stamp of the lease, and equals its present stamp if the generations are
equal (`Known`); a lease that a call or permit has seen is the present one unless
its token has moved (`SeenLease`); a request for the ref which can still succeed
is stamped by the ref's own authority or by the next generation
(`FencedRequest`); and a lease is activated only after the ref carries its stamp
(`LeaseFollows`). A request of a replaced writer expects a version that the
barrier has used up.

**`BranchSessionProofs`.** `SessionsPublishOnce`, provided that no two handles share a writer
identity: a session is published again only if one of its publications has left
the retention window of the ref it is published on. Resets may move the branch
back to the session's base, or to the session's own commit, at any moment. The
invariant has two parts. `Begun`: a session has one base, that of the manifest
written when it began, and whoever resumes or publishes it works on that base.
`Once`: a request which can still succeed carries a session that the journal does
not hold within the window (`OnceRequest`), since the reconciliation looked at
the ref it expects or at one before it; and if a session is published while
another call publishes it, its commit is the head or the branch has gone to
another writer (`OnceCall`). While such a call is under way, no request of its
writer that can still succeed is on its way (`NoneOf`): this is where distinct
identities are needed, since such a request, a reset for instance, would move the
head away from the commit by which the retry recognises its own success.

**`RepositoryGcProofs`.** `GcTypes`, `MarkingWaits`, `CollectorKeepsClosure`.
`MarkingWaitsForTickets` follows from `EpochInv` (a worker that is about to close
admission is alone with its epoch; no cursor is of an epoch that was not started,
and a saved one is kept under its own) and `TicketInv`: an operation that looks at admission or has sent
its write holds a ticket that has not been released, or one that has expired; and
where a cursor of the open epoch, held or saved, is drained, every write still
under way has expired. The ticket is taken before admission is looked at, and
admission is closed before the tickets are drained: either order reversed breaks
the induction. `ClosureComplete` needs `GcInv`, which says of every put what is
stored (`PutInv`: its payload and commit from their upload on, while its grace
period lasts), and of every cursor what it has marked or may delete
(`CursorInv`): while marking, each reachable commit is recent
or an ancestor of a marked one; a candidate was there at the cutoff and belongs
to no reachable commit. `Based` ties the branch's history to the operations: a
publication builds on a commit that the ref reached, and if the ref's token has
not moved, on the ref itself. The proof takes the reachable commits as a least
closed set (`Ancestors`), so that no induction over chains of commits is needed.
It uses the grace period and that marking starts from both targets of the ref; it
does not use the tickets, which narrow the window that the grace period covers.
The reachable commits are those behind both sides of the last move of the ref,
because a reset that goes back to the other side must find it stored.

The theorem has two premises. Different puts have different payloads (section 5).
And `ClosureComplete` is said while every reset, at the ref it read, names a commit
behind one of its two sides (`ResetsKept`): `Based` holds in any case, the rest of
`GcInv` under that premise. Without it the claim is false (`MCRepositoryGcReset`);
no document of the extension promises it.

**`LeafReplayProofs`.** These theorems are about operators and have no behaviours:
they hold for every format, every boundary rule and size function, all entries
and all batches, of any number.

`LevelChunks` and `ChunksUnique` say what the nodes of a level are. A node ends
where the detector says so, before an entry that would overflow the byte cap, or
at the last entry, all three counted from the start of the node; the entries can
be cut in this way only once. So the nodes depend on the entries alone, whatever
produced them.

`LevelResumes`, `LevelSuffix` and `LevelSplices` say when a part of a level may be
rewritten alone. The nodes before it stay if the first entry of the rewritten
part is the old one, and the nodes after it if the new emitter has nothing open
there, which is what `is_aligned_with` asks for. The first condition is needed
because of the byte cap: an entry that did not fit the node before may have
become smaller. It is why `Start` goes one leaf back, and it is what the in-place
paths of `MCTreeWritesCap` do not look at.

`RewrittenCanonical`: the general path of `apply_impl`, from the leaf level of a
build and any batch, gives the leaf level of a build of the content after the
batch. The invariant of its loop (`RoundInv`, `Ready`) is that with the cursor at
leaf c, the mutations still pending are those that fall on c or later, and the
leaves put out are the nodes of everything written before c, whatever follows.
When a round skips leaves, no mutation falls on the first leaf it replays, so this
leaf begins with its old entry and the leaves skipped may stay. Inside a round
`ReplayInv` says that the emitter has seen the written entries from the first leaf
on, and has nothing open if it stopped early. Each round takes up a leaf, so as
many rounds as leaves are enough.

`IslandsCanonical`: the same for the parallel path, whenever it does not fall
back. The plan comes first (`CandidatesInv`, `PlansInv`): candidates hold the
mutations in the order of their leaves, and islands made of them lie apart, hold
each mutation in exactly one of them, and have no mutation on their first leaf
unless it is the first of the level. So the mutations due in the leaves of an
island are its own, and a replay with these alone is a replay with all (`Covers`).
An island that lines up has nothing open and nothing pending (`IslandDone`); the
merge then moves like a round of the sequential writer, with the same `Ready` as
invariant (`MergeInv`). Nothing is asked of the width of the guard: it decides how
often the path succeeds, not what it gives.

The induction over the rounds, and the fact that the recursive functions of
`LevelEmitter` and `LeafReplay` exist at all, are obtained from the
well-foundedness of the naturals applied to the set of numbers that have the
property (`Least`, `Induction`).

The leaves of these proofs are tried with Zenon (`USE Zenon` at the head of each
module); those that need arithmetic, or functions and records as values, cite
`SMT`.

Checked by TLC only:

* liveness (`LockReleased`, `CallsReturn`, `AdmissionReopens`), which needs
  fairness and `ENABLED`;
* the invariants of `TreeWrites` and `TreeMerge` (`TypeOK`, `ContentExact`, `Routed`,
  `BuildersAgree`, `CanonicalBelowRoot`, `DiffsExact`, `MergeExact`,
  `MergeCanonical`). They speak of whole trees, which recursive operators build and
  read; the prover does not take modules that declare such operators.
  `RewrittenCanonical` and `IslandsCanonical` are the leaf level of the sequential
  and of the parallel path of `CanonicalBelowRoot`: the levels above it are rebuilt
  from equal leaves. The in-place paths are left to TLC.
  `CanonicalBelowRoot` itself is not true for every format (`MCTreeWritesCap`);
* the runs that fail.

## 5. Assumptions and omissions

* Collection: a writer outside a transaction does not run beside a sweep, and a
  commit does not fall inside one. This is the caller's side of the contract
  (the design document of the async engine: "the caller must exclude concurrent
  publication during sweep"); no lock in the code enforces it. Transactions may
  be open, with reads and staged nodes, across a whole sweep.
* A transaction publishes only trees it obtained from itself (created, loaded
  or built in it).
* Deletes of nodes inside a transaction are not modelled; the tree operations
  stage none.
* The file store is modelled at the level of the operating system's file view:
  loss of power, where a renamed file may not be durable because the directory
  is not synchronised, is not modelled. A handle stands for a process when it
  crashes.
* Content-identifier collisions, invalid bundles and mismatched configurations
  are rejected by the code before any state changes and are left out.
* `prune_with` and `versions` read the listing in one step; the store lists its
  roots atomically (`MemStore`, and `FileStore` by `StrictContract`).

* Indexed collections: a build reads its source in one step with the state (the
  source is immutable); work budgets only refuse. Extractors are deterministic,
  which the code requires of them.
* Trees: every entry fits a node, so `EntryTooLarge` does not arise; keys are
  short enough that separators do not fill a node alone. The batched route of
  `batch.rs` for value updates, custom node layouts, the visited-node budget of
  the structural merge and the iterator's shortcut over remembered appends are
  left out. Whether the island replay is tried is a free choice. The instances
  use thresholds on keys, on pairs and on chunks. `MergeCanonical` is restricted
  to boundaries that values do not move by its own premise. `CanonicalBelowRoot`
  has no premise: it is a property of the six formats of `tree`, and fails where
  the byte cap splits chunks cut by keys alone (`MCTreeWritesCap`).
* S3 publication: the store executes conditional writes atomically and reads see
  the last one. Handles of different processes have different writer identities;
  clocks are one clock. `put_object` takes its permit and reconciles twice, here
  once. Sessions do not expire. The operation index of the branch has been
  initialised, and its cached and its segmented part agree with the journal.
  A put that is repeated by its caller after a lost
  answer while the first request is still under way may be published twice, as
  `client/README.md` leaves it to the caller to repeat the exact call; only
  sessions are claimed to be published once, and those within the retention
  window of the operation index alone (`MCBranchPublicationWindow` shows the second
  publication beyond it), which is what
  ADR 0003 bounds idempotency by. `s3_branch` leaves out deletion and
  creation of branches (see `MCBranchPublicationRecreate`).
* S3 collection: no operation is under way for as long as the grace period, the
  operator's obligation; different puts upload different payloads (with equal ones, a
  put may bind a payload that the collector is about to delete). What a reset to a
  commit outside the ref's history may lose is shown by `MCRepositoryGcReset`; the
  same goes for the reset that ends a history transfer, whose commits no ref
  reaches before, and for `recover_branch`. A reset whose `expected_head` is not
  the head changes nothing and is left out. Candidates come from the inventory of
  the bucket; the discovery from completion journals (`gc_scan_inventory`) is not
  modelled. The catch-up
  with dirty roots passes through, since nothing in the code advances its
  sequence. Pages of one phase are one step, but for the sweep. The bucket keeps
  versions: a candidate that is gone already is passed over, where an unversioned
  bucket would stop the sweep with an error if the path was written again.

### Not modelled

Transactions over several maps, change subscriptions, backup export and catalog
verification (read-only over the roots modelled here); range scans and index
queries; replicated values, patches and proofs of inclusion (pure functions of
values); blob stores, bundles and content graphs (the node collector's plan and
sweep over other stores); proximity maps (floating-point search); the DynamoDB
extension and the provider stores (they rest on the transactions of an external
database); bindings, integrations, tools. `PROJECT.json` gives the reason for
each component.
