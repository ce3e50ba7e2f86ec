----------------------------- MODULE Transactions -----------------------------
(***************************************************************************)
(* Optimistic transactions over a transactional store                      *)
(* (prolly/transaction.rs), the named-root operations that bypass them     *)
(* (publish, delete and compare-and-swap of AsyncProlly in prolly/mod.rs), *)
(* and the garbage collector that sweeps the nodes no named root reaches.  *)
(*                                                                         *)
(* A transaction owns an overlay: the nodes it stages, the manifest it     *)
(* first observed under each name it read (root_reads, the conditions of   *)
(* its commit) and the replacement of each name it wrote (root_writes).    *)
(* The overlay is shared behind a mutex, which get_root releases while it  *)
(* reads the base store, so reads of one transaction may overlap.          *)
(***************************************************************************)
EXTENDS TransactionalStore, Naturals, FiniteSets

CONSTANTS
    Txs,         \* transaction slots, reused
    Writers,     \* clients that use named roots without a transaction
    Collectors,  \* clients that sweep the store
    MaxInflight, \* bound: overlapping base reads of one name in a transaction
    MaxSwaps     \* bound: overlapping compare-and-swaps of a transaction

ASSUME BoundsAssumption == MaxInflight \in Nat /\ MaxSwaps \in Nat

VARIABLES
    phase,      \* phase[t]: open, applied when the last one committed, or idle
    nodeWrites, \* node_writes: the CIDs t staged
    rootReads,  \* root_reads: first observation of each name, or Unset
    rootWrites, \* root_writes: replacement of each name, or Unset
    inflight,   \* inflight[t][n]: base reads of n not yet recorded
    swaps,      \* compare-and-swaps that compared and have not staged yet
    handles,    \* the tree handles the transaction's client holds
    seen,       \* seen[t][n]: every base manifest of n handed to the client
    wpc,        \* control state of a writer
    wname,      \* the name the writer publishes
    wbase,      \* the manifest it loaded
    wtree,      \* the tree it built from it
    wcurrent,   \* the manifest its compare-and-swap expects
    gpc,        \* control state of a collector
    gtrees,     \* the retained trees it loaded
    greclaim    \* the nodes its plan reclaims

txVars == <<phase, nodeWrites, rootReads, rootWrites, inflight, swaps, handles, seen>>
writerVars == <<wpc, wname, wbase, wtree, wcurrent>>
gcVars == <<gpc, gtrees, greclaim>>
vars == <<nodes, roots, txVars, writerVars, gcVars>>

\* A compare-and-swap between its comparison and its write.
Swap == [name : Names, expected : RootValue, new : RootValue]

NoNames(v) == [n \in Names |-> v]

TypeOK ==
    /\ StoreTypeOK
    /\ phase \in [Txs -> {"idle", "open", "applied"}]
    /\ nodeWrites \in [Txs -> SUBSET Cids]
    /\ rootReads \in [Txs -> [Names -> MaybeRootValue]]
    /\ rootWrites \in [Txs -> [Names -> MaybeRootValue]]
    /\ inflight \in [Txs -> [Names -> SUBSET RootValue]]
    /\ swaps \in [Txs -> SUBSET Swap]
    /\ handles \in [Txs -> SUBSET Trees]
    /\ seen \in [Txs -> [Names -> SUBSET RootValue]]
    /\ wpc \in [Writers -> {"idle", "loaded", "built", "cas"}]
    /\ wname \in [Writers -> Names]
    /\ wbase \in [Writers -> RootValue]
    /\ wtree \in [Writers -> Trees]
    /\ wcurrent \in [Writers -> RootValue]
    /\ gpc \in [Collectors -> {"idle", "loaded", "planned"}]
    /\ gtrees \in [Collectors -> SUBSET Trees]
    /\ greclaim \in [Collectors -> SUBSET Cids]

Init ==
    /\ StoreInit
    /\ phase = [t \in Txs |-> "idle"]
    /\ nodeWrites = [t \in Txs |-> {}]
    /\ rootReads = [t \in Txs |-> NoNames(Unset)]
    /\ rootWrites = [t \in Txs |-> NoNames(Unset)]
    /\ inflight = [t \in Txs |-> NoNames({})]
    /\ swaps = [t \in Txs |-> {}]
    /\ handles = [t \in Txs |-> {}]
    /\ seen = [t \in Txs |-> NoNames({})]
    /\ wpc = [w \in Writers |-> "idle"]
    /\ wname \in [Writers -> Names]
    /\ wbase = [w \in Writers |-> Absent]
    /\ wtree = [w \in Writers |-> EmptyTree]
    /\ wcurrent = [w \in Writers |-> Absent]
    /\ gpc = [g \in Collectors |-> "idle"]
    /\ gtrees = [g \in Collectors |-> {}]
    /\ greclaim = [g \in Collectors |-> {}]

-----------------------------------------------------------------------------
(* Transactions *)

\* AsyncProllyTransaction::new: a fresh overlay, and create() hands out the
\* empty tree.
Begin(t) ==
    /\ phase[t] # "open"
    /\ phase' = [phase EXCEPT ![t] = "open"]
    /\ handles' = [handles EXCEPT ![t] = {EmptyTree}]
    /\ UNCHANGED <<nodes, roots, nodeWrites, rootReads, rootWrites, inflight, swaps,
                   seen, writerVars, gcVars>>

\* Mutant: the missing entry of the overlay is taken for the answer of the base.
ReadBaseRootSkipped(t, n) ==
    /\ phase[t] = "open"
    /\ rootWrites[t][n] = Unset
    /\ rootReads[t][n] = Unset
    /\ Cardinality(inflight[t][n]) < MaxInflight
    /\ inflight' = [inflight EXCEPT ![t][n] = @ \cup {rootReads[t][n]}]
    /\ UNCHANGED <<nodes, roots, phase, nodeWrites, rootReads, rootWrites, swaps,
                   handles, seen, writerVars, gcVars>>

\* get_root, first half: neither written nor read yet, so the base store is
\* read with the overlay unlocked.  (When an entry exists get_root returns it
\* and changes nothing.)
ReadBaseRoot(t, n) ==
    /\ phase[t] = "open"
    /\ rootWrites[t][n] = Unset
    /\ rootReads[t][n] = Unset
    /\ Cardinality(inflight[t][n]) < MaxInflight
    /\ inflight' = [inflight EXCEPT ![t][n] = @ \cup {roots[n]}]
    /\ UNCHANGED <<nodes, roots, phase, nodeWrites, rootReads, rootWrites, swaps,
                   handles, seen, writerVars, gcVars>>

\* Mutant: a later observation replaces the first.
OrInsertOverwrites(entry, current) == current

\* root_reads.entry(name).or_insert(current): the first observation stays.
OrInsert(entry, current) == IF entry = Unset THEN current ELSE entry

\* get_root, second half: the overlay is locked again; a write staged in the
\* meantime wins, otherwise the recorded observation is returned.
RecordRootRead(t, n, current) ==
    /\ phase[t] = "open"
    /\ current \in inflight[t][n]
    /\ inflight' = [inflight EXCEPT ![t][n] = @ \ {current}]
    /\ IF rootWrites[t][n] # Unset
       THEN UNCHANGED <<rootReads, seen, handles>>
       ELSE LET observed == OrInsert(rootReads[t][n], current) IN
            /\ rootReads' = [rootReads EXCEPT ![t][n] = observed]
            /\ seen' = [seen EXCEPT ![t][n] = @ \cup {observed}]
            /\ handles' = [handles EXCEPT ![t] =
                   @ \cup (IF observed = Absent THEN {} ELSE {observed.tree})]
    /\ UNCHANGED <<nodes, roots, phase, nodeWrites, rootWrites, swaps, writerVars,
                   gcVars>>

\* Mutant: nodes the store already has are not staged.
MutateSkippingPresent(t, base, tree) ==
    /\ phase[t] = "open"
    /\ base \in handles[t]
    /\ nodeWrites' = [nodeWrites EXCEPT ![t] = @ \cup ((Reach[tree] \ Reach[base]) \ nodes)]
    /\ handles' = [handles EXCEPT ![t] = @ \cup {tree}]
    /\ UNCHANGED <<nodes, roots, phase, rootReads, rootWrites, inflight, swaps, seen,
                   writerVars, gcVars>>

\* put, delete and batch on a tree the client holds: the rewritten nodes are
\* staged, the nodes shared with the base tree are not.
Mutate(t, base, tree) ==
    /\ phase[t] = "open"
    /\ base \in handles[t]
    /\ nodeWrites' = [nodeWrites EXCEPT ![t] = @ \cup (Reach[tree] \ Reach[base])]
    /\ handles' = [handles EXCEPT ![t] = @ \cup {tree}]
    /\ UNCHANGED <<nodes, roots, phase, rootReads, rootWrites, inflight, swaps,
                   seen, writerVars, gcVars>>

\* The overlay has an entry for n, so get_root answers without the base store.
Resolved(t, n) == rootWrites[t][n] # Unset \/ rootReads[t][n] # Unset

\* What get_root returns for a resolved name.
Visible(t, n) == IF rootWrites[t][n] # Unset THEN rootWrites[t][n] ELSE rootReads[t][n]

StageRoot(t, n, v) == rootWrites' = [rootWrites EXCEPT ![t][n] = v]

\* What staging a root leaves alone.
UnstagedVars == <<nodes, roots, phase, nodeWrites, rootReads, inflight, handles, seen,
                  writerVars, gcVars>>

\* publish_named_root_at_millis: it reads the current manifest for its creation
\* time before it stages the put, so the name is resolved by then.
PublishNamedRoot(t, n, tree, stamp) ==
    /\ phase[t] = "open"
    /\ Resolved(t, n)
    /\ tree \in handles[t]
    /\ StageRoot(t, n, [tree |-> tree, stamp |-> stamp])
    /\ UNCHANGED <<swaps, UnstagedVars>>

\* delete_named_root stages the delete without reading the name.
DeleteNamedRoot(t, n) ==
    /\ phase[t] = "open"
    /\ StageRoot(t, n, Absent)
    /\ UNCHANGED <<swaps, UnstagedVars>>

\* compare_and_swap_named_root_at_millis when the visible tree is the expected
\* one; otherwise it reports a conflict and stages nothing.  The overlay is
\* unlocked between the comparison and the write.
CompareNamedRoot(t, n, expected, new) ==
    /\ phase[t] = "open"
    /\ Resolved(t, n)
    /\ TreeOf(Visible(t, n)) = expected
    /\ new # Absent => new.tree \in handles[t]
    /\ Cardinality(swaps[t]) < MaxSwaps
    /\ swaps' = [swaps EXCEPT ![t] =
           @ \cup {[name |-> n, expected |-> Visible(t, n), new |-> new]}]
    /\ UNCHANGED <<rootWrites, UnstagedVars>>

\* put_root or delete_root at the end of the overlay's compare_and_swap_root.
SwapNamedRoot(t, s) ==
    /\ s \in swaps[t]
    /\ swaps' = [swaps EXCEPT ![t] = @ \ {s}]
    /\ StageRoot(t, s.name, s.new)
    /\ UNCHANGED UnstagedVars

\* commit, rollback and drop consume the transaction: no call of it is running.
Quiescent(t) ==
    /\ phase[t] = "open"
    /\ inflight[t] = NoNames({})
    /\ swaps[t] = {}

\* Publication is excluded while a collector runs: the caller's side of the
\* GC contract, not a lock in the code.
NoCollection == \A g \in Collectors : gpc[g] = "idle"

\* The transaction is consumed and its overlay dropped.
Finish(t, outcome) ==
    /\ phase' = [phase EXCEPT ![t] = outcome]
    /\ nodeWrites' = [nodeWrites EXCEPT ![t] = {}]
    /\ rootReads' = [rootReads EXCEPT ![t] = NoNames(Unset)]
    /\ rootWrites' = [rootWrites EXCEPT ![t] = NoNames(Unset)]
    /\ handles' = [handles EXCEPT ![t] = {}]
    /\ seen' = [seen EXCEPT ![t] = NoNames({})]
    /\ UNCHANGED <<inflight, swaps, writerVars, gcVars>>

\* commit when every root still is what the transaction first observed.
Commit(t) ==
    /\ Quiescent(t)
    /\ NoCollection
    /\ CommitTransaction(nodeWrites[t], rootReads[t], rootWrites[t])
    /\ Finish(t, "applied")

\* commit when a root moved: Conflict, and the store is untouched.
CommitConflict(t) ==
    /\ Quiescent(t)
    /\ ~ConditionsHold(rootReads[t])
    /\ Finish(t, "idle")
    /\ UNCHANGED <<nodes, roots>>

\* rollback, or drop: the overlay is discarded.
Rollback(t) ==
    /\ Quiescent(t)
    /\ Finish(t, "idle")
    /\ UNCHANGED <<nodes, roots>>

-----------------------------------------------------------------------------
(* Named roots without a transaction *)

\* The operation returns; its local values are gone.
WriterFinish(w) ==
    /\ wpc' = [wpc EXCEPT ![w] = "idle"]
    /\ wbase' = [wbase EXCEPT ![w] = Absent]
    /\ wtree' = [wtree EXCEPT ![w] = EmptyTree]
    /\ wcurrent' = [wcurrent EXCEPT ![w] = Absent]
    /\ UNCHANGED wname

\* load_named_root.
WriterLoad(w, n) ==
    /\ wpc[w] = "idle"
    /\ NoCollection
    /\ wpc' = [wpc EXCEPT ![w] = "loaded"]
    /\ wname' = [wname EXCEPT ![w] = n]
    /\ wbase' = [wbase EXCEPT ![w] = roots[n]]
    /\ UNCHANGED <<nodes, roots, txVars, wtree, wcurrent, gcVars>>

\* put, delete or batch outside a transaction: the rewritten nodes go straight
\* to the store.
WriterBuild(w, tree) ==
    /\ wpc[w] = "loaded"
    /\ BatchPut(Reach[tree] \ ReachOf(wbase[w]))
    /\ wpc' = [wpc EXCEPT ![w] = "built"]
    /\ wtree' = [wtree EXCEPT ![w] = tree]
    /\ UNCHANGED <<roots, txVars, wname, wbase, wcurrent, gcVars>>

\* publish_named_root: unconditional, under any name.
WriterPublish(w, n, stamp) ==
    /\ wpc[w] = "built"
    /\ PutRoot(n, [tree |-> wtree[w], stamp |-> stamp])
    /\ WriterFinish(w)
    /\ UNCHANGED <<nodes, txVars, gcVars>>

\* Mutant: the tree is not compared with the one the client built upon.
WriterCompareBlind(w) ==
    /\ wpc[w] = "built"
    /\ wpc' = [wpc EXCEPT ![w] = "cas"]
    /\ wcurrent' = [wcurrent EXCEPT ![w] = roots[wname[w]]]
    /\ UNCHANGED <<nodes, roots, txVars, wname, wbase, wtree, gcVars>>

\* compare_and_swap_named_root, first half: get_root and the tree comparison.
WriterCompare(w) ==
    /\ wpc[w] = "built"
    /\ IF TreeOf(roots[wname[w]]) = TreeOf(wbase[w])
       THEN /\ wpc' = [wpc EXCEPT ![w] = "cas"]
            /\ wcurrent' = [wcurrent EXCEPT ![w] = roots[wname[w]]]
            /\ UNCHANGED <<wname, wbase, wtree>>
       ELSE WriterFinish(w)
    /\ UNCHANGED <<nodes, roots, txVars, gcVars>>

\* compare_and_swap_named_root, second half: the swap against the exact
\* manifest that was just read.  The new value is the built tree or a delete.
WriterSwap(w, new) ==
    /\ wpc[w] = "cas"
    /\ new # Absent => new.tree = wtree[w]
    /\ \/ CompareAndSwapRoot(wname[w], wcurrent[w], new)
       \/ roots[wname[w]] # wcurrent[w] /\ UNCHANGED roots
    /\ WriterFinish(w)
    /\ UNCHANGED <<nodes, txVars, gcVars>>

\* delete_named_root.
WriterDelete(w, n) ==
    /\ wpc[w] = "idle"
    /\ DeleteRoot(n)
    /\ UNCHANGED <<nodes, txVars, writerVars, gcVars>>

-----------------------------------------------------------------------------
(* sweep_store_gc_for_retention(All) *)

\* load_retained_named_roots.  No writer is between building a tree and
\* publishing it: that root "can still be published".
GcLoadRoots(g) ==
    /\ gpc[g] = "idle"
    /\ \A w \in Writers : wpc[w] = "idle"
    /\ gpc' = [gpc EXCEPT ![g] = "loaded"]
    /\ gtrees' = [gtrees EXCEPT ![g] = {v.tree : v \in {roots[n] : n \in Names} \ {Absent}}]
    /\ UNCHANGED <<nodes, roots, txVars, writerVars, greclaim>>

\* mark_reachable.
Live(trees) == UNION {Reach[tree] : tree \in trees}

GcFinish(g) ==
    /\ gpc' = [gpc EXCEPT ![g] = "idle"]
    /\ gtrees' = [gtrees EXCEPT ![g] = {}]
    /\ greclaim' = [greclaim EXCEPT ![g] = {}]

\* list_node_cids and plan_gc; mark_reachable fails on a node it cannot load.
GcPlan(g) ==
    /\ gpc[g] = "loaded"
    /\ IF Live(gtrees[g]) \subseteq nodes
       THEN /\ gpc' = [gpc EXCEPT ![g] = "planned"]
            /\ greclaim' = [greclaim EXCEPT ![g] = nodes \ Live(gtrees[g])]
            /\ UNCHANGED gtrees
       ELSE GcFinish(g)
    /\ UNCHANGED <<nodes, roots, txVars, writerVars>>

\* sweep_gc: one batch of deletes.
GcSweep(g) ==
    /\ gpc[g] = "planned"
    /\ BatchDelete(greclaim[g])
    /\ GcFinish(g)
    /\ UNCHANGED <<roots, txVars, writerVars>>

-----------------------------------------------------------------------------
TxNext(t) ==
    \/ Begin(t)
    \/ Commit(t)
    \/ CommitConflict(t)
    \/ Rollback(t)
    \/ \E n \in Names : ReadBaseRoot(t, n)
    \/ \E n \in Names, v \in RootValue : RecordRootRead(t, n, v)
    \/ \E base, tree \in Trees : Mutate(t, base, tree)
    \/ \E n \in Names, tree \in Trees, s \in Stamps : PublishNamedRoot(t, n, tree, s)
    \/ \E n \in Names : DeleteNamedRoot(t, n)
    \/ \E n \in Names, e \in Trees \cup {Absent}, v \in RootValue :
          CompareNamedRoot(t, n, e, v)
    \/ \E s \in swaps[t] : SwapNamedRoot(t, s)

WriterNext(w) ==
    \/ \E n \in Names : WriterLoad(w, n)
    \/ \E tree \in Trees : WriterBuild(w, tree)
    \/ \E n \in Names, s \in Stamps : WriterPublish(w, n, s)
    \/ WriterCompare(w)
    \/ \E v \in RootValue : WriterSwap(w, v)
    \/ \E n \in Names : WriterDelete(w, n)

GcNext(g) == GcLoadRoots(g) \/ GcPlan(g) \/ GcSweep(g)

Next ==
    \/ \E t \in Txs : TxNext(t)
    \/ \E w \in Writers : WriterNext(w)
    \/ \E g \in Collectors : GcNext(g)

Spec == Init /\ [][Next]_vars

-----------------------------------------------------------------------------
(* Properties *)

\* Repeatable reads: however its reads overlap with each other and with other
\* clients' commits, one transaction is never shown two different manifests of
\* one base root (transaction.rs get_root, or_insert).
RepeatableReads ==
    \A t \in Txs, n \in Names : \A u, v \in seen[t][n] : u = v

\* An applied commit is serializable at its commit point: every base manifest
\* the transaction was ever shown is the one stored when its writes appear.
AppliedReadsAreCurrent ==
    [][\A t \in Txs :
          phase[t] = "open" /\ phase'[t] = "applied"
             => \A n \in Names : seen[t][n] \subseteq {roots[n]}]_vars

\* "Atomically update a named root if the current manifest matches `expected`"
\* (manifest.rs): what a compare-and-swap of a transaction replaces is what it
\* compared.
SwapReplacesWhatItCompared ==
    [][\A t \in Txs : \A s \in swaps[t] \ swaps'[t] :
          Visible(t, s.name) = s.expected]_vars

\* Outside a transaction, a compare-and-swap that changes a root replaces the
\* tree its client built upon, whatever moved between its three store calls.
SwapReplacesItsBase ==
    [][\A w \in Writers :
          wpc[w] = "cas" /\ wpc'[w] = "idle" /\ roots' # roots
             => TreeOf(roots[wname[w]]) = TreeOf(wbase[w])]_vars

-----------------------------------------------------------------------------
(* The inductive invariant behind RootsComplete and the read guarantees *)

\* A node a committing transaction may count on: it stages the node itself, or
\* the node belongs to a root whose manifest the commit validates.
Covered(t, c) ==
    \/ c \in nodeWrites[t]
    \/ \E n \in Names : rootReads[t][n] # Unset /\ c \in ReachOf(rootReads[t][n])

\* Every tree a transaction's client holds is covered, node by node.
HandlesCovered ==
    \A t \in Txs : \A h \in handles[t] : \A c \in Reach[h] : Covered(t, c)

\* Every manifest it staged, or is about to stage, is of a tree it holds.
StagedHeld ==
    \A t \in Txs :
       /\ \A n \in Names :
             rootWrites[t][n] \notin {Unset, Absent} => rootWrites[t][n].tree \in handles[t]
       /\ \A s \in swaps[t] : s.new # Absent => s.new.tree \in handles[t]

\* A transaction that is not open holds nothing.
ClosedHoldsNothing == \A t \in Txs : phase[t] # "open" => handles[t] = {}

\* What the client was shown is what the commit validates.
SeenIsRead ==
    \A t \in Txs, n \in Names : \A v \in seen[t][n] : v = rootReads[t][n]

\* Nodes a writer relies on stay: no sweep runs beside it.
WritersSafe ==
    \A w \in Writers :
       /\ wpc[w] # "idle" => NoCollection
       /\ wpc[w] = "loaded" => ReachOf(wbase[w]) \subseteq nodes
       /\ wpc[w] \in {"built", "cas"} => Reach[wtree[w]] \subseteq nodes
       /\ wpc[w] = "cas" => TreeOf(wcurrent[w]) = TreeOf(wbase[w])

\* A collector knows every root that is still there and reclaims none of its nodes.
CollectorsSafe ==
    \A g \in Collectors, n \in Names :
       /\ gpc[g] = "loaded" /\ roots[n] # Absent => roots[n].tree \in gtrees[g]
       /\ gpc[g] = "planned" => greclaim[g] \cap ReachOf(roots[n]) = {}

IInv ==
    /\ TypeOK
    /\ RootsComplete
    /\ HandlesCovered
    /\ StagedHeld
    /\ ClosedHoldsNothing
    /\ SeenIsRead
    /\ WritersSafe
    /\ CollectorsSafe
=============================================================================
