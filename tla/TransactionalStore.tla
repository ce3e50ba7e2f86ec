-------------------------- MODULE TransactionalStore --------------------------
(***************************************************************************)
(* What a store promises its clients: the traits Store (put, delete and    *)
(* batch of nodes), ManifestStore (named roots) and TransactionalStore     *)
(* (the strict commit).  The operators are translated from MemStore, which *)
(* holds its write locks for the whole of each operation, so each is one   *)
(* atomic step.                                                            *)
(***************************************************************************)
EXTENDS Manifests

VARIABLES
    nodes,  \* the CIDs whose bytes are stored
    roots   \* the manifest stored under each name

storeVars == <<nodes, roots>>

StoreTypeOK ==
    /\ nodes \in SUBSET Cids
    /\ roots \in [Names -> RootValue]

StoreInit ==
    /\ nodes = {}
    /\ roots = [n \in Names |-> Absent]

\* batch_put / publish_nodes: content-addressed writes are idempotent.
BatchPut(cids) == nodes' = nodes \cup cids

\* batch of BatchOp::Delete.
BatchDelete(cids) == nodes' = nodes \ cids

PutRoot(n, manifest) == roots' = [roots EXCEPT ![n] = manifest]

DeleteRoot(n) == roots' = [roots EXCEPT ![n] = Absent]

\* compare_and_swap_root when the comparison succeeds: expected = Absent means
\* the name must be absent, new = Absent deletes it.
CompareAndSwapRoot(n, expected, new) ==
    /\ roots[n] = expected
    /\ roots' = [roots EXCEPT ![n] = new]

\* Mutant: an expected absence is not checked.
ConditionsHoldUnlessAbsent(conditions) ==
    \A n \in Names : conditions[n] \in {Unset, Absent, roots[n]}

\* Every root condition of a commit; Unset marks a name without a condition.
ConditionsHold(conditions) ==
    \A n \in Names : conditions[n] \in {Unset, roots[n]}

\* The root map after the writes; Unset marks a name that is not written.
AppliedRoots(rootWrites) ==
    [n \in Names |-> IF rootWrites[n] = Unset THEN roots[n] ELSE rootWrites[n]]

\* commit_transaction returning Applied: conditions, then nodes, then roots.
CommitTransaction(nodeWrites, conditions, rootWrites) ==
    /\ ConditionsHold(conditions)
    /\ nodes' = nodes \cup nodeWrites
    /\ roots' = AppliedRoots(rootWrites)

\* What readers of a store rely on: a name that resolves resolves to a tree
\* whose every node is readable.
RootsComplete == \A n \in Names : ReachOf(roots[n]) \subseteq nodes
=============================================================================
