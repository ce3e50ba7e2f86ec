--------------------------- MODULE MCVersionedMaps ---------------------------
(* Instances of VersionedMaps for TLC: t0 is the empty tree, t1 holds the   *)
(* key k1, t12 holds k1 and k2.                                             *)
EXTENDS VersionedMaps, TLC

CONSTANTS t0, t1, t12, put1, put12, del2, h, st, x, y

MCTrees == {t0, t1, t12}
MCNames == {h, st} \cup MCTrees
MCReach == [t \in MCTrees |-> {}]

\* put k1; put k1 and k2; delete k2.
MCMutations == {put1, put12, del2}
MCBatch ==
    (put1 :> ((t0 :> t1) @@ (t1 :> t1) @@ (t12 :> t12)))
    @@ (put12 :> ((t0 :> t12) @@ (t1 :> t12) @@ (t12 :> t12)))
    @@ (del2 :> ((t0 :> t0) @@ (t1 :> t1) @@ (t12 :> t1)))
MCBackup == [head |-> t1, versions |-> {t0, t1}]

\* put k1 and k2; delete k2.
MCFewMutations == {put12, del2}
MCFewBatch == [m \in MCFewMutations |-> MCBatch[m]]

AllButRollback ==
    {"apply", "append", "apply_if", "rebuild_if", "merge", "restore_if", "tx_restore_if",
     "import", "restore_backup", "prune"}
Managed == {"apply", "append", "rollback_to", "prune", "open"}
RollbackAndPrune == {"apply", "rollback_to", "prune"}

Symmetry == Permutations(Clients)
=============================================================================
