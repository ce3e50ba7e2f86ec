---------------------------- MODULE MCTransactions ----------------------------
(* Instances of Transactions for TLC. *)
EXTENDS Transactions, TLC

CONSTANTS e, t1, t2, c1, c2, c3

\* Two trees that share the node c2, and the empty tree.
MCTrees == {e, t1, t2}
MCCids == {c1, c2, c3}
MCReach == (e :> {}) @@ (t1 :> {c1, c2}) @@ (t2 :> {c2, c3})

\* The empty tree alone: manifests differ by their stamps.
MCEmptyOnly == {e}
MCEmptyReach == (e :> {})

Symmetry == Permutations(Txs) \cup Permutations(Writers)
=============================================================================
