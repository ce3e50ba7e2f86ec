------------------------------ MODULE Manifests ------------------------------
(***************************************************************************)
(* The data every store of the repository keeps: content-addressed nodes   *)
(* and named-root manifests (prolly/manifest.rs).                          *)
(*                                                                         *)
(* A tree handle is an opaque value; what matters about it is the set of   *)
(* node CIDs reachable from its root.  A manifest is a tree handle with a  *)
(* stamp, which stands for the pair (created_at_millis, updated_at_millis):*)
(* manifests are compared field by field, stamp included, while the        *)
(* tree-level operations compare only the tree.                            *)
(***************************************************************************)
CONSTANTS
    Names,      \* durable root names
    Trees,      \* tree handles
    EmptyTree,  \* the handle of Prolly::create: a tree without a root node
    Stamps,     \* timestamp metadata of a manifest
    Cids,       \* content identifiers of nodes
    Reach,      \* Reach[t]: the CIDs reachable from the root of tree t
    Absent,     \* a name without a manifest (Option::None)
    Unset       \* no entry in a map keyed by root name

Manifest == [tree : Trees, stamp : Stamps]
RootValue == Manifest \cup {Absent}
MaybeRootValue == RootValue \cup {Unset}

ASSUME ReachAssumption == Reach \in [Trees -> SUBSET Cids]
ASSUME EmptyTreeAssumption == EmptyTree \in Trees /\ Reach[EmptyTree] = {}
ASSUME SentinelAssumption ==
    /\ Absent \notin Manifest
    /\ Unset \notin RootValue

\* RootManifest::into_tree, lifted to an optional manifest.
TreeOf(v) == IF v = Absent THEN Absent ELSE v.tree

\* The nodes a reader of the named root needs.
ReachOf(v) == IF v = Absent THEN {} ELSE Reach[v.tree]
=============================================================================
