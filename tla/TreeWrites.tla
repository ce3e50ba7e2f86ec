------------------------------ MODULE TreeWrites ------------------------------
(***************************************************************************)
(* Writes to a tree: src/prolly/write.rs (apply_impl and its fast paths)   *)
(* and src/prolly/range_delete.rs.                                         *)
(*                                                                         *)
(* A write takes the old tree and a batch of mutations and returns a new   *)
(* tree.  It tries a number of paths that touch only a part of the tree    *)
(* before it falls back to replaying leaves from the first affected one    *)
(* until the emitted leaves line up with the old ones again.  The writers  *)
(* claim that whatever the path, the result is the tree a bulk build of    *)
(* the same content gives.                                                 *)
(*                                                                         *)
(* Not modelled: the batched route for value updates (batch.rs), custom    *)
(* node layouts, which the paths refuse, and the limit of 64 probed        *)
(* deletes.  Whether the island replay is tried depends on the width of    *)
(* the thread pool and on heuristics the code calls a scheduling decision; *)
(* here it may be tried in every write.                                    *)
(***************************************************************************)
EXTENDS ProllyTree, LeafReplay

CONSTANTS
    Batches,        \* the batches of mutations explored
    Ranges          \* the ranges <<start, end>> deleted

VARIABLES
    format,         \* the format of the tree
    tree,           \* the current tree
    content,        \* what the writes so far put there: a map from keys
    refused         \* the last write returned an error

vars == <<format, tree, content, refused>>

-----------------------------------------------------------------------------
(* Mutations *)

\* Mutant: the first mutation of a key wins.
NormalizeFirst(batch) ==
    LET keys == {batch[i][1] : i \in DOMAIN batch}
    IN  [k \in keys |-> batch[Min({i \in DOMAIN batch : batch[i][1] = k})][2]]

\* normalize: sorted by key, the last mutation of a key wins.  A batch is a
\* sequence of <<key, value>>, with None for a delete.
Normalize(batch) ==
    LET keys == {batch[i][1] : i \in DOMAIN batch}
    IN  [k \in keys |-> batch[Max({i \in DOMAIN batch : batch[i][1] = k})][2]]

Deletes(muts) == {k \in DOMAIN muts : muts[k] = None}

\* The formats whose boundaries depend on keys and counts alone.
KeyStable(f) == f.measure = "entries" /\ f.input = "key"

\* discard_small_mixed_batch_missing_deletes
DropMissing(f, root, muts) ==
    IF Deletes(muts) \in {{}, DOMAIN muts} \/ ~KeyStable(f) THEN muts
    ELSE Restrict(muts, {k \in DOMAIN muts : muts[k] # None \/ Find(root, k) # None})

-----------------------------------------------------------------------------
(* The levels above changed leaves *)

\* Mutant: the separator and the count stay those of the old child.
WithChildStale(node, i, child) == [node EXCEPT !.entries[i].val = child]

\* Put `child` at position i of an internal node.
WithChild(node, i, child) == [node EXCEPT !.entries[i] = Summary(child)]

\* rewrite_internal_node: the leaves in `changed` replace those with the same
\* first key.
RECURSIVE Repointed(_, _)
Repointed(node, changed) ==
    IF IsLeaf(node) THEN CHOOSE leaf \in changed : TRUE
    ELSE LET below(i) == {leaf \in changed : Floor(node.entries, FirstKey(leaf)) = i}
         IN  [node EXCEPT !.entries =
                 [i \in DOMAIN @ |->
                     IF below(i) = {} THEN @[i]
                     ELSE Summary(Repointed(@[i].val, below(i)))]]

\* The end of apply_impl: the old tree when no leaf changed, the old internal
\* nodes with new children when no separator changed, else new levels.
Assembled(f, root, old, new) ==
    CASE new = old -> root
      [] /\ new # old
         /\ KeyStable(f)
         /\ Len(new) = Len(old)
         /\ \A i \in DOMAIN new : FirstKey(new[i]) = FirstKey(old[i])
         -> Repointed(root, Range(new) \ Range(old))
      [] OTHER -> Up(f, 0, new)

-----------------------------------------------------------------------------
(* Appending *)

\* try_append: the last leaf is replayed with the new entries, and every node
\* on the right edge is rebuilt with the nodes that replace its last child.
RECURSIVE Grafted(_, _, _)
Grafted(f, node, entries) ==
    IF IsLeaf(node) THEN Level(f, 0, node.entries \o entries)
    ELSE Level(f, node.level, Front(node.entries)
                    \o Summaries(Grafted(f, Last(node.entries).val, entries)))

Appends(root, muts) ==
    /\ Deletes(muts) = {}
    /\ Min(DOMAIN muts) > Last(Entries(root)).key

Appended(f, root, muts) == Up(f, root.level, Grafted(f, root, Sorted(Upserts(muts))))

-----------------------------------------------------------------------------
(* Changing values in place *)

\* rewrite_value_update_subtree on a leaf: None, to fall back, unless every key
\* is there and the leaf ends at a boundary that values do not move.
RevaluedLeaf(f, leaf, muts, rightmost) ==
    LET keys == {e.key : e \in Range(leaf.entries)}
        updated == [i \in DOMAIN leaf.entries |->
                       LET e == leaf.entries[i]
                       IN  IF e.key \in DOMAIN muts THEN Pair(e.key, muts[e.key]) ELSE e]
    IN  CASE ~rightmost /\ f.rule # "threshold" -> Error
          [] /\ ~rightmost
             /\ f.rule = "threshold"
             /\ ~CountBoundary(f, 0, Len(leaf.entries), Last(leaf.entries).key)
             -> None
          [] OTHER ->
             IF \/ ~(DOMAIN muts \subseteq keys)
                \/ Size(leaf.entries) >= f.cap
                \/ Size(updated) >= f.cap
             THEN None
             ELSE Node(0, updated)

\* The first child that fails decides for the node.
RECURSIVE Revalued(_, _, _, _)
Revalued(f, node, muts, rightmost) ==
    IF IsLeaf(node) THEN RevaluedLeaf(f, node, muts, rightmost)
    ELSE LET keys(i) == {k \in DOMAIN muts : Floor(node.entries, k) = i}
             touched == {i \in DOMAIN node.entries : keys(i) # {}}
             child == [i \in touched |->
                          Revalued(f, node.entries[i].val, Restrict(muts, keys(i)),
                                   rightmost /\ i = Len(node.entries))]
             failed == {i \in touched : child[i] \in {None, Error}}
         IN  IF failed # {} THEN child[Min(failed)]
             ELSE [node EXCEPT !.entries =
                      [i \in DOMAIN @ |-> IF i \in touched THEN Summary(child[i]) ELSE @[i]]]

\* try_direct_value_updates
ValuesUpdated(f, root, muts) ==
    IF ~KeyStable(f) \/ Deletes(muts) # {} THEN None
    ELSE Revalued(f, root, muts, TRUE)

-----------------------------------------------------------------------------
(* Deleting one key in place *)

\* rewrite_single_delete_subtree: an absent key leaves the node as it is, and
\* None falls back.
RECURSIVE Plucked(_, _, _, _)
Plucked(f, node, key, rightmost) ==
    LET es == node.entries
        i == Floor(es, key)
        rest == RemoveAt(es, i)
        closed(chunk) == CountBoundary(f, 0, Len(chunk), Last(chunk).key)
    IN  IF IsLeaf(node)
        THEN CASE es[i].key # key -> node
               [] es[i].key = key /\ i = 1 -> None
               [] OTHER -> IF ~rightmost /\ closed(rest) # closed(es) THEN None
                           ELSE Node(0, rest)
        ELSE LET child == Plucked(f, es[i].val, key, rightmost /\ i = Len(es))
             IN  IF child = None THEN None ELSE WithChild(node, i, child)

SinglyDeletes(f, muts) ==
    /\ Cardinality(DOMAIN muts) = 1
    /\ Deletes(muts) = DOMAIN muts
    /\ KeyStable(f)
    /\ f.rule = "threshold"

\* try_direct_single_delete
SingleDeleted(f, root, muts) ==
    IF ~SinglyDeletes(f, muts) THEN None ELSE Plucked(f, root, Min(DOMAIN muts), TRUE)

-----------------------------------------------------------------------------
(* Deleting keys below a node of level two *)

\* The node of level two with these entries, None unless it is one chunk.
OneChunk(f, entries) ==
    IF Len(entries) > f.max \/ Size(entries) > f.cap THEN None
    ELSE IF Len(entries) = 1 THEN entries[1].val
    ELSE IF Level(f, 2, entries) = <<Node(2, entries)>> THEN Node(2, entries)
    ELSE None

\* `ones` replace the children in the window; None unless what follows the
\* window is provably untouched.
Rejoined(f, root, window, followed, ones) ==
    IF ones = <<>> \/ (followed /\ Last(ones) # root.entries[window.to].val) THEN None
    ELSE OneChunk(f, SubSeq(root.entries, 1, window.from - 1) \o Summaries(ones)
                        \o SubSeq(root.entries, window.to + 1, Len(root.entries)))

\* Level one of the window after the replay r of its leaves.
Rechunked(f, root, window, followed, leaves, start, r) ==
    IF r.pending # {} \/ (followed /\ r.at = 0) THEN None
    ELSE Rejoined(f, root, window, followed,
                  Level(f, 1, Summaries(
                      SubSeq(leaves, 1, start - 1) \o Flush(0, r.em)
                        \o (IF r.at = 0 THEN <<>> ELSE SubSeq(leaves, r.at + 1, Len(leaves))))))

\* The children from one before the first affected to two after the last.
Window(root, lo, hi) ==
    [from |-> Max({Floor(root.entries, lo) - 1, 1}),
     to |-> Min({Floor(root.entries, hi) + 2, Len(root.entries)})]

\* try_localized_height_two_deletes and try_localized_height_two: replay the
\* leaves of a window of children around the keys in `dead`, rebuild level one
\* of the window and splice it in.
Spliced(f, root, dead, lo, hi, rightmost) ==
    LET window == Window(root, lo, hi)
        leaves == FlattenSeq([i \in 1..(window.to - window.from + 1) |->
                                 LeavesOf(root.entries[window.from + i - 1].val)])
        start == Start(leaves, lo)
    IN  IF root.level # 2 THEN None
        ELSE Rechunked(f, root, window, ~rightmost \/ window.to < Len(root.entries), leaves, start,
                       Replayed(f, leaves, [k \in dead |-> None], dead, start, Len(leaves), FALSE))

KeysDeleted(f, root, muts) ==
    IF Deletes(muts) # DOMAIN muts THEN None
    ELSE Spliced(f, root, DOMAIN muts, Min(DOMAIN muts), Max(DOMAIN muts), TRUE)

\* canonical_node_remains_one_chunk
RemainsOneChunk(f, old, new, rightmost) ==
    /\ Size(old.entries) < f.cap
    /\ Size(new.entries) < f.cap
    /\ \A i \in DOMAIN new.entries :
          LET closes == CountBoundary(f, new.level, i, new.entries[i].key)
          IN  IF i < Len(new.entries) THEN ~closes ELSE rightmost \/ closes

\* A rewritten node is kept only where it remains one chunk of its level.
Guarded(f, node, new, rightmost) ==
    IF \/ new = None
       \/ new.level # node.level
       \/ ~RemainsOneChunk(f, node, new, rightmost)
    THEN None
    ELSE new

\* try_localized_deep_single_delete: splice the node of level two above the key
\* and repoint its ancestors, as long as each remains one chunk.
RECURSIVE DeepPlucked(_, _, _, _)
DeepPlucked(f, node, key, rightmost) ==
    LET i == Floor(node.entries, key)
        child == DeepPlucked(f, node.entries[i].val, key, rightmost /\ i = Len(node.entries))
    IN  Guarded(f, node,
                IF node.level = 2 THEN Spliced(f, node, {key}, key, key, rightmost)
                ELSE IF child = None THEN None
                ELSE WithChild(node, i, child),
                rightmost)

DeepDeleted(f, root, muts) ==
    IF ~SinglyDeletes(f, muts) \/ root.level < 3 THEN None
    ELSE DeepPlucked(f, root, Min(DOMAIN muts), TRUE)

-----------------------------------------------------------------------------
(* The operations *)

\* The general path of apply_impl.
LeavesRewritten(f, root, muts, speculate) ==
    LET old == LeavesOf(root)
    IN  Assembled(f, root, old,
                  OrElse(IF speculate THEN Islanded(f, old, muts) ELSE None,
                         Rewritten(f, old, muts)))

\* apply_impl: the paths in the order the code tries them.
Applied(f, root, muts, speculate) ==
    IF root = None THEN SortedBuild(f, Sorted(Upserts(muts)))
    ELSE IF Appends(root, muts) THEN Appended(f, root, muts)
    ELSE LET kept == DropMissing(f, root, muts)
         IN  IF DOMAIN kept = {} THEN root
             ELSE OrElse(ValuesUpdated(f, root, kept),
                  OrElse(SingleDeleted(f, root, kept),
                  OrElse(DeepDeleted(f, root, kept),
                  OrElse(KeysDeleted(f, root, kept),
                         LeavesRewritten(f, root, kept, speculate)))))

\* range_delete::apply
RangeDeleted(f, root, lo, hi) ==
    LET dead == {k \in {e.key : e \in Range(Entries(root))} : lo <= k /\ k < hi}
        left == SelectSeq(Entries(root), LAMBDA e : e.key \notin dead)
    IN  IF lo >= hi \/ root = None \/ dead = {} THEN root
        ELSE OrElse(Spliced(f, root, dead, lo, hi, TRUE), SortedBuild(f, left))

-----------------------------------------------------------------------------
(* The state machine *)

Init ==
    /\ format \in Formats
    /\ tree = None
    /\ content = <<>>
    /\ refused = FALSE

\* What the mutations of a batch mean for a map, one after the other.
Effect(map, batch) ==
    FoldLeft(LAMBDA c, m : IF m[2] = None THEN Restrict(c, DOMAIN c \ {m[1]})
                           ELSE [k \in DOMAIN c \cup {m[1]} |-> IF k = m[1] THEN m[2] ELSE c[k]],
             map, batch)

\* Prolly::batch, put and delete: a batch of mutations.
Write(batch, speculate) ==
    \E new \in {Applied(format, tree, Normalize(batch), speculate)} :
        /\ refused' = (new = Error)
        /\ tree' = IF new = Error THEN tree ELSE new
        /\ content' = IF new = Error THEN content ELSE Effect(content, batch)
        /\ UNCHANGED format

\* Prolly::delete_range
DeleteRange(lo, hi) ==
    /\ tree' = RangeDeleted(format, tree, lo, hi)
    /\ content' = Restrict(content, {k \in DOMAIN content : k < lo \/ hi <= k})
    /\ refused' = FALSE
    /\ UNCHANGED format

Next ==
    \/ \E batch \in Batches, speculate \in BOOLEAN : Write(batch, speculate)
    \/ \E r \in Ranges : DeleteRange(r[1], r[2])

Spec == Init /\ [][Next]_vars

-----------------------------------------------------------------------------
(* Properties *)

\* The tree holds exactly what the writes put there, in key order, whichever
\* paths of apply_impl and range_delete::apply they took.
ContentExact == Entries(tree) = Pairs(content)

\* Routing by separators (Prolly::get) finds every key the tree holds and no
\* other, after any sequence of separator and child replacements.
Routed == \A k \in Keys : Get(tree, k) = IF k \in DOMAIN content THEN content[k] ELSE None

RECURSIVE NodeOK(_)
NodeOK(node) ==
    /\ node.entries # <<>>
    /\ Size(node.entries) <= format.cap
    /\ \A i \in DOMAIN node.entries :
          LET e == node.entries[i]
          IN  IF IsLeaf(node) THEN e \in {Pair(k, v) : k \in Keys, v \in Values}
              ELSE e = Summary(e.val) /\ e.val.level = node.level - 1 /\ NodeOK(e.val)

\* Every node fits the byte cap and is not empty, and every internal entry has
\* the first key and the entry count of the child it points to, one level down:
\* the paths that repoint a child must bring both up to date.
TypeOK ==
    /\ format \in Formats
    /\ refused \in BOOLEAN
    /\ tree = None \/ NodeOK(tree)

\* SortedBatchBuilder, which builds all levels while entries stream in, returns
\* the tree BatchBuilder builds level by level, for every content reached.
BuildersAgree == SortedBuild(format, Pairs(content)) = Canonical(format, content)

\* "Apply last-write-wins mutations and emit the unique deterministic tree": the
\* tree is the one a bulk build of its content gives, whatever the history.
HistoryIndependent == tree = Canonical(format, content)

RECURSIVE Stripped(_)
Stripped(node) ==
    IF node = None \/ IsLeaf(node) \/ Len(node.entries) > 1 THEN node
    ELSE Stripped(node.entries[1].val)

\* The same, up to roots with a single child, which the localized deletes leave
\* behind: resynchronisation, islands, appends, in-place updates and splices all
\* return the canonical tree.  It is said of formats that cut by keys alone only
\* where the byte cap is out of reach: their leaves are updated in place, and a
\* split that the cap forced outlasts the large entry that forced it.
CanonicalBelowRoot == Stripped(tree) = Canonical(format, content)

\* A write that is well formed is not refused.
NeverRefused == ~refused
=============================================================================
