------------------------------ MODULE TreeMerge ------------------------------
(***************************************************************************)
(* Comparing and merging trees: src/prolly/diff.rs, and append_tree_suffix *)
(* of src/prolly/write.rs.                                                 *)
(*                                                                         *)
(* Both walk two or three trees side by side and skip what has the same    *)
(* identifier.  They read trees and return a new one, so they are          *)
(* operators here, checked from every tree TreeWrites reaches.             *)
(*                                                                         *)
(* Not modelled: the range variants of the diff beyond what they return,   *)
(* the budget of visited nodes of the structural merge, and the iterator's *)
(* shortcut for 16 or more remembered appends.                             *)
(***************************************************************************)
EXTENDS TreeWrites

CONSTANTS
    Forks,          \* the batches with which branches leave the tree
    Snapshots,      \* contents of other trees to compare with
    Limits,         \* page sizes
    Resolvers       \* "none", "left", "right", "delete"

ASSUME ResolversKnown == Resolvers \subseteq {"none", "left", "right", "delete"}

-----------------------------------------------------------------------------
(* Differences *)

Value(entries, key) ==
    IF \E i \in DOMAIN entries : entries[i].key = key
    THEN (CHOOSE e \in Range(entries) : e.key = key).val
    ELSE None

\* diff_leaf_nodes and diff_entry_slices: one record for every key whose value
\* differs, in key order.
Changes(old, new) ==
    LET keys == {e.key : e \in Range(old) \cup Range(new)}
        differing == {k \in keys : Value(old, k) # Value(new, k)}
    IN  Sorted({[key |-> k, old |-> Value(old, k), new |-> Value(new, k)] : k \in differing})

\* A frame pairs two subtrees; None for a subtree that is only on one side.
Frame(base, other, end) == [base |-> base, other |-> other, end |-> end]

\* Where the span of child i ends, and whether it does so before a key.
SpanEnd(node, i, end) == IF i < Len(node.entries) THEN node.entries[i + 1].key ELSE end
EndsBy(end, key) == end # None /\ end <= key

Removals(node, i) ==
    [n \in 1..(Len(node.entries) - i + 1) |-> Frame(node.entries[i + n - 1].val, None, None)]
Additions(node, j) ==
    [n \in 1..(Len(node.entries) - j + 1) |-> Frame(None, node.entries[j + n - 1].val, None)]

\* enqueue_async_internal_diff: the frames of two internal nodes from their
\* children i and j on, None when the spans of two children overlap in part.
RECURSIVE Paired(_, _, _, _, _)
Paired(base, other, i, j, end) ==
    IF i > Len(base.entries) \/ j > Len(other.entries)
    THEN Removals(base, i) \o Additions(other, j)
    ELSE LET b == base.entries[i]
             o == other.entries[j]
             bEnd == SpanEnd(base, i, end)
             oEnd == SpanEnd(other, j, end)
             both == b.key = o.key /\ bEnd = oEnd
             gone == ~both /\ EndsBy(bEnd, o.key)
             new == ~both /\ ~gone /\ EndsBy(oEnd, b.key)
             first == CASE both -> IF b.val = o.val THEN <<>> ELSE <<Frame(b.val, o.val, bEnd)>>
                        [] gone -> <<Frame(b.val, None, None)>>
                        [] OTHER -> <<Frame(None, o.val, None)>>
             rest == Paired(base, other, i + (IF new THEN 0 ELSE 1),
                            j + (IF gone THEN 0 ELSE 1), end)
         IN  IF ~(both \/ gone \/ new) \/ rest = None THEN None ELSE first \o rest

\* append_only_diff_nodes_async: what `other` has after everything `base` has,
\* None unless `base` is a prefix of `other`.
RECURSIVE Suffix(_, _)
Suffix(base, other) ==
    LET n == Len(base.entries)
        inner(nodes) == FlattenSeq([i \in DOMAIN nodes |-> Changes(<<>>, Entries(nodes[i].val))])
        same(i) == base.entries[i].key = other.entries[i].key
                   /\ base.entries[i].val = other.entries[i].val
    IN  IF other.level > base.level
        THEN LET first == Suffix(base, other.entries[1].val)
             IN  IF first = None THEN None ELSE first \o inner(Tail(other.entries))
        ELSE IF base.level # other.level \/ Len(other.entries) < n
        THEN None
        ELSE LET more == SubSeq(other.entries, n + 1, Len(other.entries))
             IN  IF IsLeaf(base)
                 THEN IF \A i \in 1..n : same(i) THEN Changes(<<>>, more) ELSE None
                 ELSE IF \/ \E i \in 1..(n - 1) : ~same(i)
                         \/ base.entries[n].key # other.entries[n].key
                 THEN None
                 ELSE LET last == IF same(n) THEN <<>>
                                  ELSE Suffix(base.entries[n].val, other.entries[n].val)
                      IN  IF last = None THEN None ELSE last \o inner(more)

Collected(base, other) ==
    OrElse(Suffix(base, other), Changes(Entries(base), Entries(other)))

-----------------------------------------------------------------------------
(* The iterator, whose cursor is a stack of frames and the changes not yet *)
(* handed out                                                              *)

\* process_async_diff_compare, _added and _removed: a frame becomes frames or
\* changes.
Processed(frame) ==
    LET b == frame.base
        o == frame.other
        frames == Paired(b, o, 1, 1, frame.end)
        into(fs, cs) == [frames |-> fs, changes |-> cs]
    IN  CASE o = None -> IF IsLeaf(b) THEN into(<<>>, Changes(b.entries, <<>>))
                         ELSE into(Removals(b, 1), <<>>)
          [] b = None -> IF IsLeaf(o) THEN into(<<>>, Changes(<<>>, o.entries))
                         ELSE into(Additions(o, 1), <<>>)
          [] b = o -> into(<<>>, <<>>)
          [] OTHER ->
             IF IsLeaf(b) /\ IsLeaf(o) THEN into(<<>>, Changes(b.entries, o.entries))
             ELSE IF b.level = o.level /\ frames # None THEN into(frames, <<>>)
             ELSE into(<<>>, Collected(b, o))

\* initial_diff_stack
Cursor(base, other) ==
    [stack |-> IF base = other THEN <<>> ELSE <<Frame(base, other, None)>>, pending |-> <<>>]

\* Mutant: a cursor forgets the changes read but not yet handed out.
CheckpointStack(it) == IF it.stack = <<>> THEN None ELSE [it EXCEPT !.pending = <<>>]

\* AsyncDiffIter::checkpoint
Checkpoint(it) == IF it.stack = <<>> /\ it.pending = <<>> THEN None ELSE it

\* fill_pending
Popped(it, p) == [stack |-> Front(it.stack) \o Reverse(p.frames), pending |-> p.changes]
RECURSIVE Filled(_)
Filled(it) ==
    IF it.pending # <<>> \/ it.stack = <<>> THEN it
    ELSE Filled(Popped(it, Processed(Last(it.stack))))

\* structural_diff_page_async: at most `limit` changes and the next cursor.
RECURSIVE Page(_, _, _), Taken(_, _, _)
Page(it, limit, got) ==
    IF limit = 0 THEN [changes |-> got, next |-> Checkpoint(it)]
    ELSE Taken(Filled(it), limit, got)
Taken(it, limit, got) ==
    IF it.pending = <<>> THEN [changes |-> got, next |-> Checkpoint(it)]
    ELSE Page([it EXCEPT !.pending = Tail(@)], limit - 1, Append(got, Head(it.pending)))

\* All pages, each resumed from the cursor of the one before.
RECURSIVE Paged(_, _), Continued(_, _)
Paged(cursor, limit) ==
    IF cursor = None THEN <<>> ELSE Continued(Page(cursor, limit, <<>>), limit)
Continued(page, limit) == page.changes \o Paged(page.next, limit)

-----------------------------------------------------------------------------
(* The scan, which stays in step where the iterator gives up *)

Within(root, lo, hi) ==
    SelectSeq(Entries(root), LAMBDA e : lo <= e.key /\ (hi = None \/ e.key < hi))

\* packed_next_shared_child_start: the next children with the same first key.
NextShared(base, other, i, j) ==
    {p \in ((i + 1)..Len(base.entries)) \X ((j + 1)..Len(other.entries)) :
        base.entries[p[1]].key = other.entries[p[2]].key}

\* scan_diff_borrowed_async and borrowed_internal_frames
RECURSIVE Scanned(_, _, _), ScannedFrom(_, _, _, _, _)
Scanned(base, other, end) ==
    IF base = other THEN <<>>
    ELSE IF base # None /\ other # None /\ base.level = other.level /\ base.level > 0
    THEN ScannedFrom(base, other, 1, 1, end)
    ELSE Changes(Entries(base), Entries(other))
ScannedFrom(base, other, i, j, end) ==
    IF i > Len(base.entries) THEN
        FlattenSeq([n \in 1..(Len(other.entries) - j + 1) |->
                       Scanned(None, other.entries[j + n - 1].val, None)])
    ELSE IF j > Len(other.entries) THEN
        FlattenSeq([n \in 1..(Len(base.entries) - i + 1) |->
                       Scanned(base.entries[i + n - 1].val, None, None)])
    ELSE LET b == base.entries[i]
             o == other.entries[j]
             bEnd == SpanEnd(base, i, end)
             oEnd == SpanEnd(other, j, end)
             shared == NextShared(base, other, i, j)
             next == CHOOSE p \in shared : \A q \in shared : p[1] <= q[1]
             start == Min({b.key, o.key})
         IN  IF b.key = o.key /\ b.val = o.val
             THEN ScannedFrom(base, other, i + 1, j + 1, end)
             ELSE IF EndsBy(bEnd, o.key)
             THEN Scanned(b.val, None, None) \o ScannedFrom(base, other, i + 1, j, end)
             ELSE IF EndsBy(oEnd, b.key)
             THEN Scanned(None, o.val, None) \o ScannedFrom(base, other, i, j + 1, end)
             ELSE IF bEnd = oEnd
             THEN Scanned(b.val, o.val, bEnd) \o ScannedFrom(base, other, i + 1, j + 1, end)
             ELSE IF shared = {}
             THEN Changes(Within(base, start, end), Within(other, start, end))
             ELSE LET stop == base.entries[next[1]].key
                  IN  Changes(Within(base, start, stop), Within(other, start, stop))
                         \o ScannedFrom(base, other, next[1], next[2], end)

-----------------------------------------------------------------------------
(* Merging *)

\* What a resolver makes of a conflict; Error when it leaves it unresolved.
Resolve(resolver, left, right) ==
    CASE resolver = "none" -> Error
      [] resolver = "left" -> left
      [] resolver = "right" -> right
      [] resolver = "delete" -> None

\* Mutant: the right branch wins where both changed a key.
SelectRight(base, left, right, resolver) ==
    IF left = right \/ right = base THEN left ELSE right

\* The three-way choice for one key.
Select(base, left, right, resolver) ==
    CASE left = right \/ right = base -> left
      [] left = base /\ left # right -> right
      [] OTHER -> Resolve(resolver, left, right)

\* try_structural_merge_leaf: leaves with the same keys.  Deleting the first
\* entry, or leaving too few, falls back to None.
MergedLeaf(f, base, left, right, resolver) ==
    LET chosen == [i \in DOMAIN base.entries |->
                      Select(base.entries[i].val, left.entries[i].val,
                             right.entries[i].val, resolver)]
        kept == {i \in DOMAIN chosen : chosen[i] # None}
        merged == Sorted({Pair(base.entries[i].key, chosen[i]) : i \in kept})
    IN  IF \E i \in DOMAIN chosen : chosen[i] = Error THEN Error
        ELSE IF kept # DOMAIN chosen /\ (Len(merged) < Max({f.min, 1}) \/ 1 \notin kept) THEN None
        ELSE Node(0, merged)

KeysOf(node) == [i \in DOMAIN node.entries |-> node.entries[i].key]

\* try_structural_merge_cids and _internal: None unless the three nodes have the
\* same shape all the way down to what changed on both sides.
RECURSIVE Shaped(_, _, _, _, _)
Shaped(f, base, left, right, resolver) ==
    IF left = right \/ right = base THEN left
    ELSE IF left = base THEN right
    ELSE IF {left.level, right.level} # {base.level} \/ {KeysOf(left), KeysOf(right)} # {KeysOf(base)}
    THEN None
    ELSE IF IsLeaf(base) THEN MergedLeaf(f, base, left, right, resolver)
    ELSE LET child == [i \in DOMAIN base.entries |->
                          Shaped(f, base.entries[i].val, left.entries[i].val,
                                 right.entries[i].val, resolver)]
             failed == {i \in DOMAIN child : child[i] \in {None, Error}}
         IN  IF failed # {} THEN child[Min(failed)]
             ELSE Node(base.level, Summaries(child))

\* try_lineage_merge_async: the handle remembers the batches lm and rm that made
\* the branches; only their keys are looked at.
Remembered(f, base, left, right, resolver, lm, rm) ==
    LET both == DOMAIN lm \cap DOMAIN rm
        chosen == [k \in both |-> Select(Get(base, k), lm[k], rm[k], resolver)]
        muts == [k \in {k \in DOMAIN rm : k \in both => chosen[k] # lm[k]} |->
                    IF k \in both THEN chosen[k] ELSE rm[k]]
    IN  CASE \E k \in both : chosen[k] = Error -> Error
          [] OTHER ->
             IF DOMAIN lm = DOMAIN rm /\ \A k \in both : chosen[k] = Get(base, k) THEN base
             ELSE IF DOMAIN lm \subseteq DOMAIN rm /\ \A k \in both : chosen[k] = rm[k] THEN right
             ELSE IF DOMAIN muts = {} THEN left
             ELSE Applied(f, left, muts, FALSE)

-----------------------------------------------------------------------------
(* Grafting the end of one tree onto another *)

RECURSIVE NodesAt(_, _)
NodesAt(node, level) ==
    IF node.level <= level THEN IF node.level = level THEN <<node>> ELSE <<>>
    ELSE FlattenSeq([i \in DOMAIN node.entries |-> NodesAt(node.entries[i].val, level)])

\* The parent level of append_tree_suffix: take the source's children from i on
\* into the emitter.  As soon as a node comes out and the next child starts a
\* parent of the source, its parents are reused from there on, and what the
\* emitter still holds is dropped.
RECURSIVE Drawn(_, _, _, _, _, _), DrawnOne(_, _, _, _, _, _, _)
Drawn(f, level, em, children, parents, i) ==
    IF i > Len(children)
    THEN [out |-> Flush(level, em), from |-> Len(parents) + 1]
    ELSE DrawnOne(f, level, em, Push(f, level, em, children[i]), children, parents, i)
DrawnOne(f, level, em, next, children, parents, i) ==
    LET out == SubSeq(next.done, 1, Len(em.done) + 1)
        emitted == Len(next.done) > Len(em.done)
        starts == {p \in DOMAIN parents :
                      i < Len(children) /\ parents[p].key = children[i + 1].key}
    IN  IF emitted /\ i = Len(children) THEN [out |-> out, from |-> Len(parents) + 1]
        ELSE IF emitted /\ starts # {} THEN [out |-> out, from |-> Min(starts)]
        ELSE Drawn(f, level, next, children, parents, i + 1)

\* The levels above `boundary`, the nodes that replace the right edge of `left`
\* one level down; the source's nodes of that level follow from `from` on.
RECURSIVE Climbed(_, _, _, _, _, _), Topped(_, _, _, _, _, _)
Climbed(f, left, right, boundary, from, level) ==
    LET edge == NodesAt(left, level)
        kept == IF edge = <<>> THEN <<>> ELSE Front(Last(edge).entries)
        children == Summaries(NodesAt(right, level - 1))
        parents == Summaries(NodesAt(right, level))
    IN  Topped(f, left, right, parents, level,
               Drawn(f, level, PushAll(f, level, Fresh, kept \o Summaries(boundary)),
                     children, parents, from))
Topped(f, left, right, parents, level, d) ==
    IF level >= left.level /\ Len(d.out) + Len(parents) - d.from + 1 = 1
    THEN IF d.out # <<>> THEN d.out[1] ELSE parents[d.from].val
    ELSE Climbed(f, left, right, d.out, d.from, level + 1)

\* append_tree_suffix: the entries of `right` from `start` on, after `left`.
\* The last leaf of `left` is replayed with them until a leaf of `right` comes
\* out unchanged.
RECURSIVE Resumed(_, _, _, _, _), ResumedAfter(_, _, _, _, _)
Resumed(f, em, leaves, start, i) ==
    IF i > Len(leaves) THEN [nodes |-> Flush(0, em), from |-> i]
    ELSE ResumedAfter(f, PushAll(f, 0, em, SelectSeq(leaves[i].entries,
                                                      LAMBDA e : e.key >= start)),
                      leaves, start, i)
ResumedAfter(f, em, leaves, start, i) ==
    IF Aligned([em |-> em], leaves[i]) THEN [nodes |-> em.done, from |-> i + 1]
    ELSE Resumed(f, em, leaves, start, i + 1)

Rooted(f, left, right, r) == Climbed(f, left, right, r.nodes, r.from, 1)

\* Mutant: the last leaf of the left branch stays as it is.
SuffixAppendedClosed(f, left, right, start) ==
    LET leaves == LeavesOf(right)
        em == [done |-> <<Last(LeavesOf(left))>>, open |-> <<>>]
    IN  Rooted(f, left, right,
               Resumed(f, em, leaves, start, Floor(Summaries(leaves), start)))

SuffixAppended(f, left, right, start) ==
    LET leaves == LeavesOf(right)
        em == PushAll(f, 0, Fresh, Last(LeavesOf(left)).entries)
    IN  Rooted(f, left, right,
               Resumed(f, em, leaves, start, Floor(Summaries(leaves), start)))

-----------------------------------------------------------------------------
(* The merge *)

\* merge_trees_with_right_diff_async_traced
DiffMerged(f, left, right, changes, resolver) ==
    LET additions == \A c \in Range(changes) : c.old = None
        beyond == \A e \in Range(Entries(left)) : e.key < changes[1].key
        current(c) == Get(left, c.key)
        due == {c \in Range(changes) : current(c) = c.old \/ current(c) # c.new}
        chosen == [c \in due |-> IF current(c) = c.old THEN c.new
                                 ELSE Resolve(resolver, current(c), c.new)]
        muts == [k \in {c.key : c \in due} |-> chosen[CHOOSE c \in due : c.key = k]]
    IN  CASE additions /\ beyond /\ left # None -> SuffixAppended(f, left, right, changes[1].key)
          [] OTHER ->
             IF \E c \in due : chosen[c] = Error THEN Error
             ELSE IF due = {} THEN left
             ELSE Applied(f, left, muts, FALSE)

\* Prolly::merge: what the handle remembers of the branches comes first (lm and
\* rm, when `known`), then the shape, then the difference.
Merged(f, base, left, right, resolver, known, lm, rm) ==
    LET shaped == Shaped(f, base, left, right, resolver)
    IN  IF left = right \/ right = base THEN left
        ELSE IF left = base THEN right
        ELSE IF known /\ None \notin {left, right}
        THEN Remembered(f, base, left, right, resolver, lm, rm)
        ELSE IF None \notin {base, left, right} /\ shaped # None THEN shaped
        ELSE DiffMerged(f, left, right, Paged(Cursor(base, right), Cardinality(Keys)), resolver)

\* compute_async_range_diff, by what it returns: the changes in [lo, hi).
RangeChanges(base, other, lo, hi) == Changes(Within(base, lo, hi), Within(other, lo, hi))

\* Prolly::merge_range: only what the right branch changed in [lo, hi).
RangeMerged(f, base, left, right, lo, hi, resolver) ==
    LET changes == RangeChanges(base, right, lo, hi)
    IN  IF left = right \/ right = base \/ hi <= lo \/ changes = <<>> THEN left
        ELSE DiffMerged(f, left, right, changes, resolver)

-----------------------------------------------------------------------------
(* Properties *)

Branch(batch) == Applied(format, tree, Normalize(batch), FALSE)

\* Between the tree and any branch or other tree, both ways: the iterator, in
\* one page or resumed from a cursor after each, and the scan report exactly
\* the keys whose values differ, in key order.
DiffsExact ==
    \A other \in {Branch(b) : b \in Forks} \cup {Canonical(format, c) : c \in Snapshots} :
        \A p \in {<<tree, other>>, <<other, tree>>} :
            LET exact == Changes(Entries(p[1]), Entries(p[2]))
            IN  /\ Scanned(p[1], p[2], None) = exact
                /\ \A limit \in Limits : Paged(Cursor(p[1], p[2]), limit) = exact

\* What a three-way merge means, key by key.
Joint(base, left, right, resolver) ==
    LET keys == UNION {DOMAIN base, DOMAIN left, DOMAIN right}
        at(map, k) == IF k \in DOMAIN map THEN map[k] ELSE None
        value == [k \in keys |->
                     IF at(left, k) = at(base, k) THEN at(right, k)
                     ELSE IF at(right, k) \in {at(base, k), at(left, k)} THEN at(left, k)
                     ELSE Resolve(resolver, at(left, k), at(right, k))]
    IN  IF \E k \in keys : value[k] = Error THEN Error
        ELSE Restrict(value, {k \in keys : value[k] # None})

\* Every pair of branches of the tree, every resolver, and both for branches
\* the handle remembers and for branches it does not.  (The outer quantifier
\* names the branches, once.)
Merges(resolvers, P(_, _, _, _)) ==
    \A branch \in {[b \in Forks |-> Branch(b)]} :
        \A lb, rb \in Forks, resolver \in resolvers, known \in BOOLEAN :
            P(Effect(content, lb), Effect(content, rb), resolver,
              Merged(format, tree, branch[lb], branch[rb], resolver, known,
                     Normalize(lb), Normalize(rb)))

Combines(left, right, resolver, merged) ==
    LET joint == Joint(content, left, right, resolver)
    IN  IF joint = Error THEN merged = Error
        ELSE merged # Error /\ Entries(merged) = Pairs(joint)

\* "Changes from both `left` and `right` are combined into a single tree": each
\* key gets the value of the branch that changed it, or the resolver's when both
\* did, and the merge fails exactly when a conflict is left unresolved.
MergeCombines == Merges(Resolvers, Combines)

\* The right branch only adds, and from its first new key on the left branch has
\* deleted all there was.
Cleared(left, right) ==
    LET added == DOMAIN right \ DOMAIN content
    IN  /\ added # {} /\ \A k \in DOMAIN content : k \in DOMAIN right /\ right[k] = content[k]
        /\ \A k \in DOMAIN left : k < Min(added)
        /\ \E k \in DOMAIN content : k > Min(added)

\* The same but for that one case, in which append_tree_suffix copies the end of
\* the right branch: by remembered batches, by shape, by difference and by
\* suffix, the merge has the changes of both branches and no others.
MergeExact ==
    Merges(Resolvers,
           LAMBDA left, right, resolver, merged :
               Cleared(left, right) \/ Combines(left, right, resolver, merged))

\* Where boundaries depend on keys and counts alone, the merge of two branches
\* is the canonical tree of what it holds, up to roots with a single child,
\* unless a resolver deletes: no boundary moves when shapes are reused and
\* suffixes grafted.
MergeCanonical ==
    KeyStable(format) =>
        Merges(Resolvers \ {"delete"},
               LAMBDA left, right, resolver, merged :
                   merged # Error => Stripped(merged) = Build(format, Entries(merged)))

\* merge_range: "Keys outside the range remain exactly as they are in `left`."
MergeInRange ==
    \A lb, rb \in Forks, r \in Ranges, resolver \in Resolvers :
        LET left == Branch(lb)
            merged == RangeMerged(format, tree, left, Branch(rb), r[1], r[2], resolver)
            outside(root) == SelectSeq(Entries(root), LAMBDA e : e.key < r[1] \/ r[2] <= e.key)
        IN  merged # Error => outside(merged) = outside(left)
=============================================================================
