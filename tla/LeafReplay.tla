------------------------------ MODULE LeafReplay ------------------------------
(***************************************************************************)
(* The leaves after a write: the general path of apply_impl and the        *)
(* island path, try_parallel_structural_islands, in src/prolly/write.rs.   *)
(*                                                                         *)
(* The writer streams the old leaves, with the mutations merged in, into a *)
(* new emitter, from the leaf before the first affected one on, until it   *)
(* emits an old leaf again with nothing left open.  From there the old     *)
(* leaves are reused up to the next mutation.  When the mutations fall     *)
(* into regions far apart, islands, each may be replayed on its own.       *)
(*                                                                         *)
(* A batch of mutations is a map from keys to values, None for a delete.   *)
(***************************************************************************)
EXTENDS LevelEmitter

CONSTANT Guard          \* MUTATION_ISLAND_GUARD_LEAVES

ASSUME GuardTyped == Guard \in Nat

Upserts(muts) == {Pair(k, muts[k]) : k \in {k \in DOMAIN muts : muts[k] # None}}

\* partition_point: how many leaves start at the key or before it.
LeavesUpTo(leaves, key) == Cardinality({i \in DOMAIN leaves : FirstKey(leaves[i]) <= key})

-----------------------------------------------------------------------------
(* A replay *)

\* Stream leaf i, with the mutations due before the next leaf, into the emitter.
Feed(f, leaves, muts, st, i) ==
    LET due == {k \in st.pending : i = Len(leaves) \/ k < FirstKey(leaves[i + 1])}
        kept == {e \in Range(leaves[i].entries) : e.key \notin due}
    IN  [em |-> PushAll(f, 0, st.em, Sorted(kept \cup Upserts(Restrict(muts, due)))),
         pending |-> st.pending \ due,
         at |-> st.at]

\* LeafEmitter::is_aligned_with
Aligned(st, leaf) == st.em.open = <<>> /\ st.em.done # <<>> /\ st.em.done[Len(st.em.done)] = leaf

\* The replay stops at leaf i when it comes out unchanged after a mutation, or
\* after all of them when `all`.
Probed(leaf, pending, st, i, all) ==
    IF /\ st.pending # pending
       /\ all => st.pending = {}
       /\ Aligned(st, leaf)
    THEN [st EXCEPT !.at = i]
    ELSE st

Advanced(f, leaves, muts, pending, st, i, all) ==
    IF st.at # 0 THEN st
    ELSE Probed(leaves[i], pending, Feed(f, leaves, muts, st, i), i, all)

\* Replay leaves from .. stop; `at` is the leaf where the replay stopped, 0 when it
\* did not.
Replays(f, leaves, muts, pending, from, stop, all) ==
    LET st[i \in from - 1 .. stop] ==
            IF i = from - 1 THEN [em |-> Fresh, pending |-> pending, at |-> 0]
            ELSE Advanced(f, leaves, muts, pending, st[i - 1], i, all)
    IN  st

Replayed(f, leaves, muts, pending, from, stop, all) ==
    Replays(f, leaves, muts, pending, from, stop, all)[stop]

-----------------------------------------------------------------------------
(* The sequential writer *)

\* Mutant: the replay starts at the leaf of the mutation.
StartAtLeaf(leaves, key) == Max({LeavesUpTo(leaves, key), 1})

\* The leaf before the one the key belongs to: a split forced by the byte cap
\* can move into it.
Start(leaves, key) == Max({LeavesUpTo(leaves, key) - 1, 1})

\* Reuse the leaves before `from`, then take what the replay r emitted.
Reused(leaves, st, from, r) ==
    [out |-> st.out \o SubSeq(leaves, st.cursor, from - 1) \o Flush(0, r.em),
     pending |-> r.pending,
     cursor |-> IF r.at = 0 THEN Len(leaves) + 1 ELSE r.at + 1]

\* One round of the loop over the pending mutations.
Round(f, leaves, muts, st) ==
    IF st.pending = {} THEN st
    ELSE LET from == Max({Start(leaves, Min(st.pending)), st.cursor})
         IN  Reused(leaves, st, from,
                    Replayed(f, leaves, muts, st.pending, from, Len(leaves), FALSE))

\* The loop: a round takes up at least one old leaf.
Rounds(f, leaves, muts) ==
    LET after[n \in 0 .. Len(leaves)] ==
            IF n = 0 THEN [out |-> <<>>, pending |-> DOMAIN muts, cursor |-> 1]
            ELSE Round(f, leaves, muts, after[n - 1])
    IN  after

Closed(leaves, st) == st.out \o SubSeq(leaves, st.cursor, Len(leaves))

Rewritten(f, leaves, muts) == Closed(leaves, Rounds(f, leaves, muts)[Len(leaves)])

-----------------------------------------------------------------------------
(* Islands: regions far enough apart to be replayed on their own *)

\* The batch as the writer holds it: sorted by key.
Mutations(muts) == Sorted({Pair(k, muts[k]) : k \in DOMAIN muts})

\* The leaf a key belongs to; a key before all leaves belongs to the first.
TargetLeaf(leaves, key) == Max({LeavesUpTo(leaves, key), 1})

\* A mutation joins the last candidate when its leaf is in there or right after it;
\* else it starts a new one.
Joined(candidates, leaf, key) ==
    LET n == Len(candidates)
        c == candidates[n]
    IN  IF n > 0 /\ leaf <= c.last + 1
        THEN [candidates EXCEPT ![n] = [first |-> c.first, last |-> Max({c.last, leaf}),
                                        keys |-> c.keys \cup {key}]]
        ELSE Append(candidates, [first |-> leaf, last |-> leaf, keys |-> {key}])

\* mutation_island_candidates, after each prefix of the mutations.
Candidates(leaves, ms) ==
    LET after[i \in 0 .. Len(ms)] ==
            IF i = 0 THEN <<>>
            ELSE Joined(after[i - 1], TargetLeaf(leaves, ms[i].key), ms[i].key)
    IN  after

\* The island of a candidate has two leaves of context before it and Guard leaves
\* after it; islands that touch become one.
Planned(islands, c, count) ==
    LET n == Len(islands)
        last == islands[n]
        from == Max({c.first - 2, 1})
        stop == Min({c.last + Guard, count})
    IN  IF n > 0 /\ last.stop >= from
        THEN [islands EXCEPT ![n] = [from |-> last.from, stop |-> Max({last.stop, stop}),
                                     keys |-> last.keys \cup c.keys]]
        ELSE Append(islands, [from |-> from, stop |-> stop, keys |-> c.keys])

\* plan_mutation_islands, after each prefix of the candidates.
Plans(cs, count) ==
    LET after[i \in 0 .. Len(cs)] ==
            IF i = 0 THEN <<>> ELSE Planned(after[i - 1], cs[i], count)
    IN  after

Islands(leaves, muts) ==
    LET ms == Mutations(muts)
        cs == Candidates(leaves, ms)[Len(ms)]
    IN  Plans(cs, Len(leaves))[Len(cs)]

\* merge_proved_island_replays, after each prefix of the islands.
IslandMerges(leaves, islands, replay) ==
    LET after[i \in 0 .. Len(islands)] ==
            IF i = 0 THEN [out |-> <<>>, pending |-> {}, cursor |-> 1]
            ELSE Reused(leaves, after[i - 1], islands[i].from, replay[i])
    IN  after

\* None unless every island lines up with the old leaves before its guard ends.
Proved(leaves, islands, replay) ==
    IF Len(islands) < 2 \/ \E i \in DOMAIN islands : replay[i].at = 0
    THEN None
    ELSE Closed(leaves, IslandMerges(leaves, islands, replay)[Len(islands)])

\* execute_mutation_islands
Executed(f, leaves, muts, islands) ==
    Proved(leaves, islands,
           [i \in DOMAIN islands |->
               Replayed(f, leaves, muts, islands[i].keys, islands[i].from, islands[i].stop, TRUE)])

Islanded(f, leaves, muts) == Executed(f, leaves, muts, Islands(leaves, muts))
=============================================================================
