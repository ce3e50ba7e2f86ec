---------------------------- MODULE MCTreeWrites ----------------------------
(* Instances of TreeWrites and TreeMerge for TLC. *)
EXTENDS TreeMerge, TLC

CONSTANTS N, small, large, other

MCKeys == 1..N
MCValues == {small, large, other}

\* Stand-ins for the hash.  Seed 0 is dense enough that a few keys make a tree
\* of height three, the other seeds spread the cuts.  The value of an internal
\* entry is its child's identifier.
MCKeyCut(seed, level, key) ==
    CASE seed = 0 /\ level = 0 -> key \in {1, 3, 4, 5, 6}
      [] seed = 0 /\ level = 1 -> key \in {2, 3, 5, 6}
      [] seed = 0 /\ level > 1 -> key \in {3, 4}
      [] OTHER -> (seed * key + level) % 3 = 0
RECURSIVE Digest(_)
Digest(v) ==
    IF v \in Values THEN IF v = small THEN 1 ELSE 2
    ELSE FoldLeft(LAMBDA h, e : (3 * h + e.key + 5 * Digest(e.val)) % 97, v.level, v.entries)
MCPairCut(seed, level, key, val) == (key + level + Digest(val)) % (seed + 2) = 0
MCChunkCut(seed, level, chunk) ==
    FoldLeft(LAMBDA h, e : (2 * h + e.key + level) % 7, seed, chunk) % 2 = 0
MCBytes(e) == IF e.val = large THEN 2 ELSE 1

\* Formats: by keys and counts, with a byte cap out of reach; by keys and
\* values, with a cap that splits chunks; by bytes, with a rule on chunks.
ByKeys == [measure |-> "entries", input |-> "key", rule |-> "threshold",
           seed |-> 0, min |-> 1, max |-> 3, cap |-> 100]
ByPairs == [ByKeys EXCEPT !.input = "pair", !.cap = 3]
ByBytes == [ByKeys EXCEPT !.measure = "bytes", !.rule = "chunk", !.max = 4, !.cap = 4]
MCFormats == {ByKeys, [ByKeys EXCEPT !.seed = 2]} \cup
             {[f EXCEPT !.seed = i] : f \in {ByPairs, ByBytes}, i \in 0..1}
MCByKeys == {ByKeys}
MCCapped == {[ByKeys EXCEPT !.cap = 3]}
MCNarrow == {[ByKeys EXCEPT !.cap = 2]}
MCChunked == {[ByKeys EXCEPT !.rule = "chunk"]}

\* One mutation of any key, and batches that touch both ends of the tree,
\* neighbours, or one key twice.
MCOne == {<< <<k, v>> >> : k \in Keys, v \in {small, None}}
            \cup {<< <<k, large>> >> : k \in {2, 4, 6}}
MCBatches ==
    MCOne \cup {<< <<1, v>>, <<N - 1, w>> >> : v, w \in {small, None}}
          \cup {<< <<4, None>>, <<2, v>>, <<4, v>> >> : v \in {large, None}}
MCRanges == {<<1, 4>>, <<3, 6>>, <<2, N + 1>>, <<4, 4>>}

\* Branches: two that conflict on the first key, one with a change elsewhere, a
\* delete and the same first change, and two that append, a little and a lot.
MCForks ==
    {<< <<1, large>> >>, << <<1, other>> >>, << <<1, large>>, <<4, other>>, <<6, None>> >>,
     << <<N - 1, large>>, <<N, large>> >>, [i \in 1..(N - 2) |-> <<i + 2, small>>]}
MCSnapshots == {<<>>, [k \in 2..3 |-> large], [k \in 1..N |-> small]}
=============================================================================
