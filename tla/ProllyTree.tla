------------------------------ MODULE ProllyTree ------------------------------
(***************************************************************************)
(* The content-addressed tree and the builders that define its canonical   *)
(* form: src/prolly/boundary.rs, builder.rs and builder/streaming.rs.      *)
(*                                                                         *)
(* A node is identified by the hash of its bytes, so the model lets a node *)
(* stand for its own identifier: two nodes are the same iff they are equal *)
(* values.  An entry of a leaf holds a value, an entry of an internal node *)
(* the child, the child's first key and the number of entries below it; a  *)
(* NodeSummary of the code is such an entry.  An empty tree is None.       *)
(*                                                                         *)
(* Keys are integers, ordered as the code orders byte strings.  Encoded    *)
(* and logical sizes of an entry are one number, Bytes(e); every entry is  *)
(* assumed to fit a node, so EntryTooLarge does not arise.                 *)
(***************************************************************************)
EXTENDS LevelEmitter, SequencesExt

CONSTANTS
    Keys,                   \* the keys, integers
    Values,                 \* the values
    Error                   \* the call returns an error

ASSUME KeysAreIntegers == Keys \subseteq Int
ASSUME EntriesFit ==
    \A f \in Formats, k \in Keys, v \in Values :
        Bytes([key |-> k, val |-> v, count |-> 1]) <= f.cap

-----------------------------------------------------------------------------
(* Summaries *)

Total(node) == FoldLeft(LAMBDA n, e : n + e.count, 0, node.entries)

Summary(node) == [key |-> FirstKey(node), val |-> node, count |-> Total(node)]

Summaries(nodes) == [i \in DOMAIN nodes |-> Summary(nodes[i])]

\* The first of two results, unless it says to try something else.
OrElse(first, second) == IF first # None THEN first ELSE second

\* The entries of the map `content`, in key order.
Pairs(content) == Sorted({Pair(k, content[k]) : k \in DOMAIN content})

-----------------------------------------------------------------------------
(* The canonical tree *)

\* The levels above `nodes`, until one node is left: the root.
RECURSIVE Up(_, _, _)
Up(f, level, nodes) ==
    CASE nodes = <<>> -> None
      [] Len(nodes) = 1 -> nodes[1]
      [] OTHER -> Up(f, level + 1, Level(f, level + 1, Summaries(nodes)))

\* BatchBuilder::build on sorted entries.
Build(f, entries) == Up(f, 0, Level(f, 0, entries))

Canonical(f, content) == Build(f, Pairs(content))

\* SortedBatchBuilder: the levels are built while entries stream in.  A parent
\* level parks its first child and gets an emitter only when a second arrives.
NoParent == [first |-> None, em |-> None]

\* HierarchicalEmitter::cascade: hand `queue`, a stack of summaries with the
\* level they belong to, to the levels above.  A first child that closes a chunk
\* on its own is an error of the code: formats here never do that.
RECURSIVE Cascade(_, _, _), Handed(_, _, _, _, _), Raised(_, _, _, _, _)
Cascade(f, parents, queue) ==
    IF queue = <<>> THEN parents
    ELSE LET level == Last(queue).level + 1
         IN  Handed(f, IF level <= Len(parents) THEN parents ELSE Append(parents, NoParent),
                    level, Last(queue).summary, Front(queue))
Handed(f, parents, level, child, rest) ==
    LET parent == parents[level]
    IN  IF parent.em = None /\ parent.first = None
        THEN Cascade(f, [parents EXCEPT ![level].first = child], rest)
        ELSE LET em == OrElse(parent.em, Push(f, level, Fresh, parent.first))
             IN  Raised(f, parents, level,
                        Push(f, level, [em EXCEPT !.done = <<>>], child), rest)
Raised(f, parents, level, pushed, rest) ==
    Cascade(f, [parents EXCEPT ![level] = [first |-> None, em |-> pushed]],
            rest \o [i \in DOMAIN pushed.done |->
                        [level |-> level, summary |-> Summary(pushed.done[i])]])

Rise(f, parents, level, nodes) ==
    FoldLeft(LAMBDA ps, n : Cascade(f, ps, <<[level |-> level, summary |-> Summary(n)]>>),
             parents, nodes)

\* HierarchicalEmitter::push_leaf, for every entry.
Streamed(f, parents, em) == [leaf |-> em, parents |-> Rise(f, parents, 0, em.done)]
Stream(f, entries) ==
    FoldLeft(LAMBDA st, e : Streamed(f, st.parents, Push(f, 0, [st.leaf EXCEPT !.done = <<>>], e)),
             [leaf |-> Fresh, parents |-> <<>>], entries)

\* Mutant: the open chunk of a level is not handed on at the end.
RECURSIVE FinishEarly(_, _, _)
FinishEarly(f, parents, level) ==
    IF parents[level].em = None
    THEN parents[level].first.val
    ELSE IF level < Len(parents) THEN FinishEarly(f, parents, level + 1)
    ELSE Last(Flush(level, parents[level].em))

\* HierarchicalEmitter::finish: close the levels bottom-up; the first level
\* with only a parked child holds the root.
RECURSIVE Finish(_, _, _)
Finish(f, parents, level) ==
    IF parents[level].em = None
    THEN parents[level].first.val
    ELSE LET left == Flush(level, [parents[level].em EXCEPT !.done = <<>>])
         IN  Finish(f, Rise(f, parents, level, left), level + 1)

Finished(f, parents) == IF parents = <<>> THEN None ELSE Finish(f, parents, 1)
Ended(f, st) == Finished(f, Rise(f, st.parents, 0, Flush(0, [st.leaf EXCEPT !.done = <<>>])))
SortedBuild(f, entries) == Ended(f, Stream(f, entries))

-----------------------------------------------------------------------------
(* Reading *)

IsLeaf(node) == node.level = 0

\* The leaves below a node, left to right.
RECURSIVE LeavesOf(_)
LeavesOf(node) ==
    IF IsLeaf(node) THEN <<node>>
    ELSE FlattenSeq([i \in DOMAIN node.entries |-> LeavesOf(node.entries[i].val)])

Leaves(tree) == IF tree = None THEN <<>> ELSE LeavesOf(tree)

Entries(tree) ==
    LET leaves == Leaves(tree)
    IN  FlattenSeq([i \in DOMAIN leaves |-> leaves[i].entries])

\* partition_point: how many of the entries have a key that is not greater.
UpTo(entries, key) == Cardinality({i \in DOMAIN entries : entries[i].key <= key})

\* The child a key is routed to.
Floor(entries, key) == Max({UpTo(entries, key), 1})

\* Mutant: a key equal to a separator goes to the child before it.
RECURSIVE FindBefore(_, _)
FindBefore(node, key) ==
    LET i == IF IsLeaf(node) THEN UpTo(node.entries, key)
             ELSE UpTo(node.entries, key - 1)
    IN  IF i = 0 THEN None
        ELSE IF IsLeaf(node)
        THEN IF node.entries[i].key = key THEN node.entries[i].val ELSE None
        ELSE FindBefore(node.entries[i].val, key)

\* Prolly::get: descend by separators; a key before the first one is absent.
RECURSIVE Find(_, _)
Find(node, key) ==
    LET i == UpTo(node.entries, key)
    IN  IF i = 0 THEN None
        ELSE IF IsLeaf(node)
        THEN IF node.entries[i].key = key THEN node.entries[i].val ELSE None
        ELSE Find(node.entries[i].val, key)

Get(tree, key) == IF tree = None THEN None ELSE Find(tree, key)
=============================================================================
