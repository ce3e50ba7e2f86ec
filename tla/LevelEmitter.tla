----------------------------- MODULE LevelEmitter -----------------------------
(***************************************************************************)
(* One level of a tree: src/prolly/boundary.rs and the LevelEmitter of     *)
(* src/prolly/builder/streaming.rs.                                        *)
(*                                                                         *)
(* The entries of a level stream through an emitter that closes a chunk,   *)
(* and with it a node, where the boundary detector says so, or where the   *)
(* next entry would overflow the byte cap.                                 *)
(***************************************************************************)
EXTENDS Integers, Sequences, FiniteSetsExt

CONSTANTS
    None,                   \* no tree, no value, no result
    Formats,                \* the persisted formats (TreeFormat) explored
    KeyCut(_, _, _),        \* (seed, level, key): a key-only threshold rule hits
    PairCut(_, _, _, _),    \* (seed, level, key, value): a key/value one hits
    ChunkCut(_, _, _),      \* (seed, level, chunk): a rule over the chunk hits
    Bytes(_)                \* the size of an entry

ASSUME FormatsTyped ==
    \A f \in Formats :
        /\ f.measure \in {"entries", "bytes"}
        /\ f.input \in {"key", "pair"}
        /\ f.rule \in {"threshold", "chunk"}
        /\ 0 < f.min /\ f.min <= f.max
        /\ f.cap > 0

-----------------------------------------------------------------------------
(* Entries and nodes *)

Pair(k, v) == [key |-> k, val |-> v, count |-> 1]

\* A set of entries, in key order.
Sorted(entries) ==
    [i \in 1..Cardinality(entries) |->
        CHOOSE e \in entries : Cardinality({d \in entries : d.key < e.key}) = i - 1]

Node(level, entries) == [level |-> level, entries |-> entries]

FirstKey(node) == node.entries[1].key

\* The bytes of each prefix of a chunk.
Sizes(chunk) ==
    LET upTo[i \in 0 .. Len(chunk)] == IF i = 0 THEN 0 ELSE upTo[i - 1] + Bytes(chunk[i])
    IN  upTo

Size(chunk) == Sizes(chunk)[Len(chunk)]

-----------------------------------------------------------------------------
(* The boundary detector *)

\* An internal node holds at least two children, whatever the format says.
Lower(f, level) == IF level > 0 /\ f.min < 2 THEN 2 ELSE f.min
Upper(f, level) == IF level > 0 /\ f.min < 2 /\ f.max < 2 THEN 2 ELSE f.max

Measure(f, chunk) == IF f.measure = "entries" THEN Len(chunk) ELSE Size(chunk)

\* The verdict of the format's rule on the last entry of a chunk.  The value of
\* an internal entry is the identifier of the child.
Cut(f, level, chunk) ==
    LET e == chunk[Len(chunk)]
    IN  CASE f.rule = "chunk" -> ChunkCut(f.seed, level, chunk)
          [] f.rule = "threshold" /\ f.input = "key" -> KeyCut(f.seed, level, e.key)
          [] OTHER -> PairCut(f.seed, level, e.key, e.val)

\* BoundaryDetector::observe: the chunk ends after its last entry.
Closes(f, level, chunk) ==
    LET m == Measure(f, chunk)
    IN  \/ m >= Upper(f, level)
        \/ m >= Lower(f, level) /\ Cut(f, level, chunk)

\* The probe of the point paths for one entry at position `count` of a chunk;
\* it knows threshold rules on keys only.
CountBoundary(f, level, count, key) ==
    count >= f.max \/ (count >= f.min /\ KeyCut(f.seed, level, key))

-----------------------------------------------------------------------------
(* The emitter of one level *)

Fresh == [done |-> <<>>, open |-> <<>>]

\* The emitter with `chunk` open, after the detector saw its last entry.
Observed(f, level, done, chunk) ==
    IF Closes(f, level, chunk)
    THEN [done |-> Append(done, Node(level, chunk)), open |-> <<>>]
    ELSE [done |-> done, open |-> chunk]

\* LevelEmitter::push_entry_with: an entry that does not fit the byte cap first
\* flushes the open chunk; the entry may then close the chunk it is in.
Push(f, level, em, e) ==
    IF em.open # <<>> /\ Size(Append(em.open, e)) > f.cap
    THEN Observed(f, level, Append(em.done, Node(level, em.open)), <<e>>)
    ELSE Observed(f, level, em.done, Append(em.open, e))

\* The emitter after each prefix of the entries.
Pushes(f, level, em, entries) ==
    LET after[i \in 0 .. Len(entries)] ==
            IF i = 0 THEN em ELSE Push(f, level, after[i - 1], entries[i])
    IN  after

PushAll(f, level, em, entries) == Pushes(f, level, em, entries)[Len(entries)]

Flush(level, em) ==
    IF em.open = <<>> THEN em.done ELSE Append(em.done, Node(level, em.open))

\* The nodes of one level.
Level(f, level, entries) == Flush(level, PushAll(f, level, Fresh, entries))
=============================================================================
