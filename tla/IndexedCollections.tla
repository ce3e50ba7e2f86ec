------------------------- MODULE IndexedCollections -------------------------
(***************************************************************************)
(* Secondary indexes (prolly/secondary_index): IndexedMap handles over one *)
(* collection.  The whole collection - head, retained snapshots, index     *)
(* descriptors, active selections, pins - is one immutable state tree      *)
(* behind one named root.  Every operation loads that root, builds a       *)
(* candidate state from what it loaded and installs it with one strict     *)
(* transaction that compares the root with the loaded tree; on a conflict  *)
(* most operations start over, a bounded number of times.  The transaction *)
(* itself is the subject of module Transactions and is one step here.      *)
(*                                                                         *)
(* Trees are content addressed, so a tree is what it holds: a source is a  *)
(* function from keys to values, an index a function from terms and keys   *)
(* to projections.  A snapshot's id is the hash of its record, parent id   *)
(* included, so a record stands for its id.                                *)
(***************************************************************************)
EXTENDS Integers, FiniteSets, Sequences

CONSTANTS
    Clients,      \* IndexedMap handles
    Keys,         \* primary keys
    Values,       \* source values
    Terms,        \* index terms
    Projections,  \* projected index values
    Names,        \* index names
    Definitions,  \* SecondaryIndex definitions; one stands for its fingerprint
    NameOf,       \* NameOf[d]: the index name d defines
    Generation,   \* Generation[d]: its generation
    Emits,        \* Emits[d][k][v][t]: what d's extractor projects, or None
    Registry,     \* Registry[c]: the definitions in c's registry, by name
    Historical,   \* Historical[c]: the registry's historical definitions
    Batches,      \* mutation lists: sequences of <<key, value or None>>
    PinIds,       \* durable pin ids
    Kinds,        \* the operations callers use
    None,         \* Option::None
    MaxActive, MaxRetained, MaxDescriptors, MaxPins,  \* CollectionIndexPolicy
    MaxAttempts,  \* max_cas_attempts of the budgets
    MaxCalls      \* bound: operations called

AllKinds == {"ensure", "apply", "apply_if", "replace", "deactivate", "pin",
             "release", "keep_last", "repair", "restore", "remove", "rebuild"}

Source == [Keys -> Values \cup {None}]
Entries == [Terms \X Keys -> Projections \cup {None}]
Index == [definition : Definitions, tree : Entries, count : Nat]

ASSUME DefinitionsAssumption ==
    /\ NameOf \in [Definitions -> Names]
    /\ Generation \in [Definitions -> Nat]
    /\ Emits \in [Definitions ->
                    [Keys -> [Values -> [Terms -> Projections \cup {None}]]]]
    /\ Registry \in [Clients -> [Names -> Definitions \cup {None}]]
    /\ \A c \in Clients, n \in Names :
          Registry[c][n] # None => NameOf[Registry[c][n]] = n
    /\ Historical \in [Clients -> SUBSET Definitions]
ASSUME DataAssumption ==
    /\ None \notin Values \cup Projections \cup Definitions
    /\ None \notin Index
    /\ Batches \subseteq Seq(Keys \X (Values \cup {None}))
    /\ Kinds \subseteq AllKinds
    /\ IsFiniteSet(Keys) /\ IsFiniteSet(Terms)
ASSUME PolicyAssumption ==
    /\ MaxActive \in Nat \ {0} /\ MaxRetained \in Nat \ {0}
    /\ MaxDescriptors \in Nat \ {0} /\ MaxPins \in Nat \ {0}
    /\ MaxAttempts \in Nat \ {0} /\ MaxCalls \in Nat

VARIABLES
    root,       \* the collection's state behind its named root, or None
    pc,         \* the next step of each client
    request,    \* the operation each client performs
    loaded,     \* the state the operation loaded
    attempts,   \* publications the operation has tried
    overrides,  \* each handle's runtime_overrides
    calls       \* operations called so far

vars == <<root, pc, request, loaded, attempts, overrides, calls>>

-----------------------------------------------------------------------------
(* Index contents. *)

\* projected_entries: what definition d stores for key k holding value v.
Projected(d, k, v) ==
    IF v = None THEN [t \in Terms |-> None] ELSE Emits[d][k][v]

\* build_index_tree: the index rebuilt from a whole source.
Build(d, source) ==
    [e \in Terms \X Keys |-> Projected(d, e[2], source[e[2]])[e[1]]]

Present(map) == {x \in DOMAIN map : map[x] # None}

\* normalize_mutations: the last mutation of a key wins.
Touched(batch) == {batch[i][1] : i \in DOMAIN batch}
Last(batch, k) ==
    LET own == {i \in DOMAIN batch : batch[i][1] = k}
    IN  batch[CHOOSE i \in own : \A j \in own : j <= i][2]

\* The source after the normalized batch.
Mutated(source, batch) ==
    [k \in Keys |-> IF k \in Touched(batch) THEN Last(batch, k) ELSE source[k]]

\* Mutant: the entries of the old value stay.
DeletedNever(d, source, batch) == {}

\* The physical deletes and upserts one index receives, and the upserts of new
\* physical keys.
Deleted(d, source, batch) ==
    {e \in Terms \X Touched(batch) :
        /\ Projected(d, e[2], source[e[2]])[e[1]] # None
        /\ Projected(d, e[2], Last(batch, e[2]))[e[1]] = None}
Upserted(d, source, batch) ==
    {e \in Terms \X Touched(batch) :
        /\ Projected(d, e[2], Last(batch, e[2]))[e[1]] # None
        /\ Projected(d, e[2], Last(batch, e[2]))[e[1]]
              # Projected(d, e[2], source[e[2]])[e[1]]}

\* Mutant: an upsert that only changes the projection counts as a new entry.
AddedByUpsert(d, source, batch) == Upserted(d, source, batch)

Added(d, source, batch) ==
    {e \in Upserted(d, source, batch) :
        Projected(d, e[2], source[e[2]])[e[1]] = None}

\* The incremental maintenance of one index.
Maintained(index, source, batch) ==
    LET d == index.definition
    IN  [definition |-> d,
         tree |-> [e \in Terms \X Keys |->
                      CASE e \in Upserted(d, source, batch) ->
                                Projected(d, e[2], Last(batch, e[2]))[e[1]]
                        [] e \in Deleted(d, source, batch) -> None
                        [] OTHER -> index.tree[e]],
         count |-> index.count + Cardinality(Added(d, source, batch))
                               - Cardinality(Deleted(d, source, batch))]

\* The entry count of the source after the batch.
SourceCount(count, source, batch) ==
    count
    + Cardinality({k \in Touched(batch) :
                      source[k] = None /\ Last(batch, k) # None})
    - Cardinality({k \in Touched(batch) :
                      source[k] # None /\ Last(batch, k) = None})

\* A newly built index.
Built(d, source) ==
    [definition |-> d, tree |-> Build(d, source),
     count |-> Cardinality(Present(Build(d, source)))]

-----------------------------------------------------------------------------
(* The collection state. *)

Empty == [parent |-> None, source |-> [k \in Keys |-> None], count |-> 0,
          indexes |-> [n \in Names |-> None]]

\* IndexedCollectionState::new
InitialState ==
    [head |-> Empty, snapshots |-> {Empty}, descriptors |-> {},
     active |-> [n \in Names |-> None], retired |-> {},
     pins |-> [p \in PinIds |-> None]]

\* The i-th ancestor of the head, for as long as the ones before are retained.
Walk(st) ==
    LET up[i \in Nat] ==
            IF i = 0 THEN st.head
            ELSE IF up[i - 1] \in st.snapshots THEN up[i - 1].parent
            ELSE None
    IN  up

Depth(st) == 0 .. Cardinality(st.snapshots)

\* find_snapshot: the nearest ancestor of the head with this source, or any
\* retained snapshot with it.
Retains(st, source) == \E s \in st.snapshots : s.source = source
OnChain(st, source, i) ==
    Walk(st)[i] \in st.snapshots /\ Walk(st)[i].source = source
FindSnapshot(st, source) ==
    LET found == {i \in Depth(st) : OnChain(st, source, i)}
    IN  IF found # {} THEN Walk(st)[CHOOSE i \in found : \A j \in found : i <= j]
        ELSE CHOOSE s \in st.snapshots : s.source = source

Chosen(indexes) == {n \in Names : indexes[n] # None}
DefinitionsOf(indexes) == {indexes[n].definition : n \in Chosen(indexes)}
Referenced(snapshots) == UNION {DefinitionsOf(s.indexes) : s \in snapshots}
Pinned(st) == {st.pins[p] : p \in PinIds} \ {None}
Active(st) == {st.active[n] : n \in Names} \ {None}
Selection(indexes) ==
    [n \in Names |-> IF indexes[n] = None THEN None ELSE indexes[n].definition]

\* validate_closure, less its limits.
Closed(st) ==
    /\ st.head \in st.snapshots
    /\ Referenced(st.snapshots) \subseteq st.descriptors
    /\ Active(st) \subseteq st.descriptors
    /\ \A n \in Names : st.active[n] # None =>
          st.head.indexes[n] # None /\ st.head.indexes[n].definition = st.active[n]
    /\ Pinned(st) \subseteq st.snapshots

\* The limits validate_closure enforces.
WithinLimits(st) ==
    /\ Cardinality({n \in Names : st.active[n] # None}) <= MaxActive
    /\ Cardinality(st.snapshots) <= MaxRetained
    /\ Cardinality(st.descriptors) <= MaxDescriptors
    /\ Cardinality({p \in PinIds : st.pins[p] # None}) <= MaxPins

\* The pins, the head and its ancestors up to n, which enforce_policy_limits
\* collects one ancestor at a time until the limit or the end of the chain.
Kept(st, n) == Pinned(st) \cup {st.head} \cup ({Walk(st)[i] : i \in 1 .. n} \ {None})
Nearest(st) ==
    CHOOSE n \in Depth(st) :
        /\ Cardinality(Kept(st, n)) >= MaxRetained \/ Walk(st)[n + 1] = None
        /\ \A m \in 0 .. n - 1 :
              Cardinality(Kept(st, m)) < MaxRetained /\ Walk(st)[m + 1] # None

\* Only `keep` stays, with the descriptors it or the active set refers to.
Retain(st, keep) ==
    LET snapshots == st.snapshots \cap keep
        wanted == Referenced(snapshots) \cup Active(st)
    IN  [st EXCEPT !.snapshots = snapshots,
                   !.descriptors = @ \cap wanted,
                   !.retired = @ \cap wanted]

\* enforce_policy_limits
Limited(st) ==
    IF Cardinality(st.snapshots) <= MaxRetained THEN st
    ELSE Retain(st, Kept(st, Nearest(st)))

\* What publish accepts.
Publishable(st) ==
    /\ Cardinality(st.snapshots) > MaxRetained
          => Cardinality(Kept(st, 0)) <= MaxRetained
    /\ WithinLimits(Limited(st))
    /\ Closed(Limited(st))

-----------------------------------------------------------------------------
(* The candidate states of the operations. *)

\* A new head snapshot on top of the loaded one.
Advance(st, source, count, indexes) ==
    LET s == [parent |-> st.head, source |-> source, count |-> count,
              indexes |-> indexes]
    IN  [st EXCEPT !.head = s, !.snapshots = @ \cup {s}]

\* ensure_index: build and activate.
Ensured(st, d) ==
    LET head == st.head
        next == Advance(st, head.source, head.count,
                        [head.indexes EXCEPT ![NameOf[d]] = Built(d, head.source)])
    IN  [next EXCEPT !.descriptors = @ \cup {d}, !.active[NameOf[d]] = d]

\* apply_with_budget_internal
AppliedTo(st, batch) ==
    LET head == st.head
    IN  Advance(st, Mutated(head.source, batch),
                SourceCount(head.count, head.source, batch),
                [n \in Names |-> IF head.indexes[n] = None THEN None
                                 ELSE Maintained(head.indexes[n], head.source, batch)])

\* replace_index: the old definition is retired, the new one built.
Replaced(st, d) ==
    [Ensured(st, d) EXCEPT !.retired = @ \cup {st.active[NameOf[d]]}]

\* deactivate_index
Deactivated(st, n) ==
    LET head == st.head
        next == Advance(st, head.source, head.count,
                        [head.indexes EXCEPT ![n] = None])
    IN  [next EXCEPT !.active[n] = None, !.retired = @ \cup {st.active[n]}]

\* repair_index: the index of the head rebuilt.
Repaired(st, n) ==
    LET head == st.head
    IN  Advance(st, head.source, head.count,
                [head.indexes EXCEPT
                    ![n] = Built(head.indexes[n].definition, head.source)])

\* Mutant: the pins are not kept.
KeptLastUnpinned(st, n) ==
    LET snapshots == st.snapshots
                        \cap ({st.head} \cup {Walk(st)[i] : i \in 1 .. n - 1})
    IN  [st EXCEPT !.snapshots = snapshots,
                   !.descriptors = @ \cap Referenced(snapshots),
                   !.retired = @ \cap Referenced(snapshots)]

\* keep_last: the nearest ancestors of the head and every pin; only the
\* descriptors the kept snapshots refer to remain.
KeptLast(st, n) ==
    LET keep == {st.head} \cup {Walk(st)[i] : i \in 1 .. n - 1} \cup Pinned(st)
        snapshots == st.snapshots \cap keep
    IN  [st EXCEPT !.snapshots = snapshots,
                   !.descriptors = @ \cap Referenced(snapshots),
                   !.retired = @ \cap Referenced(snapshots)]

\* Mutant: an index the restored snapshot has, and the head lacked, stays
\* inactive.
RestoredInactive(st, s) ==
    [st EXCEPT !.head = s,
               !.active = [n \in Names |-> IF st.active[n] = None THEN None
                                           ELSE Selection(s.indexes)[n]]]

\* prepare_restore_snapshot: an older snapshot becomes the head, with the
\* indexes it selects.
Restored(st, s) ==
    LET selected == Selection(s.indexes)
    IN  [st EXCEPT !.head = s, !.active = selected,
                   !.retired = (@ \cup {st.active[n] : n \in {m \in Names :
                                   st.active[m] # None /\ selected[m] # st.active[m]}})
                               \ DefinitionsOf(s.indexes)]

\* prepare_remove_snapshot_ids, for one snapshot.
Removed(st, s) == Retain(st, st.snapshots \ {s})

\* prepare_rebuild_from_source_at: a source from elsewhere, with every index of
\* a registry built from it and no other active.
Rebuilt(st, source, registry) ==
    LET indexes == [n \in Names |-> IF registry[n] = None THEN None
                                    ELSE Built(registry[n], source)]
        next == Advance(st, source, Cardinality(Present(source)), indexes)
    IN  [next EXCEPT !.active = registry,
                     !.descriptors = @ \cup DefinitionsOf(indexes),
                     !.retired = (@ \cup Active(st)) \ DefinitionsOf(indexes)]

-----------------------------------------------------------------------------
(* One call: what it asks for, when it returns at once, what it publishes. *)

\* runtime_definition: a newest override of the name, or the registry's.
RuntimeDefinition(c, n) ==
    LET own == {d \in overrides[c] : NameOf[d] = n}
    IN  IF own = {} THEN {Registry[c][n]} \ {None}
        ELSE {d \in own : \A e \in own : Generation[e] <= Generation[d]}

\* runtime_definition_for_descriptor
Runnable(c) ==
    overrides[c] \cup Historical[c] \cup ({Registry[c][n] : n \in Names} \ {None})

\* A request.  The snapshot or source a caller names is one it has just read.
NoRequest ==
    [kind |-> "none", name |-> None, definition |-> None, batch |-> <<>>,
     pin |-> None, count |-> 0, expected |-> None, target |-> None]

Named(kind, n) == [NoRequest EXCEPT !.kind = kind, !.name = n]

\* The requests a client can make of the collection in state st.
Changes(c) ==
    {[Named("ensure", NameOf[d]) EXCEPT !.definition = d] :
        d \in UNION {RuntimeDefinition(c, n) : n \in Names}}
    \cup {[Named("replace", NameOf[d]) EXCEPT !.definition = d] : d \in Definitions}
    \cup {Named("deactivate", n) : n \in Names}
    \cup {[NoRequest EXCEPT !.kind = "apply", !.batch = b] : b \in Batches}
    \cup {[NoRequest EXCEPT !.kind = "release", !.pin = p] : p \in PinIds}
    \cup {[NoRequest EXCEPT !.kind = "keep_last", !.count = 1]}
Pinnings(st) ==
    UNION {{[NoRequest EXCEPT !.kind = "pin", !.pin = p, !.target = s.source] :
               p \in PinIds} : s \in st.snapshots}
Observed(st) ==
    {[Named("repair", n) EXCEPT !.target = st.head.source] : n \in Names}
    \cup {[NoRequest EXCEPT !.kind = "apply_if", !.batch = b,
                            !.expected = st.head.source] : b \in Batches}
    \cup {[NoRequest EXCEPT !.kind = "restore", !.expected = st.head,
                            !.target = s] : s \in st.snapshots}
    \cup {[NoRequest EXCEPT !.kind = "remove", !.target = s] : s \in st.snapshots}
    \cup {[NoRequest EXCEPT !.kind = "rebuild", !.expected = st.head,
                            !.target = s.source] : s \in st.snapshots}
Requests(c, st) == {r \in Changes(c) \cup Observed(st) \cup Pinnings(st) : r.kind \in Kinds}

\* The early returns of each operation, success and error alike.
Returns(c, r, st) ==
    CASE r.kind = "ensure" ->
              \/ st.active[r.name] # None
              \/ Cardinality({n \in Names : st.active[n] # None}) >= MaxActive
      [] r.kind \in {"apply", "apply_if"} ->
              \/ r.kind = "apply_if" /\ st.head.source # r.expected
              \/ Mutated(st.head.source, r.batch) = st.head.source
              \/ ~(DefinitionsOf(st.head.indexes) \subseteq Runnable(c))
      [] r.kind = "replace" ->
              \/ st.active[r.name] = None
              \/ Generation[r.definition] <= Generation[st.active[r.name]]
      [] r.kind = "deactivate" -> st.active[r.name] = None
      [] r.kind = "pin" ->
              \/ ~Retains(st, r.target)
              \/ st.pins[r.pin] = FindSnapshot(st, r.target)
      [] r.kind = "release" -> st.pins[r.pin] = None
      [] r.kind = "keep_last" -> FALSE
      [] r.kind = "repair" ->
              \/ ~Retains(st, r.target)
              \/ FindSnapshot(st, r.target) # st.head
              \/ st.head.indexes[r.name] = None
              \/ st.head.indexes[r.name].definition \notin Runnable(c)
              \/ st.head.indexes[r.name].tree
                    = Build(st.head.indexes[r.name].definition, st.head.source)
      [] r.kind = "restore" ->
              \/ st.head # r.expected
              \/ r.target \notin st.snapshots
              \/ r.target = st.head
      [] r.kind = "remove" ->
              \/ r.target = st.head
              \/ r.target \notin st.snapshots
              \/ r.target \in Pinned(st)
      [] r.kind = "rebuild" ->
              \/ st.head # r.expected
              \/ Cardinality({n \in Names : Registry[c][n] # None}) > MaxActive

Candidate(c, r, st) ==
    CASE r.kind = "ensure" -> Ensured(st, r.definition)
      [] r.kind \in {"apply", "apply_if"} -> AppliedTo(st, r.batch)
      [] r.kind = "replace" -> Replaced(st, r.definition)
      [] r.kind = "deactivate" -> Deactivated(st, r.name)
      [] r.kind = "pin" ->
              [st EXCEPT !.pins[r.pin] = FindSnapshot(st, r.target)]
      [] r.kind = "release" -> [st EXCEPT !.pins[r.pin] = None]
      [] r.kind = "keep_last" -> KeptLast(st, r.count)
      [] r.kind = "repair" -> Repaired(st, r.name)
      [] r.kind = "restore" -> Restored(st, r.target)
      [] r.kind = "remove" -> Removed(st, r.target)
      [] r.kind = "rebuild" -> Rebuilt(st, r.target, Registry[c])

\* keep_last and the prepared operations publish once; the others retry.
Tries(r) ==
    IF r.kind \in {"keep_last", "restore", "remove", "rebuild"} THEN 1
    ELSE MaxAttempts

-----------------------------------------------------------------------------
Init ==
    /\ root = None
    /\ pc = [c \in Clients |-> "new"]
    /\ request = [c \in Clients |-> NoRequest]
    /\ loaded = [c \in Clients |-> None]
    /\ attempts = [c \in Clients |-> 0]
    /\ overrides = [c \in Clients |-> {}]
    /\ calls = 0

Goto(c, label) == pc' = [pc EXCEPT ![c] = label]

\* The call of client c ends.
Finish(c) ==
    /\ Goto(c, "idle")
    /\ request' = [request EXCEPT ![c] = NoRequest]
    /\ loaded' = [loaded EXCEPT ![c] = None]
    /\ attempts' = [attempts EXCEPT ![c] = 0]

\* IndexedMap::open: initialize_or_load finds the root, or no root.
Open(c) ==
    /\ pc[c] = "new"
    /\ Goto(c, IF root = None THEN "create" ELSE "idle")
    /\ UNCHANGED <<root, request, loaded, attempts, overrides, calls>>

\* Its CAS of the initial state; losing it, the other opener's state is used.
Create(c) ==
    /\ pc[c] = "create"
    /\ root' = IF root = None THEN InitialState ELSE root
    /\ Goto(c, "idle")
    /\ UNCHANGED <<request, loaded, attempts, overrides, calls>>

Call(c) ==
    /\ pc[c] = "idle"
    /\ calls < MaxCalls
    /\ \E r \in Requests(c, root) : request' = [request EXCEPT ![c] = r]
    /\ calls' = calls + 1
    /\ Goto(c, "load")
    /\ UNCHANGED <<root, loaded, attempts, overrides>>

\* load_state, then everything up to the publication: the rest is computed
\* from the loaded immutable state.
Load(c) ==
    /\ pc[c] = "load"
    /\ IF \/ Returns(c, request[c], root)
          \/ ~Publishable(Candidate(c, request[c], root))
       THEN Finish(c)
       ELSE /\ loaded' = [loaded EXCEPT ![c] = root]
            /\ Goto(c, "publish")
            /\ UNCHANGED <<request, attempts>>
    /\ UNCHANGED <<root, overrides, calls>>

\* Mutants: the root is compared by the source it holds; it is not compared.
PublishOnSource(c) ==
    /\ pc[c] = "publish"
    /\ root.head.source = loaded[c].head.source
    /\ root' = Limited(Candidate(c, request[c], loaded[c]))
    /\ Finish(c)
    /\ UNCHANGED <<overrides, calls>>

PublishBlind(c) ==
    /\ pc[c] = "publish"
    /\ root' = Limited(Candidate(c, request[c], loaded[c]))
    /\ Finish(c)
    /\ UNCHANGED <<overrides, calls>>

\* commit_collection_root: the transaction compares the root with the loaded
\* tree.
Publish(c) ==
    /\ pc[c] = "publish"
    /\ root = loaded[c]
    /\ root' = Limited(Candidate(c, request[c], loaded[c]))
    /\ overrides' = IF request[c].kind = "replace"
                    THEN [overrides EXCEPT ![c] = @ \cup {request[c].definition}]
                    ELSE overrides
    /\ Finish(c)
    /\ UNCHANGED calls

\* Mutant: one attempt too many.
ConflictOnceMore(c) ==
    /\ pc[c] = "publish"
    /\ root # loaded[c]
    /\ IF attempts[c] < Tries(request[c])
       THEN /\ attempts' = [attempts EXCEPT ![c] = @ + 1]
            /\ loaded' = [loaded EXCEPT ![c] = None]
            /\ Goto(c, "load")
            /\ UNCHANGED request
       ELSE Finish(c)
    /\ UNCHANGED <<root, overrides, calls>>

\* A conflict: try again, or give up.
Conflict(c) ==
    /\ pc[c] = "publish"
    /\ root # loaded[c]
    /\ IF attempts[c] + 1 < Tries(request[c])
       THEN /\ attempts' = [attempts EXCEPT ![c] = @ + 1]
            /\ loaded' = [loaded EXCEPT ![c] = None]
            /\ Goto(c, "load")
            /\ UNCHANGED request
       ELSE Finish(c)
    /\ UNCHANGED <<root, overrides, calls>>

ClientStep(c) == Open(c) \/ Create(c) \/ Load(c) \/ Publish(c) \/ Conflict(c)
Next == \E c \in Clients : ClientStep(c) \/ Call(c)

Spec == Init /\ [][Next]_vars

-----------------------------------------------------------------------------
(* Properties. *)

TypeOK ==
    /\ root = None \/ root.head.source \in Source
    /\ pc \in [Clients -> {"new", "create", "idle", "load", "publish"}]
    /\ overrides \in [Clients -> SUBSET Definitions]
    /\ attempts \in [Clients -> 0 .. MaxAttempts - 1]
    /\ calls \in 0 .. MaxCalls

\* Every index of every retained snapshot holds exactly what a rebuild from
\* the snapshot's own source holds, however the operations of the handles
\* interleave: the incremental maintenance of apply_with_budget_internal, and
\* the builds of ensure_index and replace_index, which read a source that may
\* have moved on before they publish.
IndexesMatchSource ==
    root # None =>
        \A s \in root.snapshots : \A n \in Chosen(s.indexes) :
            /\ NameOf[s.indexes[n].definition] = n
            /\ s.indexes[n].tree = Build(s.indexes[n].definition, s.source)

\* The entry counts carried from snapshot to snapshot by signed deltas
\* (apply_entry_count_delta) are the numbers of entries the trees hold.
CountsExact ==
    root # None =>
        \A s \in root.snapshots :
            /\ s.count = Cardinality(Present(s.source))
            /\ \A n \in Chosen(s.indexes) :
                  s.indexes[n].count = Cardinality(Present(s.indexes[n].tree))

\* No operation builds a candidate that validate_closure would refuse: a
\* publication fails for a limit of the policy or for a conflict, never
\* because the pruning of keep_last, remove, restore or enforce_policy_limits
\* dropped a descriptor, a pinned snapshot or the head.
CandidatesClosed ==
    \A c \in Clients :
        pc[c] = "load" /\ ~Returns(c, request[c], root) =>
            LET st == Candidate(c, request[c], root)
            IN  Closed(st) /\ Closed(Limited(st))

\* The indexes of the head are exactly the active ones, so an update maintains
\* every active index and no other.
ActiveIsSelected ==
    root # None => root.active = Selection(root.head.indexes)

\* A pin names the same snapshot until a call of that pin moves or releases it:
\* no update, retention or limit that another handle publishes from the state it
\* loaded earlier drops it or brings an older one back (commit_collection_root).
\* That the snapshot itself stays is part of CandidatesClosed.
PinsHeld ==
    [][root # None =>
        \A p \in PinIds :
            root.pins[p] # None /\ root'.pins[p] # root.pins[p] =>
                \E c \in Clients : /\ pc[c] = "publish" /\ pc'[c] = "idle"
                                   /\ request[c].kind \in {"pin", "release"}
                                   /\ request[c].pin = p]_vars

\* No published update is lost: a new head has the head it replaces as its
\* parent, unless a restore chose a retained snapshot; and a conditional update
\* replaces the very source its caller named.
UpdatesChain ==
    [][root # None /\ root'.head # root.head =>
        \E c \in Clients :
            /\ pc[c] = "publish"
            /\ \/ root'.head.parent = root.head
               \/ request[c].kind = "restore" /\ root'.head \in root.snapshots
            /\ request[c].kind = "apply_if" =>
                  root.head.source = request[c].expected
      ]_vars

\* retained_snapshot_for_source, which IndexedMap::snapshot_at uses: the walk
\* from the head must reach a snapshot with this source before the ancestry
\* ends.
SnapshotAt(st, source) == \E i \in Depth(st) : OnChain(st, source, i)

\* A durable pin protects history: the pinned snapshot can be reopened by its
\* source version for as long as the pin is held.
PinnedReadable ==
    root # None => \A s \in Pinned(root) : SnapshotAt(root, s.source)
=============================================================================
