---------------------- MODULE IndexedCollectionsProofs ----------------------
(***************************************************************************)
(* What TLAPS proves about IndexedCollections, for every set of handles,   *)
(* keys, values, index definitions, extractors and mutation lists.         *)
(***************************************************************************)
EXTENDS IndexedCollections, FiniteSetTheorems, WellFoundedInduction, TLAPS

\* Zenon is tried on every leaf; the leaves that need arithmetic or the extensionality
\* of functions and records cite SMT.
USE Zenon

-----------------------------------------------------------------------------
(* Index contents. *)

\* Every non-empty set of naturals has a least element.
LEMMA Least ==
    ASSUME NEW S \in SUBSET Nat, S # {}
    PROVE  \E n \in S : \A m \in S : n <= m
<1> DEFINE R == OpToRel(<, Nat)
<1>1. IsWellFoundedOn(R, Nat)
  BY NatLessThanWellFounded
<1>2. \A m, n \in Nat : m < n => <<m, n>> \in R
  BY DEF OpToRel
<1> HIDE DEF R
<1>3. PICK n \in S : \A m \in S : ~(<<m, n>> \in R)
  BY <1>1, WFMin
<1>4. \A m \in S : ~(m < n)
  BY <1>2, <1>3
<1>5. \A m \in S : n <= m
  BY <1>4, SMT
<1> QED
  BY <1>5

LEMMA LastTyped ==
    ASSUME NEW batch \in Seq(Keys \X (Values \cup {None})),
           NEW k \in Touched(batch)
    PROVE  k \in Keys /\ Last(batch, k) \in Values \cup {None}
<1> DEFINE own == {i \in DOMAIN batch : batch[i][1] = k}
           gaps == {Len(batch) - i : i \in own}
<1>1. DOMAIN batch = 1 .. Len(batch) /\ Len(batch) \in Nat
  BY SMT
<1>2. own # {}
  BY DEF Touched
<1>3. gaps \in SUBSET Nat /\ gaps # {}
  BY <1>1, <1>2, SMT
<1> HIDE DEF gaps
<1>4. PICK g \in gaps : \A h \in gaps : g <= h
  BY <1>3, Least
<1> USE DEF gaps
<1>5. PICK i \in own : g = Len(batch) - i
  BY <1>4
<1>6. ASSUME NEW j \in own PROVE j <= i
  <2>1. Len(batch) - j \in gaps
    OBVIOUS
  <2>2. g <= Len(batch) - j
    BY <1>4, <2>1
  <2>3. i \in Nat /\ j \in Nat
    BY <1>1, <1>5, SMT
  <2> QED
    BY <1>1, <1>5, <2>2, <2>3, SMT
<1>7. \E m \in own : \A j \in own : j <= m
  BY <1>5, <1>6
<1>8. (CHOOSE m \in own : \A j \in own : j <= m) \in own
  BY <1>7
<1>9. \A m \in own : batch[m] \in Keys \X (Values \cup {None})
  BY <1>1, SMT
<1>10. batch[CHOOSE m \in own : \A j \in own : j <= m][2] \in Values \cup {None}
  BY <1>8, <1>9, SMT
<1>11. Last(batch, k) = batch[CHOOSE m \in own : \A j \in own : j <= m][2]
  BY DEF Last
<1>12. k \in Keys
  BY <1>5, <1>9
<1> QED
  BY <1>10, <1>11, <1>12

LEMMA MutatedTyped ==
    ASSUME NEW source \in Source, NEW batch \in Seq(Keys \X (Values \cup {None}))
    PROVE  Mutated(source, batch) \in Source
BY LastTyped DEF Mutated, Source

LEMMA ProjectedTyped ==
    ASSUME NEW d \in Definitions, NEW k \in Keys, NEW v \in Values \cup {None}
    PROVE  Projected(d, k, v) \in [Terms -> Projections \cup {None}]
BY DefinitionsAssumption, SMT DEF Projected

LEMMA BuildTyped ==
    ASSUME NEW d \in Definitions, NEW source \in Source
    PROVE  Build(d, source) \in Entries
BY ProjectedTyped, SMT DEF Build, Entries, Source

LEMMA PresentFinite ==
    /\ \A source \in Source :
          IsFiniteSet(Present(source)) /\ Cardinality(Present(source)) \in Nat
    /\ \A tree \in Entries :
          IsFiniteSet(Present(tree)) /\ Cardinality(Present(tree)) \in Nat
<1>1. IsFiniteSet(Keys) /\ IsFiniteSet(Terms \X Keys)
  BY DataAssumption, FS_Product
<1>2. \A source \in Source : Present(source) \subseteq Keys
  BY DEF Present, Source
<1>3. \A tree \in Entries : Present(tree) \subseteq Terms \X Keys
  BY DEF Present, Entries
<1> QED
  BY <1>1, <1>2, <1>3, FS_Subset, FS_CardinalityType

\* What the maintenance proofs know of a finite set that loses some of its
\* elements and gains others.
LEMMA CountDelta ==
    ASSUME NEW S, IsFiniteSet(S), NEW gone \in SUBSET S,
           NEW new, IsFiniteSet(new), new \cap S = {}
    PROVE  /\ Cardinality((S \ gone) \cup new)
                 = Cardinality(S) + Cardinality(new) - Cardinality(gone)
           /\ Cardinality(S) \in Nat /\ Cardinality(new) \in Nat
           /\ Cardinality(gone) \in Nat
<1>1. /\ IsFiniteSet(gone) /\ IsFiniteSet(S \ gone)
      /\ Cardinality(S \ gone) = Cardinality(S) - Cardinality(S \cap gone)
  BY FS_Difference, FS_Subset
<1>2. S \cap gone = gone
  OBVIOUS
<1>3. /\ (S \ gone) \cap new = {}
      /\ Cardinality((S \ gone) \cup new)
            = Cardinality(S \ gone) + Cardinality(new) - Cardinality((S \ gone) \cap new)
  BY <1>1, FS_Union
<1>4. Cardinality({}) = 0
  BY FS_EmptySet
<1>5. /\ Cardinality(S) \in Nat /\ Cardinality(new) \in Nat
      /\ Cardinality(gone) \in Nat /\ Cardinality(S \ gone) \in Nat
  BY <1>1, FS_CardinalityType
<1>6. Cardinality(S \ gone) = Cardinality(S) - Cardinality(gone)
  BY <1>1, <1>2
<1>7. Cardinality((S \ gone) \cap new) = 0
  BY <1>3, <1>4
<1>8. Cardinality((S \ gone) \cup new)
        = Cardinality(S \ gone) + Cardinality(new)
  BY <1>3, <1>5, <1>7, SMT
<1> QED
  BY <1>5, <1>6, <1>8, SMT

\* An index that holds what a rebuild from `source` would.
GoodIndex(index, n, source) ==
    /\ index \in Index
    /\ NameOf[index.definition] = n
    /\ index.tree = Build(index.definition, source)
    /\ index.count = Cardinality(Present(index.tree))

LEMMA BuiltGood ==
    ASSUME NEW d \in Definitions, NEW source \in Source
    PROVE  GoodIndex(Built(d, source), NameOf[d], source)
BY BuildTyped, PresentFinite DEF GoodIndex, Built, Index

\* apply_with_budget_internal: maintaining an index entry by entry gives the
\* index a rebuild from the mutated source gives.
LEMMA MaintainedIsBuilt ==
    ASSUME NEW n, NEW source \in Source, NEW index,
           GoodIndex(index, n, source),
           NEW batch \in Seq(Keys \X (Values \cup {None}))
    PROVE  Maintained(index, source, batch).tree
              = Build(index.definition, Mutated(source, batch))
<1> DEFINE d == index.definition
           after == Mutated(source, batch)
           old(e) == Projected(d, e[2], source[e[2]])[e[1]]
           new(e) == Projected(d, e[2], after[e[2]])[e[1]]
<1>1. d \in Definitions /\ index.tree = [e \in Terms \X Keys |-> old(e)]
  BY DEF GoodIndex, Build, Index
<1>2. \A e \in Terms \X Keys :
         IF e[2] \in Touched(batch) THEN after[e[2]] = Last(batch, e[2])
         ELSE new(e) = old(e)
  BY DEF Mutated
<1>3. \A e \in Terms \X Keys :
         /\ e \in Upserted(d, source, batch) <=>
               e[2] \in Touched(batch) /\ new(e) # None /\ new(e) # old(e)
         /\ e \in Deleted(d, source, batch) <=>
               e[2] \in Touched(batch) /\ new(e) = None /\ old(e) # None
  BY <1>2 DEF Upserted, Deleted
<1>4. \A e \in Terms \X Keys :
         (CASE e \in Upserted(d, source, batch) ->
                   Projected(d, e[2], Last(batch, e[2]))[e[1]]
            [] e \in Deleted(d, source, batch) -> None
            [] OTHER -> index.tree[e]) = new(e)
  BY <1>1, <1>2, <1>3
<1> QED
  BY <1>4 DEF Maintained, Build

LEMMA MaintainedGood ==
    ASSUME NEW n, NEW source \in Source, NEW index,
           GoodIndex(index, n, source),
           NEW batch \in Seq(Keys \X (Values \cup {None}))
    PROVE  GoodIndex(Maintained(index, source, batch), n, Mutated(source, batch))
<1> DEFINE d == index.definition
           after == Mutated(source, batch)
           kept == Maintained(index, source, batch)
           new == Added(d, source, batch)
           gone == Deleted(d, source, batch)
<1>1. d \in Definitions /\ after \in Source /\ index.tree \in Entries
  BY MutatedTyped DEF GoodIndex, Index
<1>2. kept.tree = Build(d, after) /\ kept.tree \in Entries /\ kept.definition = d
  <2>1. kept.tree = Build(d, after)
    BY MaintainedIsBuilt
  <2>2. kept.definition = d
    BY DEF Maintained
  <2> QED
    BY <1>1, <2>1, <2>2, BuildTyped
<1>3. IsFiniteSet(Present(index.tree))
  BY <1>1, PresentFinite
<1>4. \A e \in Terms \X Keys :
         /\ index.tree[e] = Projected(d, e[2], source[e[2]])[e[1]]
         /\ kept.tree[e] = Projected(d, e[2], after[e[2]])[e[1]]
  BY <1>2 DEF GoodIndex, Build
<1>5. \A e \in Terms \X Keys :
         IF e[2] \in Touched(batch) THEN after[e[2]] = Last(batch, e[2])
         ELSE after[e[2]] = source[e[2]]
  BY DEF Mutated
<1>6. Touched(batch) \subseteq Keys
  BY LastTyped
<1>7. /\ gone \subseteq Terms \X Keys /\ new \subseteq Terms \X Keys
      /\ \A e \in Terms \X Keys :
            /\ e \in gone <=> kept.tree[e] = None /\ index.tree[e] # None
            /\ e \in new <=> kept.tree[e] # None /\ index.tree[e] = None
  BY <1>4, <1>5, <1>6 DEF Added, Upserted, Deleted
<1>8. DOMAIN index.tree = Terms \X Keys /\ DOMAIN kept.tree = Terms \X Keys
  BY <1>1, <1>2 DEF Entries
<1> HIDE DEF gone, new, kept
<1>9. gone \in SUBSET Present(index.tree)
  BY <1>7, <1>8 DEF Present
<1>10. new \cap Present(index.tree) = {}
  BY <1>7, <1>8 DEF Present
<1>11. Present(kept.tree) = (Present(index.tree) \ gone) \cup new
  BY <1>7, <1>8 DEF Present
<1>12. IsFiniteSet(new)
  BY <1>2, <1>11, PresentFinite, FS_Subset
<1>13. /\ Cardinality(Present(kept.tree))
             = Cardinality(Present(index.tree)) + Cardinality(new) - Cardinality(gone)
       /\ Cardinality(Present(kept.tree)) \in Nat
  BY <1>2, <1>3, <1>9, <1>10, <1>11, <1>12, CountDelta, PresentFinite, ZenonT(60)
<1>14. kept = [definition |-> d, tree |-> kept.tree,
               count |-> index.count + Cardinality(new) - Cardinality(gone)]
  BY DEF kept, new, gone, Maintained
<1>15. index.count = Cardinality(Present(index.tree)) /\ NameOf[d] = n
  BY DEF GoodIndex
<1> QED
  <2>1. kept.count = Cardinality(Present(kept.tree)) /\ kept.count \in Nat
    BY <1>13, <1>14, <1>15, SMT
  <2>2. kept \in Index
    BY <1>1, <1>2, <1>14, <2>1 DEF Index
  <2>3. GoodIndex(kept, n, after)
    BY <1>2, <1>15, <2>1, <2>2 DEF GoodIndex
  <2> QED
    BY <2>3 DEF kept

LEMMA SourceCountExact ==
    ASSUME NEW source \in Source, NEW batch \in Seq(Keys \X (Values \cup {None}))
    PROVE  SourceCount(Cardinality(Present(source)), source, batch)
              = Cardinality(Present(Mutated(source, batch)))
<1> DEFINE after == Mutated(source, batch)
           new == {k \in Touched(batch) : source[k] = None /\ Last(batch, k) # None}
           gone == {k \in Touched(batch) : source[k] # None /\ Last(batch, k) = None}
<1>1. after \in Source /\ Touched(batch) \subseteq Keys
  BY MutatedTyped, LastTyped
<1>2. DOMAIN source = Keys /\ DOMAIN after = Keys
  BY <1>1 DEF Source
<1>3. \A k \in Keys : after[k] = IF k \in Touched(batch) THEN Last(batch, k)
                                 ELSE source[k]
  BY DEF Mutated
<1>4. gone \in SUBSET Present(source) /\ new \cap Present(source) = {}
  BY <1>1, <1>2 DEF Present
<1>5. Present(after) = (Present(source) \ gone) \cup new
  BY <1>1, <1>2, <1>3, SMT DEF Present
<1>6. IsFiniteSet(Present(source)) /\ IsFiniteSet(new)
  BY <1>1, <1>5, PresentFinite, FS_Subset
<1> HIDE DEF new, gone, after
<1>7. Cardinality(Present(after))
        = Cardinality(Present(source)) + Cardinality(new) - Cardinality(gone)
  BY <1>4, <1>5, <1>6, CountDelta, SMTT(30)
<1> QED
  BY <1>7 DEF SourceCount, new, gone, after

-----------------------------------------------------------------------------
(* Collection states. *)

\* A snapshot whose indexes and counts are those of its own source.
GoodSnapshot(s) ==
    /\ s \in [parent : {s.parent}, source : Source, count : Nat,
              indexes : [Names -> Index \cup {None}]]
    /\ s.count = Cardinality(Present(s.source))
    /\ \A n \in Chosen(s.indexes) : GoodIndex(s.indexes[n], n, s.source)

StateShape(st) ==
    st \in [head : {st.head}, snapshots : {st.snapshots},
           descriptors : SUBSET Definitions,
           active : [Names -> Definitions \cup {None}],
           retired : SUBSET Definitions, pins : [PinIds -> {st.pins[p] : p \in PinIds}]]

\* The inductive invariant of a published state: every retained snapshot is
\* good, the references are closed, and the head selects the active indexes.
GoodState(st) ==
    /\ StateShape(st)
    /\ \A s \in st.snapshots : GoodSnapshot(s)
    /\ Closed(st)
    /\ st.active = Selection(st.head.indexes)

LEMMA SelectionFacts ==
    ASSUME NEW s, GoodSnapshot(s)
    PROVE  /\ Selection(s.indexes) \in [Names -> Definitions \cup {None}]
           /\ DefinitionsOf(s.indexes) \subseteq Definitions
           /\ \A n \in Names : Selection(s.indexes)[n] # None =>
                 /\ s.indexes[n] # None
                 /\ s.indexes[n].definition = Selection(s.indexes)[n]
           /\ {Selection(s.indexes)[n] : n \in Names} \ {None}
                 = DefinitionsOf(s.indexes)
<1>1. \A n \in Names : s.indexes[n] # None =>
         s.indexes[n] \in Index /\ s.indexes[n].definition \in Definitions
                               /\ s.indexes[n].definition # None
  BY DataAssumption DEF GoodSnapshot, Index
<1>2. Selection(s.indexes) \in [Names -> Definitions \cup {None}]
  BY <1>1 DEF Selection
<1>3. DefinitionsOf(s.indexes) \subseteq Definitions
  BY <1>1 DEF DefinitionsOf, Chosen
<1>4. \A n \in Names : Selection(s.indexes)[n] # None =>
         s.indexes[n] # None /\ s.indexes[n].definition = Selection(s.indexes)[n]
  BY DEF Selection
<1>5. {Selection(s.indexes)[n] : n \in Names} \ {None} = DefinitionsOf(s.indexes)
  BY <1>1 DEF Selection, DefinitionsOf, Chosen
<1> QED
  BY <1>2, <1>3, <1>4, <1>5

\* A good snapshot put on top of a good state.
LEMMA ExtendedGood ==
    ASSUME NEW st, GoodState(st), NEW new, StateShape(new),
           GoodSnapshot(new.head),
           new.snapshots = st.snapshots \cup {new.head},
           new.pins = st.pins,
           st.descriptors \cup DefinitionsOf(new.head.indexes) \subseteq new.descriptors,
           new.active = Selection(new.head.indexes)
    PROVE  GoodState(new)
<1>1. \A s \in new.snapshots : GoodSnapshot(s)
  BY DEF GoodState
<1>2. Referenced(new.snapshots) \subseteq new.descriptors
  BY DEF GoodState, Closed, Referenced
<1>3. Active(new) \subseteq new.descriptors
  <2>1. Active(new) = {Selection(new.head.indexes)[n] : n \in Names} \ {None}
    BY DEF Active
  <2>2. {Selection(new.head.indexes)[n] : n \in Names} \ {None}
          = DefinitionsOf(new.head.indexes)
    BY SelectionFacts
  <2> QED
    BY <2>1, <2>2
<1>4. \A n \in Names : new.active[n] # None =>
         new.head.indexes[n] # None /\ new.head.indexes[n].definition = new.active[n]
  BY SelectionFacts, SMT
<1>5. Pinned(new) \subseteq new.snapshots
  BY DEF GoodState, Closed, Pinned
<1> QED
  BY <1>1, <1>2, <1>3, <1>4, <1>5 DEF GoodState, Closed

\* Pruning keeps a good state good if the head and the pins stay, and the
\* descriptors their snapshots refer to.
LEMMA PrunedGood ==
    ASSUME NEW st, GoodState(st), NEW new, StateShape(new),
           new.head = st.head, new.pins = st.pins, new.active = st.active,
           new.snapshots \subseteq st.snapshots,
           st.head \in new.snapshots, Pinned(st) \subseteq new.snapshots,
           st.descriptors \cap Referenced(new.snapshots) \subseteq new.descriptors
    PROVE  GoodState(new)
<1>1. \A s \in new.snapshots : GoodSnapshot(s)
  BY DEF GoodState
<1>2. Referenced(new.snapshots) \subseteq new.descriptors
  BY DEF GoodState, Closed, Referenced
<1>3. Active(new) = DefinitionsOf(st.head.indexes)
  <2>1. st.active = Selection(st.head.indexes) /\ GoodSnapshot(st.head)
    BY DEF GoodState, Closed
  <2>2. Active(new) = {Selection(st.head.indexes)[n] : n \in Names} \ {None}
    BY <2>1 DEF Active
  <2> QED
    BY <2>1, <2>2, SelectionFacts
<1>4. Active(new) \subseteq new.descriptors
  BY <1>2, <1>3 DEF Referenced
<1>5. Pinned(new) \subseteq new.snapshots
  BY DEF Pinned
<1> QED
  BY <1>1, <1>2, <1>4, <1>5 DEF GoodState, Closed

LEMMA RetainGood ==
    ASSUME NEW st, GoodState(st), NEW keep, st.head \in keep, Pinned(st) \subseteq keep
    PROVE  GoodState(Retain(st, keep)) /\ Retain(st, keep).head = st.head
                                      /\ Retain(st, keep).pins = st.pins
<1> DEFINE new == Retain(st, keep)
<1>1. StateShape(st) /\ st.head \in st.snapshots /\ Pinned(st) \subseteq st.snapshots
  BY DEF GoodState, Closed
<1>2. /\ new.head = st.head /\ new.pins = st.pins /\ new.active = st.active
      /\ new.snapshots = st.snapshots \cap keep
      /\ new.descriptors = st.descriptors \cap
            (Referenced(new.snapshots) \cup Active(st))
      /\ new.retired \subseteq st.retired
  BY <1>1 DEF Retain, StateShape
<1>3. StateShape(new)
  BY <1>1 DEF Retain, StateShape
<1> HIDE DEF new
<1>4. GoodState(new)
  BY <1>1, <1>2, <1>3, PrunedGood
<1> QED
  BY <1>2, <1>4 DEF new

LEMMA LimitedGood ==
    ASSUME NEW st, GoodState(st)
    PROVE  GoodState(Limited(st)) /\ Limited(st).head = st.head
                                 /\ Limited(st).pins = st.pins
BY RetainGood DEF Limited, Kept

-----------------------------------------------------------------------------
(* The candidates. *)

LEMMA HeadGood ==
    ASSUME NEW st, GoodState(st)
    PROVE  /\ StateShape(st) /\ GoodSnapshot(st.head)
           /\ st.head.source \in Source
           /\ st.head.indexes \in [Names -> Index \cup {None}]
           /\ DefinitionsOf(st.head.indexes) \subseteq st.descriptors
           /\ st.active = Selection(st.head.indexes)
           /\ st.head.count = Cardinality(Present(st.head.source))
           /\ st.head.count \in Nat
           /\ \A n \in Chosen(st.head.indexes) :
                 GoodIndex(st.head.indexes[n], n, st.head.source)
<1>1. GoodSnapshot(st.head) /\ StateShape(st) /\ st.active = Selection(st.head.indexes)
  BY DEF GoodState, Closed
<1>2. DefinitionsOf(st.head.indexes) \subseteq st.descriptors
  BY DEF GoodState, Closed, Referenced
<1> QED
  BY <1>1, <1>2 DEF GoodSnapshot

\* Advance with good contents gives the new head and touches nothing else.
LEMMA AdvanceFacts ==
    ASSUME NEW st, GoodState(st), NEW source \in Source,
           NEW count \in Nat, count = Cardinality(Present(source)),
           NEW indexes \in [Names -> Index \cup {None}],
           \A n \in Chosen(indexes) : GoodIndex(indexes[n], n, source)
    PROVE  LET new == Advance(st, source, count, indexes)
           IN  /\ StateShape(new) /\ GoodSnapshot(new.head)
               /\ new.head.parent = st.head /\ new.head.indexes = indexes
               /\ new.snapshots = st.snapshots \cup {new.head}
               /\ new.pins = st.pins /\ new.active = st.active
               /\ new.descriptors = st.descriptors /\ new.retired = st.retired
<1> DEFINE s == [parent |-> st.head, source |-> source, count |-> count,
                 indexes |-> indexes]
           new == Advance(st, source, count, indexes)
<1>1. GoodSnapshot(s)
  BY DEF GoodSnapshot
<1>2. StateShape(st)
  BY DEF GoodState
<1>3. new = [st EXCEPT !.head = s, !.snapshots = @ \cup {s}]
  BY DEF Advance
<1>4. s.parent = st.head /\ s.indexes = indexes
  OBVIOUS
<1> HIDE DEF s, new
<1>5. /\ new.head = s /\ new.snapshots = st.snapshots \cup {s}
      /\ new.pins = st.pins /\ new.active = st.active
      /\ new.descriptors = st.descriptors /\ new.retired = st.retired
  BY <1>2, <1>3 DEF StateShape
<1>6. StateShape(new)
  BY <1>2, <1>3 DEF StateShape
<1> QED
  BY <1>1, <1>4, <1>5, <1>6 DEF new

LEMMA EnsuredGood ==
    ASSUME NEW st, GoodState(st), NEW d \in Definitions
    PROVE  LET new == Ensured(st, d)
           IN  /\ GoodState(new) /\ new.head.parent = st.head
               /\ new.pins = st.pins /\ new.retired = st.retired
<1> DEFINE head == st.head
           indexes == [head.indexes EXCEPT ![NameOf[d]] = Built(d, head.source)]
           adv == Advance(st, head.source, head.count, indexes)
           new == Ensured(st, d)
<1>1. NameOf[d] \in Names /\ d # None
  BY DefinitionsAssumption, DataAssumption
<1>2. GoodIndex(Built(d, head.source), NameOf[d], head.source)
  BY HeadGood, BuiltGood
<1>3. indexes \in [Names -> Index \cup {None}]
  BY <1>2, HeadGood DEF GoodIndex
<1>4. \A n \in Chosen(indexes) : GoodIndex(indexes[n], n, head.source)
  BY <1>1, <1>2, HeadGood DEF Chosen
<1>5. /\ StateShape(adv) /\ GoodSnapshot(adv.head)
      /\ adv.head.parent = st.head /\ adv.head.indexes = indexes
      /\ adv.snapshots = st.snapshots \cup {adv.head}
      /\ adv.pins = st.pins /\ adv.active = st.active
      /\ adv.descriptors = st.descriptors /\ adv.retired = st.retired
  <2>1. /\ head.source \in Source /\ head.count \in Nat
        /\ head.count = Cardinality(Present(head.source))
    BY HeadGood
  <2> HIDE DEF indexes
  <2> QED
    BY <1>3, <1>4, <2>1, AdvanceFacts, ZenonT(60)
<1> HIDE DEF adv
<1>6. new = [adv EXCEPT !.descriptors = @ \cup {d}, !.active[NameOf[d]] = d]
  BY DEF Ensured, adv
<1> HIDE DEF new
<1>7. /\ new.head = adv.head /\ new.snapshots = adv.snapshots
      /\ new.pins = adv.pins /\ new.retired = adv.retired
      /\ new.descriptors = st.descriptors \cup {d}
      /\ new.active = [st.active EXCEPT ![NameOf[d]] = d]
      /\ StateShape(new)
  BY <1>1, <1>5, <1>6 DEF StateShape
<1>8. Selection(indexes) = [st.active EXCEPT ![NameOf[d]] = d]
  <2>1. st.active = Selection(head.indexes)
    BY HeadGood
  <2>2. Built(d, head.source).definition = d /\ Built(d, head.source) # None
    BY <1>2, DataAssumption DEF GoodIndex, Built
  <2>3. DOMAIN head.indexes = Names
    BY HeadGood
  <2> QED
    BY <1>1, <2>1, <2>2, <2>3 DEF Selection
<1>9. DefinitionsOf(indexes) \subseteq st.descriptors \cup {d}
  <2>1. DefinitionsOf(head.indexes) \subseteq st.descriptors
    BY HeadGood
  <2>2. Built(d, head.source).definition = d
    BY DEF Built
  <2>3. DOMAIN head.indexes = Names
    BY HeadGood
  <2> QED
    BY <1>1, <2>1, <2>2, <2>3 DEF DefinitionsOf, Chosen
<1>10. GoodState(new)
  BY <1>5, <1>7, <1>8, <1>9, ExtendedGood, SMT
<1> QED
  BY <1>5, <1>7, <1>10 DEF new

LEMMA AppliedGood ==
    ASSUME NEW st, GoodState(st), NEW batch \in Seq(Keys \X (Values \cup {None}))
    PROVE  LET new == AppliedTo(st, batch)
           IN  GoodState(new) /\ new.head.parent = st.head /\ new.pins = st.pins
<1> DEFINE head == st.head
           source == Mutated(head.source, batch)
           count == SourceCount(head.count, head.source, batch)
           indexes == [n \in Names |->
                          IF head.indexes[n] = None THEN None
                          ELSE Maintained(head.indexes[n], head.source, batch)]
           new == AppliedTo(st, batch)
<1>1. /\ head.source \in Source /\ st.active = Selection(head.indexes)
      /\ head.count = Cardinality(Present(head.source))
      /\ DefinitionsOf(head.indexes) \subseteq st.descriptors
  BY HeadGood
<1>2. source \in Source
  BY <1>1, MutatedTyped
<1>3. count = Cardinality(Present(source)) /\ count \in Nat
  BY <1>1, <1>2, SourceCountExact, PresentFinite
<1>4. \A n \in Names : head.indexes[n] # None =>
         /\ GoodIndex(indexes[n], n, source)
         /\ indexes[n].definition = head.indexes[n].definition
  <2> SUFFICES ASSUME NEW n \in Names, head.indexes[n] # None
               PROVE  /\ GoodIndex(indexes[n], n, source)
                      /\ indexes[n].definition = head.indexes[n].definition
    OBVIOUS
  <2>1. GoodIndex(head.indexes[n], n, head.source)
    BY HeadGood DEF Chosen
  <2>2. indexes[n] = Maintained(head.indexes[n], head.source, batch)
    OBVIOUS
  <2>3. GoodIndex(Maintained(head.indexes[n], head.source, batch), n, source)
    BY <1>1, <2>1, MaintainedGood
  <2> QED
    BY <2>2, <2>3 DEF Maintained
<1>5. \A n \in Names : (indexes[n] = None) <=> (head.indexes[n] = None)
  BY <1>4, DataAssumption, ZenonT(60) DEF GoodIndex
<1>6. indexes \in [Names -> Index \cup {None}]
  BY <1>4 DEF GoodIndex
<1>7. \A n \in Chosen(indexes) : GoodIndex(indexes[n], n, source)
  BY <1>4, <1>5 DEF Chosen
<1>8. Selection(indexes) = st.active
  BY <1>1, <1>4, <1>5 DEF Selection
<1>9. DefinitionsOf(indexes) = DefinitionsOf(head.indexes)
  BY <1>4, <1>5 DEF DefinitionsOf, Chosen
<1>10. new = Advance(st, source, count, indexes)
  BY DEF AppliedTo
<1> HIDE DEF indexes, source, count, new
<1>11. /\ StateShape(new) /\ GoodSnapshot(new.head)
       /\ new.head.parent = st.head /\ new.head.indexes = indexes
       /\ new.snapshots = st.snapshots \cup {new.head}
       /\ new.pins = st.pins /\ new.active = st.active
       /\ new.descriptors = st.descriptors
  BY <1>2, <1>3, <1>6, <1>7, <1>10, AdvanceFacts, SMTT(30)
<1>12. GoodState(new)
  BY <1>1, <1>8, <1>9, <1>11, ExtendedGood
<1> QED
  BY <1>11, <1>12 DEF new

LEMMA ReplacedGood ==
    ASSUME NEW st, GoodState(st), NEW d \in Definitions, st.active[NameOf[d]] # None
    PROVE  LET new == Replaced(st, d)
           IN  GoodState(new) /\ new.head.parent = st.head /\ new.pins = st.pins
<1> DEFINE built == Ensured(st, d)
           new == Replaced(st, d)
<1>1. st.active[NameOf[d]] \in Definitions
  BY HeadGood, DefinitionsAssumption, SMT DEF StateShape
<1>2. /\ GoodState(built) /\ built.head.parent = st.head
      /\ built.pins = st.pins /\ built.retired = st.retired
  BY EnsuredGood
<1>3. new = [built EXCEPT !.retired = @ \cup {st.active[NameOf[d]]}]
  BY DEF Replaced
<1>4. StateShape(built)
  BY <1>2 DEF GoodState
<1> HIDE DEF built, new
<1>5. /\ new.head = built.head /\ new.snapshots = built.snapshots
      /\ new.pins = built.pins /\ new.active = built.active
      /\ new.descriptors = built.descriptors
  BY <1>3, <1>4 DEF StateShape
<1>6. StateShape(new)
  BY <1>1, <1>3, <1>4 DEF StateShape
<1>7. GoodState(new)
  BY <1>2, <1>5, <1>6, SMT DEF GoodState, Closed, Pinned, Active
<1> QED
  BY <1>2, <1>5, <1>7 DEF new

LEMMA DeactivatedGood ==
    ASSUME NEW st, GoodState(st), NEW n \in Names, st.active[n] # None
    PROVE  LET new == Deactivated(st, n)
           IN  GoodState(new) /\ new.head.parent = st.head /\ new.pins = st.pins
<1> DEFINE head == st.head
           indexes == [head.indexes EXCEPT ![n] = None]
           adv == Advance(st, head.source, head.count, indexes)
           new == Deactivated(st, n)
<1>1. /\ head.source \in Source /\ head.count \in Nat
      /\ head.count = Cardinality(Present(head.source))
      /\ st.active = Selection(head.indexes)
      /\ DefinitionsOf(head.indexes) \subseteq st.descriptors
      /\ head.indexes \in [Names -> Index \cup {None}]
      /\ StateShape(st)
  BY HeadGood
<1>2. indexes \in [Names -> Index \cup {None}]
  BY <1>1
<1>3. \A m \in Chosen(indexes) : GoodIndex(indexes[m], m, head.source)
  BY <1>1, HeadGood DEF Chosen
<1>4. Selection(indexes) = [st.active EXCEPT ![n] = None]
  BY <1>1 DEF Selection
<1>5. DefinitionsOf(indexes) \subseteq st.descriptors
  BY <1>1 DEF DefinitionsOf, Chosen
<1>6. new = [adv EXCEPT !.active[n] = None, !.retired = @ \cup {st.active[n]}]
  BY DEF Deactivated
<1> HIDE DEF indexes
<1>7. /\ StateShape(adv) /\ GoodSnapshot(adv.head)
      /\ adv.head.parent = st.head /\ adv.head.indexes = indexes
      /\ adv.snapshots = st.snapshots \cup {adv.head}
      /\ adv.pins = st.pins /\ adv.active = st.active
      /\ adv.descriptors = st.descriptors /\ adv.retired = st.retired
  BY <1>1, <1>2, <1>3, AdvanceFacts, SMT
<1> HIDE DEF adv, new
<1>8. st.active[n] \in Definitions
  BY <1>1 DEF StateShape
<1>9. /\ new.head = adv.head /\ new.snapshots = adv.snapshots
      /\ new.pins = adv.pins /\ new.descriptors = adv.descriptors
      /\ new.active = [st.active EXCEPT ![n] = None]
  BY <1>6, <1>7 DEF StateShape
<1>10. StateShape(new)
  BY <1>6, <1>7, <1>8 DEF StateShape
<1>11. GoodState(new)
  BY <1>4, <1>5, <1>7, <1>9, <1>10, ExtendedGood
<1> QED
  BY <1>7, <1>9, <1>11 DEF new

LEMMA KeptLastGood ==
    ASSUME NEW st, GoodState(st), NEW n
    PROVE  LET new == KeptLast(st, n)
           IN  GoodState(new) /\ new.head = st.head /\ new.pins = st.pins
<1> DEFINE keep == {st.head} \cup {Walk(st)[i] : i \in 1 .. n - 1} \cup Pinned(st)
           new == KeptLast(st, n)
<1>1. StateShape(st) /\ st.head \in st.snapshots /\ Pinned(st) \subseteq st.snapshots
  BY DEF GoodState, Closed
<1>2. st.head \in keep /\ Pinned(st) \subseteq keep
  OBVIOUS
<1>3. new = [st EXCEPT !.snapshots = st.snapshots \cap keep,
                       !.descriptors = @ \cap Referenced(st.snapshots \cap keep),
                       !.retired = @ \cap Referenced(st.snapshots \cap keep)]
  BY DEF KeptLast
<1> HIDE DEF keep, new
<1>4. /\ new.head = st.head /\ new.pins = st.pins /\ new.active = st.active
      /\ new.snapshots = st.snapshots \cap keep
      /\ new.descriptors = st.descriptors \cap Referenced(new.snapshots)
  BY <1>1, <1>3 DEF StateShape
<1>5. StateShape(new)
  BY <1>1, <1>3, ZenonT(60) DEF StateShape
<1>6. GoodState(new)
  BY <1>1, <1>2, <1>4, <1>5, PrunedGood
<1> QED
  BY <1>4, <1>6 DEF new

LEMMA RemovedGood ==
    ASSUME NEW st, GoodState(st), NEW s, s # st.head, s \notin Pinned(st)
    PROVE  LET new == Removed(st, s)
           IN  GoodState(new) /\ new.head = st.head /\ new.pins = st.pins
<1>1. st.head \in st.snapshots \ {s} /\ Pinned(st) \subseteq st.snapshots \ {s}
  BY DEF GoodState, Closed
<1> QED
  BY <1>1, RetainGood DEF Removed

LEMMA RestoredGood ==
    ASSUME NEW st, GoodState(st), NEW s \in st.snapshots
    PROVE  LET new == Restored(st, s)
           IN  GoodState(new) /\ new.head = s /\ new.pins = st.pins
<1> DEFINE selected == Selection(s.indexes)
           left == {st.active[n] : n \in {m \in Names :
                       st.active[m] # None /\ selected[m] # st.active[m]}}
           new == Restored(st, s)
<1>1. StateShape(st) /\ GoodSnapshot(s) /\ Pinned(st) \subseteq st.snapshots
  BY DEF GoodState, Closed
<1>2. /\ selected \in [Names -> Definitions \cup {None}]
      /\ \A n \in Names : selected[n] # None =>
            s.indexes[n] # None /\ s.indexes[n].definition = selected[n]
      /\ {selected[n] : n \in Names} \ {None} = DefinitionsOf(s.indexes)
  BY <1>1, SelectionFacts
<1>3. left \subseteq Definitions
  BY <1>1 DEF StateShape
<1>4. new = [st EXCEPT !.head = s, !.active = selected,
                       !.retired = (@ \cup left) \ DefinitionsOf(s.indexes)]
  BY DEF Restored
<1>5. DefinitionsOf(s.indexes) \subseteq st.descriptors
  BY DEF GoodState, Closed, Referenced
<1> HIDE DEF left, selected, new
<1>6. /\ new.head = s /\ new.pins = st.pins /\ new.active = selected
      /\ new.snapshots = st.snapshots /\ new.descriptors = st.descriptors
  BY <1>1, <1>4 DEF StateShape
<1>7. StateShape(new)
  BY <1>1, <1>2, <1>3, <1>4, ZenonT(60) DEF StateShape
<1>8. Active(new) \subseteq new.descriptors /\ Pinned(new) \subseteq new.snapshots
  BY <1>1, <1>2, <1>5, <1>6, SMT DEF Active, Pinned
<1>9. Referenced(new.snapshots) \subseteq new.descriptors
  BY <1>6 DEF GoodState, Closed
<1>10. Closed(new)
  BY <1>2, <1>6, <1>8, <1>9 DEF Closed
<1>11. GoodState(new)
  BY <1>6, <1>7, <1>10 DEF GoodState, selected
<1> QED
  BY <1>6, <1>11 DEF new

LEMMA RebuiltGood ==
    ASSUME NEW st, GoodState(st), NEW source \in Source,
           NEW registry \in [Names -> Definitions \cup {None}],
           \A n \in Names : registry[n] # None => NameOf[registry[n]] = n
    PROVE  LET new == Rebuilt(st, source, registry)
           IN  GoodState(new) /\ new.head.parent = st.head /\ new.pins = st.pins
<1> DEFINE indexes == [n \in Names |-> IF registry[n] = None THEN None
                                       ELSE Built(registry[n], source)]
           count == Cardinality(Present(source))
           adv == Advance(st, source, count, indexes)
           new == Rebuilt(st, source, registry)
<1>1. count \in Nat
  BY PresentFinite
<1>2. \A n \in Names : registry[n] # None =>
         /\ GoodIndex(indexes[n], n, source)
         /\ indexes[n].definition = registry[n]
         /\ indexes[n] # None
  <2> SUFFICES ASSUME NEW n \in Names, registry[n] # None
               PROVE  /\ GoodIndex(indexes[n], n, source)
                      /\ indexes[n].definition = registry[n]
                      /\ indexes[n] # None
    OBVIOUS
  <2>1. indexes[n] = Built(registry[n], source) /\ registry[n] \in Definitions
    OBVIOUS
  <2>2. GoodIndex(Built(registry[n], source), n, source)
    BY <2>1, BuiltGood
  <2> QED
    BY <2>1, <2>2, DataAssumption DEF Built, GoodIndex
<1>3. indexes \in [Names -> Index \cup {None}]
  BY <1>2 DEF GoodIndex
<1>4. \A n \in Names : registry[n] = None => indexes[n] = None
  OBVIOUS
<1> HIDE DEF indexes
<1>5. \A n \in Chosen(indexes) : GoodIndex(indexes[n], n, source)
  BY <1>2, <1>4 DEF Chosen
<1>6. Selection(indexes) = registry
  BY <1>2, <1>4 DEF Selection
<1>7. DefinitionsOf(indexes) \subseteq Definitions
  BY <1>2, <1>4, SMT DEF DefinitionsOf, Chosen
<1>8. new = [adv EXCEPT !.active = registry,
                        !.descriptors = @ \cup DefinitionsOf(indexes),
                        !.retired = (@ \cup Active(st)) \ DefinitionsOf(indexes)]
  BY DEF Rebuilt, indexes
<1>9. /\ StateShape(adv) /\ GoodSnapshot(adv.head)
      /\ adv.head.parent = st.head /\ adv.head.indexes = indexes
      /\ adv.snapshots = st.snapshots \cup {adv.head}
      /\ adv.pins = st.pins /\ adv.descriptors = st.descriptors
  BY <1>1, <1>3, <1>5, AdvanceFacts, SMT
<1>10. Active(st) \subseteq Definitions
  BY HeadGood, SMT DEF Active, StateShape
<1> HIDE DEF adv, new
<1>11. /\ new.head = adv.head /\ new.snapshots = adv.snapshots
       /\ new.pins = adv.pins /\ new.active = registry
       /\ new.descriptors = st.descriptors \cup DefinitionsOf(indexes)
  BY <1>8, <1>9 DEF StateShape
<1>12. StateShape(new)
  BY <1>7, <1>8, <1>9, <1>10, ZenonT(60) DEF StateShape
<1>13. GoodState(new)
  BY <1>6, <1>9, <1>11, <1>12, ExtendedGood
<1> QED
  BY <1>9, <1>11, <1>13 DEF new

LEMMA FindSnapshotRetained ==
    ASSUME NEW st, NEW source, Retains(st, source)
    PROVE  FindSnapshot(st, source) \in st.snapshots
<1> DEFINE found == {i \in Depth(st) : OnChain(st, source, i)}
<1>1. CASE found = {}
  BY <1>1 DEF FindSnapshot, Retains
<1>2. CASE found # {}
  <2>1. found \in SUBSET Nat
    BY SMT DEF Depth
  <2>2. \E i \in found : \A j \in found : i <= j
    BY <1>2, <2>1, Least
  <2>3. (CHOOSE i \in found : \A j \in found : i <= j) \in found
    BY <2>2
  <2>4. FindSnapshot(st, source)
          = Walk(st)[CHOOSE i \in found : \A j \in found : i <= j]
    BY <1>2 DEF FindSnapshot
  <2> QED
    BY <2>3, <2>4 DEF OnChain
<1> QED
  BY <1>1, <1>2

\* Pinning a retained snapshot, or releasing a pin.
LEMMA PinGood ==
    ASSUME NEW st, GoodState(st), NEW p \in PinIds, NEW s \in st.snapshots \cup {None}
    PROVE  LET new == [st EXCEPT !.pins[p] = s]
           IN  /\ GoodState(new) /\ new.head = st.head
               /\ \A q \in PinIds \ {p} : new.pins[q] = st.pins[q]
<1> DEFINE new == [st EXCEPT !.pins[p] = s]
<1>1. StateShape(st)
  BY DEF GoodState
<1>2. /\ new.head = st.head /\ new.snapshots = st.snapshots
      /\ new.descriptors = st.descriptors /\ new.active = st.active
      /\ new.retired = st.retired /\ new.pins = [st.pins EXCEPT ![p] = s]
      /\ DOMAIN st.pins = PinIds
  BY <1>1 DEF StateShape
<1>3. StateShape(new)
  BY <1>1 DEF StateShape
<1> HIDE DEF new
<1>4. Pinned(new) \subseteq new.snapshots
  BY <1>2, SMT DEF GoodState, Closed, Pinned
<1>5. GoodState(new)
  BY <1>2, <1>3, <1>4, ZenonT(60) DEF GoodState, Closed, Active
<1> QED
  BY <1>2, <1>5 DEF new

\* What a request carries, by its kind.
RequestOK(r) ==
    /\ r.kind \in AllKinds
    /\ r.kind \in {"ensure", "replace"} =>
          r.definition \in Definitions /\ r.name = NameOf[r.definition]
    /\ r.kind \in {"deactivate", "repair"} => r.name \in Names
    /\ r.kind \in {"apply", "apply_if"} => r.batch \in Batches
    /\ r.kind \in {"pin", "release"} => r.pin \in PinIds
    /\ r.kind = "rebuild" => r.target \in Source

\* How a candidate relates to the state it was built from.
CandidateOf(new, r, st) ==
    /\ GoodState(new)
    /\ \A p \in PinIds :
          new.pins[p] = st.pins[p] \/ (r.kind \in {"pin", "release"} /\ p = r.pin)
    /\ \/ new.head = st.head
       \/ new.head.parent = st.head
       \/ r.kind = "restore" /\ new.head \in st.snapshots
    /\ r.kind = "apply_if" => st.head.source = r.expected

\* What an operation that does not return at once has found in its state.
\* repair_index never goes on: the index it finds is the one it would build.
Admitted(r, st) ==
    /\ r.kind = "apply_if" => st.head.source = r.expected
    /\ r.kind \in {"replace", "deactivate"} => st.active[r.name] # None
    /\ r.kind = "pin" => Retains(st, r.target)
    /\ r.kind # "repair"
    /\ r.kind = "restore" => r.target \in st.snapshots
    /\ r.kind = "remove" => r.target # st.head /\ r.target \notin Pinned(st)

LEMMA ReturnsOrAdmitted ==
    ASSUME NEW c \in Clients, NEW r, RequestOK(r), NEW st, GoodState(st),
           ~Returns(c, r, st)
    PROVE  Admitted(r, st)
<1>1. CASE r.kind = "repair"
  <2>1. r.name \in Chosen(st.head.indexes)
    BY <1>1 DEF Returns, RequestOK, Chosen
  <2>2. st.head.indexes[r.name].tree
          = Build(st.head.indexes[r.name].definition, st.head.source)
    BY <2>1, HeadGood DEF GoodIndex
  <2> QED
    BY <1>1, <2>2 DEF Returns
<1>2. CASE r.kind # "repair"
  BY <1>2 DEF Returns, Admitted
<1> QED
  BY <1>1, <1>2

LEMMA CandidateGood ==
    ASSUME NEW c \in Clients, NEW r, RequestOK(r), NEW st, GoodState(st),
           Admitted(r, st)
    PROVE  CandidateOf(Candidate(c, r, st), r, st)
<1>1. CASE r.kind = "ensure"
  <2>1. Candidate(c, r, st) = Ensured(st, r.definition)
    BY <1>1 DEF Candidate
  <2> QED
    BY <1>1, <2>1, EnsuredGood DEF CandidateOf, RequestOK
<1>2. CASE r.kind \in {"apply", "apply_if"}
  <2>1. Candidate(c, r, st) = AppliedTo(st, r.batch)
    BY <1>2 DEF Candidate
  <2>2. r.kind = "apply_if" => st.head.source = r.expected
    BY DEF Admitted
  <2>3. r.batch \in Seq(Keys \X (Values \cup {None}))
    BY <1>2, DataAssumption DEF RequestOK
  <2> QED
    BY <1>2, <2>1, <2>2, <2>3, AppliedGood DEF CandidateOf
<1>3. CASE r.kind = "replace"
  <2>1. Candidate(c, r, st) = Replaced(st, r.definition)
    BY <1>3 DEF Candidate
  <2>2. st.active[r.name] # None
    BY <1>3 DEF Admitted
  <2> QED
    BY <1>3, <2>1, <2>2, ReplacedGood DEF CandidateOf, RequestOK
<1>4. CASE r.kind = "deactivate"
  <2>1. Candidate(c, r, st) = Deactivated(st, r.name)
    BY <1>4 DEF Candidate
  <2>2. st.active[r.name] # None
    BY <1>4 DEF Admitted
  <2> QED
    BY <1>4, <2>1, <2>2, DeactivatedGood DEF CandidateOf, RequestOK
<1>5. CASE r.kind = "pin"
  <2>1. Candidate(c, r, st) = [st EXCEPT !.pins[r.pin] = FindSnapshot(st, r.target)]
    BY <1>5 DEF Candidate
  <2>2. FindSnapshot(st, r.target) \in st.snapshots
    BY <1>5, FindSnapshotRetained DEF Admitted
  <2> QED
    BY <1>5, <2>1, <2>2, PinGood, SMT DEF CandidateOf, RequestOK
<1>6. CASE r.kind = "release"
  <2>1. Candidate(c, r, st) = [st EXCEPT !.pins[r.pin] = None]
    BY <1>6 DEF Candidate
  <2> QED
    BY <1>6, <2>1, PinGood, SMT DEF CandidateOf, RequestOK
<1>7. CASE r.kind = "keep_last"
  <2>1. Candidate(c, r, st) = KeptLast(st, r.count)
    BY <1>7 DEF Candidate
  <2> QED
    BY <1>7, <2>1, KeptLastGood DEF CandidateOf
<1>8. CASE r.kind = "repair"
  BY <1>8 DEF Admitted
<1>9. CASE r.kind = "restore"
  <2>1. Candidate(c, r, st) = Restored(st, r.target)
    BY <1>9 DEF Candidate
  <2>2. r.target \in st.snapshots
    BY <1>9 DEF Admitted
  <2> QED
    BY <1>9, <2>1, <2>2, RestoredGood, SMTT(30) DEF CandidateOf
<1>10. CASE r.kind = "remove"
  <2>1. Candidate(c, r, st) = Removed(st, r.target)
    BY <1>10 DEF Candidate
  <2>2. r.target # st.head /\ r.target \notin Pinned(st)
    BY <1>10 DEF Admitted
  <2> QED
    BY <1>10, <2>1, <2>2, RemovedGood DEF CandidateOf
<1>11. CASE r.kind = "rebuild"
  <2>1. Candidate(c, r, st) = Rebuilt(st, r.target, Registry[c])
    BY <1>11 DEF Candidate
  <2>2. /\ Registry[c] \in [Names -> Definitions \cup {None}]
        /\ \A n \in Names : Registry[c][n] # None => NameOf[Registry[c][n]] = n
    BY DefinitionsAssumption
  <2> QED
    BY <1>11, <2>1, <2>2, RebuiltGood DEF CandidateOf, RequestOK
<1> QED
  BY <1>1, <1>2, <1>3, <1>4, <1>5, <1>6, <1>7, <1>8, <1>9, <1>10, <1>11
  DEF RequestOK, AllKinds

-----------------------------------------------------------------------------
(* The invariant. *)

ClientOK(label, r, st, current) ==
    /\ label \in {"idle", "load", "publish"} => GoodState(current)
    /\ label \in {"load", "publish"} => RequestOK(r)
    /\ label = "publish" => Admitted(r, st)

\* The state behind the root is good as soon as a handle has opened it; a
\* pending request is typed; a client about to publish found, in the state it
\* loaded, no reason to return.
IInv ==
    /\ pc \in [Clients -> {"new", "create", "idle", "load", "publish"}]
    /\ request \in [Clients -> {request[c] : c \in Clients}]
    /\ loaded \in [Clients -> {loaded[c] : c \in Clients}]
    /\ overrides \in [Clients -> SUBSET Definitions]
    /\ attempts \in [Clients -> 0 .. MaxAttempts - 1]
    /\ calls \in 0 .. MaxCalls
    /\ root # None => GoodState(root)
    /\ \A c \in Clients : ClientOK(pc[c], request[c], loaded[c], root)

LEMMA InitialGood == GoodState(InitialState)
<1> DEFINE none == [n \in Names |-> None]
<1>1. /\ Empty.source = [k \in Keys |-> None] /\ Empty.count = 0
      /\ Empty.indexes = none /\ Empty.source \in Source
      /\ Empty \in [parent : {Empty.parent}, source : Source, count : Nat,
                    indexes : [Names -> Index \cup {None}]]
  BY DEF Empty, Source
<1>2. Present(Empty.source) = {}
  BY <1>1 DEF Present
<1>3. Empty.count = Cardinality(Present(Empty.source))
  BY <1>1, <1>2, FS_EmptySet
<1>4. Chosen(Empty.indexes) = {}
  BY <1>1 DEF Chosen
<1>5. GoodSnapshot(Empty)
  BY <1>1, <1>3, <1>4 DEF GoodSnapshot
<1>6. /\ InitialState.head = Empty /\ InitialState.snapshots = {Empty}
      /\ InitialState.descriptors = {} /\ InitialState.active = none
      /\ InitialState.retired = {} /\ InitialState.pins = [p \in PinIds |-> None]
      /\ StateShape(InitialState)
  BY DEF InitialState, StateShape
<1>7. Referenced({Empty}) = {}
  BY <1>4 DEF Referenced, DefinitionsOf
<1>8. Selection(Empty.indexes) = none
  BY <1>1 DEF Selection
<1>9. Pinned(InitialState) = {} /\ Active(InitialState) = {}
  BY <1>6 DEF Pinned, Active
<1>10. Closed(InitialState)
  BY <1>6, <1>7, <1>9 DEF Closed
<1> QED
  BY <1>5, <1>6, <1>8, <1>10 DEF GoodState

LEMMA RequestsTyped ==
    ASSUME NEW c \in Clients, NEW st, GoodState(st), NEW r \in Requests(c, st),
           overrides[c] \in SUBSET Definitions
    PROVE  RequestOK(r)
<1>1. \A s \in st.snapshots : s.source \in Source
  BY DEF GoodState, GoodSnapshot
<1>2. \A n \in Names : RuntimeDefinition(c, n) \subseteq Definitions
  BY DefinitionsAssumption, SMT DEF RuntimeDefinition
<1>3. r.kind \in AllKinds
  BY DataAssumption DEF Requests
<1>4. CASE r \in Changes(c)
  <2>1. CASE r \in {[Named("ensure", NameOf[d]) EXCEPT !.definition = d] :
                       d \in UNION {RuntimeDefinition(c, n) : n \in Names}}
    <3>1. PICK d \in UNION {RuntimeDefinition(c, n) : n \in Names} :
                 r = [Named("ensure", NameOf[d]) EXCEPT !.definition = d]
      BY <2>1, Zenon
    <3> QED
      BY <1>2, <1>3, <3>1 DEF RequestOK, Named, NoRequest
  <2>2. CASE r \in {[Named("replace", NameOf[d]) EXCEPT !.definition = d] :
                       d \in Definitions}
    BY <1>3, <2>2 DEF RequestOK, Named, NoRequest
  <2>3. CASE r \in {Named("deactivate", n) : n \in Names}
    BY <1>3, <2>3 DEF RequestOK, Named, NoRequest
  <2>4. CASE r \in {[NoRequest EXCEPT !.kind = "apply", !.batch = b] : b \in Batches}
    BY <1>3, <2>4 DEF RequestOK, NoRequest
  <2>5. CASE r \in {[NoRequest EXCEPT !.kind = "release", !.pin = p] : p \in PinIds}
    BY <1>3, <2>5 DEF RequestOK, NoRequest
  <2>6. CASE r \in {[NoRequest EXCEPT !.kind = "keep_last", !.count = 1]}
    BY <1>3, <2>6 DEF RequestOK, NoRequest
  <2> QED
    BY <1>4, <2>1, <2>2, <2>3, <2>4, <2>5, <2>6, Zenon DEF Changes
<1>5. CASE r \in Observed(st)
  <2>1. CASE r \in {[Named("repair", n) EXCEPT !.target = st.head.source] : n \in Names}
    BY <1>3, <2>1 DEF RequestOK, Named, NoRequest
  <2>2. CASE r \in {[NoRequest EXCEPT !.kind = "apply_if", !.batch = b,
                                      !.expected = st.head.source] : b \in Batches}
    BY <1>3, <2>2 DEF RequestOK, NoRequest
  <2>3. CASE r \in {[NoRequest EXCEPT !.kind = "restore", !.expected = st.head,
                                      !.target = s] : s \in st.snapshots}
    BY <1>3, <2>3 DEF RequestOK, NoRequest
  <2>4. CASE r \in {[NoRequest EXCEPT !.kind = "remove", !.target = s] :
                       s \in st.snapshots}
    BY <1>3, <2>4 DEF RequestOK, NoRequest
  <2>5. CASE r \in {[NoRequest EXCEPT !.kind = "rebuild", !.expected = st.head,
                                      !.target = s.source] : s \in st.snapshots}
    BY <1>1, <1>3, <2>5 DEF RequestOK, NoRequest
  <2> QED
    BY <1>5, <2>1, <2>2, <2>3, <2>4, <2>5, Zenon DEF Observed
<1>6. CASE r \in Pinnings(st)
  <2>1. PICK s \in st.snapshots, p \in PinIds :
               r = [NoRequest EXCEPT !.kind = "pin", !.pin = p, !.target = s.source]
    BY <1>6, Zenon DEF Pinnings
  <2> QED
    BY <1>3, <2>1 DEF RequestOK, NoRequest
<1> QED
  BY <1>4, <1>5, <1>6 DEF Requests

LEMMA InitIInv == Init => IInv
BY PolicyAssumption, SMT DEF Init, IInv, ClientOK

\* What a publication leaves behind the root.
LEMMA PublishGood ==
    ASSUME IInv, NEW c \in Clients, Publish(c)
    PROVE  CandidateOf(root', request[c], root)
<1>1. /\ GoodState(root) /\ RequestOK(request[c])
      /\ Admitted(request[c], root)
  BY DEF IInv, Publish, ClientOK
<1> DEFINE st == Candidate(c, request[c], root)
<1>2. CandidateOf(st, request[c], root)
  BY <1>1, CandidateGood
<1>3. root' = Limited(st)
  BY DEF Publish
<1> HIDE DEF st
<1>4. GoodState(root') /\ root'.head = st.head /\ root'.pins = st.pins
  BY <1>2, <1>3, LimitedGood DEF CandidateOf
<1> QED
  BY <1>2, <1>4 DEF CandidateOf

\* The end of a call.
LEMMA FinishOK ==
    ASSUME IInv, NEW c \in Clients, Finish(c),
           root' = root \/ GoodState(root'), GoodState(root)
    PROVE  /\ pc' \in [Clients -> {"new", "create", "idle", "load", "publish"}]
           /\ request' \in [Clients -> {request'[d] : d \in Clients}]
           /\ loaded' \in [Clients -> {loaded'[d] : d \in Clients}]
           /\ attempts' \in [Clients -> 0 .. MaxAttempts - 1]
           /\ \A d \in Clients : ClientOK(pc'[d], request'[d], loaded'[d], root')
<1>1. pc' \in [Clients -> {"new", "create", "idle", "load", "publish"}]
  BY DEF IInv, Finish, Goto
<1>2. /\ request' \in [Clients -> {request'[d] : d \in Clients}]
      /\ loaded' \in [Clients -> {loaded'[d] : d \in Clients}]
  BY DEF IInv, Finish
<1>3. attempts' \in [Clients -> 0 .. MaxAttempts - 1]
  BY PolicyAssumption, SMT DEF IInv, Finish
<1>4. ASSUME NEW d \in Clients
      PROVE  ClientOK(pc'[d], request'[d], loaded'[d], root')
  <2>1. CASE d = c
    BY <2>1 DEF IInv, Finish, Goto, ClientOK
  <2>2. CASE d # c
    <3>1. pc'[d] = pc[d] /\ request'[d] = request[d] /\ loaded'[d] = loaded[d]
      BY <2>2 DEF IInv, Finish, Goto
    <3>2. ClientOK(pc[d], request[d], loaded[d], root)
      BY DEF IInv
    <3> QED
      BY <3>1, <3>2 DEF ClientOK
  <2> QED
    BY <2>1, <2>2
<1> QED
  BY <1>1, <1>2, <1>3, <1>4

LEMMA NextIInv == IInv /\ [Next]_vars => IInv'
<1> SUFFICES ASSUME IInv, [Next]_vars PROVE IInv'
  OBVIOUS
<1>1. CASE UNCHANGED vars
  BY <1>1 DEF IInv, vars
<1>2. ASSUME NEW c \in Clients, Open(c) PROVE IInv'
  BY <1>2 DEF IInv, Open, Goto, ClientOK
<1>3. ASSUME NEW c \in Clients, Create(c) PROVE IInv'
  BY <1>3, InitialGood DEF IInv, Create, Goto, ClientOK
<1>4. ASSUME NEW c \in Clients, Call(c) PROVE IInv'
  <2>1. GoodState(root) /\ overrides[c] \in SUBSET Definitions
    BY <1>4 DEF IInv, Call, ClientOK
  <2>2. PICK r \in Requests(c, root) : request' = [request EXCEPT ![c] = r]
    BY <1>4 DEF Call
  <2>3. RequestOK(r)
    BY <2>1, RequestsTyped
  <2>4. request' \in [Clients -> {request'[d] : d \in Clients}]
    BY <2>2 DEF IInv
  <2>5. calls' \in 0 .. MaxCalls
    BY <1>4, PolicyAssumption, SMT DEF IInv, Call
  <2>6. pc' = [pc EXCEPT ![c] = "load"]
        /\ UNCHANGED <<root, loaded, attempts, overrides>>
    BY <1>4 DEF Call, Goto
  <2>7. \A d \in Clients : ClientOK(pc'[d], request'[d], loaded'[d], root')
    BY <2>1, <2>2, <2>3, <2>6 DEF IInv, ClientOK
  <2> QED
    BY <2>1, <2>4, <2>5, <2>6, <2>7 DEF IInv
<1>5. ASSUME NEW c \in Clients, Load(c) PROVE IInv'
  <2>1. GoodState(root) /\ RequestOK(request[c])
    BY <1>5 DEF IInv, Load, ClientOK
  <2>2. CASE Finish(c)
    BY <1>5, <2>1, <2>2, FinishOK DEF IInv, Load
  <2>3. CASE /\ ~Returns(c, request[c], root)
             /\ loaded' = [loaded EXCEPT ![c] = root]
             /\ Goto(c, "publish")
             /\ UNCHANGED <<request, attempts>>
    <3>1. Admitted(request[c], root)
      BY <2>1, <2>3, ReturnsOrAdmitted
    <3> QED
      BY <1>5, <2>1, <2>3, <3>1 DEF IInv, Load, Goto, ClientOK
  <2> QED
    BY <1>5, <2>2, <2>3 DEF Load
<1>6. ASSUME NEW c \in Clients, Publish(c) PROVE IInv'
  <2>1. GoodState(root) /\ GoodState(root') /\ RequestOK(request[c])
    BY <1>6, PublishGood DEF IInv, Publish, ClientOK, CandidateOf
  <2>2. overrides' \in [Clients -> SUBSET Definitions]
    BY <1>6, <2>1 DEF IInv, Publish, RequestOK
  <2> QED
    BY <1>6, <2>1, <2>2, FinishOK DEF IInv, Publish
<1>7. ASSUME NEW c \in Clients, Conflict(c) PROVE IInv'
  <2>1. GoodState(root) /\ RequestOK(request[c])
    BY <1>7 DEF IInv, Conflict, ClientOK
  <2>2. CASE Finish(c)
    BY <1>7, <2>1, <2>2, FinishOK DEF IInv, Conflict
  <2>3. CASE /\ attempts[c] + 1 < Tries(request[c])
             /\ attempts' = [attempts EXCEPT ![c] = @ + 1]
             /\ loaded' = [loaded EXCEPT ![c] = None]
             /\ Goto(c, "load")
             /\ UNCHANGED request
    <3>1. attempts' \in [Clients -> 0 .. MaxAttempts - 1]
      BY <2>3, PolicyAssumption, SMT DEF IInv, Tries
    <3> QED
      BY <1>7, <2>1, <2>3, <3>1 DEF IInv, Conflict, Goto, ClientOK
  <2> QED
    BY <1>7, <2>2, <2>3 DEF Conflict
<1> QED
  BY <1>1, <1>2, <1>3, <1>4, <1>5, <1>6, <1>7 DEF Next, ClientStep

-----------------------------------------------------------------------------
(* The theorems. *)

\* The inductive invariant holds, whatever the definitions, the policy's
\* limits, the batches and the number of handles.
THEOREM Inductive == Spec => []IInv
BY InitIInv, NextIInv, PTL DEF Spec

\* Types, and the retry budget of an operation.
THEOREM Typed == Spec => []TypeOK
<1>1. IInv => TypeOK
  BY HeadGood DEF IInv, TypeOK
<1> QED
  BY <1>1, Inductive, PTL

\* Incremental maintenance equals a rebuild: every index of every retained
\* snapshot holds what its definition emits for that snapshot's source.
THEOREM Synchronized == Spec => []IndexesMatchSource
<1>1. IInv => IndexesMatchSource
  BY DEF IInv, IndexesMatchSource, GoodState, GoodSnapshot, GoodIndex
<1> QED
  BY <1>1, Inductive, PTL

\* The entry counts carried as signed deltas are exact.
THEOREM Counted == Spec => []CountsExact
<1>1. IInv => CountsExact
  BY DEF IInv, CountsExact, GoodState, GoodSnapshot, GoodIndex
<1> QED
  BY <1>1, Inductive, PTL

\* The active indexes are those the head selects.
THEOREM Selected == Spec => []ActiveIsSelected
<1>1. IInv => ActiveIsSelected
  BY DEF IInv, ActiveIsSelected, GoodState
<1> QED
  BY <1>1, Inductive, PTL

\* No operation builds a candidate that validate_closure would refuse.
THEOREM ClosedCandidates == Spec => []CandidatesClosed
<1>1. IInv => CandidatesClosed
  <2> SUFFICES ASSUME IInv, NEW c \in Clients, pc[c] = "load",
                      ~Returns(c, request[c], root)
               PROVE  LET st == Candidate(c, request[c], root)
                      IN  Closed(st) /\ Closed(Limited(st))
    BY DEF CandidatesClosed
  <2> DEFINE st == Candidate(c, request[c], root)
  <2>1. GoodState(root) /\ RequestOK(request[c])
    BY DEF IInv, ClientOK
  <2>2. GoodState(st)
    BY <2>1, ReturnsOrAdmitted, CandidateGood DEF CandidateOf
  <2> HIDE DEF st
  <2>3. Closed(st) /\ Closed(Limited(st))
    BY <2>2, LimitedGood DEF GoodState
  <2> QED
    BY <2>3 DEF st
<1> QED
  BY <1>1, Inductive, PTL

\* Only a publication changes the root of an open collection.
LEMMA RootSteps ==
    ASSUME IInv, [Next]_vars, root # None
    PROVE  \/ root' = root
           \/ \E c \in Clients : Publish(c) /\ CandidateOf(root', request[c], root)
<1>1. CASE UNCHANGED vars
  BY <1>1 DEF vars
<1>2. ASSUME NEW c \in Clients, ClientStep(c) \/ Call(c), ~Publish(c)
      PROVE  root' = root
  BY <1>2 DEF ClientStep, Open, Create, Call, Load, Conflict
<1> QED
  BY <1>1, <1>2, PublishGood DEF Next, ClientStep

\* A pinned snapshot stays until its own pin is released or moved.
THEOREM Pins == Spec => PinsHeld
<1>1. ASSUME IInv, [Next]_vars, root # None, NEW p \in PinIds,
             root.pins[p] # None, root'.pins[p] # root.pins[p]
      PROVE  \E c \in Clients : /\ pc[c] = "publish" /\ pc'[c] = "idle"
                                /\ request[c].kind \in {"pin", "release"}
                                /\ request[c].pin = p
  <2>1. PICK c \in Clients : Publish(c) /\ CandidateOf(root', request[c], root)
    BY <1>1, RootSteps
  <2>2. pc[c] = "publish" /\ pc'[c] = "idle"
    BY <1>1, <2>1 DEF IInv, Publish, Finish, Goto
  <2> QED
    BY <1>1, <2>1, <2>2 DEF CandidateOf
<1>2. IInv /\ [Next]_vars =>
         [root # None =>
            \A p \in PinIds :
               root.pins[p] # None /\ root'.pins[p] # root.pins[p] =>
                  \E c \in Clients : /\ pc[c] = "publish" /\ pc'[c] = "idle"
                                     /\ request[c].kind \in {"pin", "release"}
                                     /\ request[c].pin = p]_vars
  BY <1>1
<1> QED
  BY <1>2, Inductive, PTL DEF Spec, PinsHeld

\* No published update is lost, and a conditional update replaces the source
\* its caller named.
THEOREM Chained == Spec => UpdatesChain
<1>1. ASSUME IInv, [Next]_vars, root # None, root'.head # root.head
      PROVE  \E c \in Clients :
                /\ pc[c] = "publish"
                /\ \/ root'.head.parent = root.head
                   \/ request[c].kind = "restore" /\ root'.head \in root.snapshots
                /\ request[c].kind = "apply_if" =>
                      root.head.source = request[c].expected
  <2>1. PICK c \in Clients : Publish(c) /\ CandidateOf(root', request[c], root)
    BY <1>1, RootSteps
  <2> QED
    BY <1>1, <2>1 DEF CandidateOf, Publish
<1>2. IInv /\ [Next]_vars =>
         [root # None /\ root'.head # root.head =>
            \E c \in Clients :
                /\ pc[c] = "publish"
                /\ \/ root'.head.parent = root.head
                   \/ request[c].kind = "restore" /\ root'.head \in root.snapshots
                /\ request[c].kind = "apply_if" =>
                      root.head.source = request[c].expected]_vars
  BY <1>1
<1> QED
  BY <1>2, Inductive, PTL DEF Spec, UpdatesChain
=============================================================================
