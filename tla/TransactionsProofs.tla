-------------------------- MODULE TransactionsProofs --------------------------
(***************************************************************************)
(* Proofs about Transactions, for every set of names, trees, nodes,        *)
(* transactions, writers and collectors.                                   *)
(***************************************************************************)
EXTENDS Transactions, TLAPS

\* Zenon is tried on every leaf; the leaves that need arithmetic or the extensionality
\* of functions and records cite SMT.
USE Zenon

\* The initial state is well typed.
LEMMA TypeInit == Init => TypeOK
BY ReachAssumption, EmptyTreeAssumption, SMT
DEF Init, StoreInit, TypeOK, StoreTypeOK, NoNames, RootValue, MaybeRootValue

\* Every step keeps the types.
LEMMA TypeStep == TypeOK /\ [Next]_vars => TypeOK'
<1>. SUFFICES ASSUME TypeOK, [Next]_vars PROVE TypeOK'
  OBVIOUS
<1>. USE ReachAssumption, EmptyTreeAssumption
     DEF TypeOK, StoreTypeOK, txVars, writerVars, gcVars
<1>1. ASSUME NEW t \in Txs, TxNext(t) PROVE TypeOK'
  <2>1. CASE Begin(t)
    BY <2>1 DEF Begin
  <2>2. CASE Commit(t)
    BY <2>2, SMT
    DEF Commit, CommitTransaction, AppliedRoots, Finish, NoNames, MaybeRootValue
  <2>3. CASE CommitConflict(t)
    BY <2>3 DEF CommitConflict, Finish, NoNames, MaybeRootValue
  <2>4. CASE Rollback(t)
    BY <2>4 DEF Rollback, Finish, NoNames, MaybeRootValue
  <2>5. ASSUME NEW n \in Names,
                ReadBaseRoot(t, n)
         PROVE  TypeOK'
    BY <2>5, SMT DEF ReadBaseRoot
  <2>6. ASSUME NEW n \in Names, NEW v \in RootValue,
                RecordRootRead(t, n, v)
         PROVE  TypeOK'
    <3>. DEFINE observed == OrInsert(rootReads[t][n], v)
    <3>1. CASE rootWrites[t][n] # Unset
      BY <2>6, <3>1 DEF RecordRootRead
    <3>2. CASE rootWrites[t][n] = Unset
      <4>1. observed \in RootValue
        BY SMT DEF OrInsert, MaybeRootValue
      <4>2. observed # Absent => observed.tree \in Trees
        BY <4>1 DEF RootValue, Manifest
      <4>3. /\ rootReads' = [rootReads EXCEPT ![t][n] = observed]
            /\ seen' = [seen EXCEPT ![t][n] = @ \cup {observed}]
            /\ handles' = [handles EXCEPT ![t] =
                  @ \cup (IF observed = Absent THEN {} ELSE {observed.tree})]
        BY <2>6, <3>2 DEF RecordRootRead
      <4>4. inflight' \in [Txs -> [Names -> SUBSET RootValue]]
        BY <2>6, SMT DEF RecordRootRead
      <4>. HIDE DEF observed
      <4>5. rootReads' \in [Txs -> [Names -> MaybeRootValue]]
        BY <4>1, <4>3 DEF MaybeRootValue
      <4>6. seen' \in [Txs -> [Names -> SUBSET RootValue]]
        BY <4>1, <4>3
      <4>7. handles' \in [Txs -> SUBSET Trees]
        BY <4>2, <4>3
      <4>8. UNCHANGED <<nodes, roots, phase, nodeWrites, rootWrites, swaps,
                        writerVars, gcVars>>
        BY <2>6 DEF RecordRootRead
      <4>. QED BY <4>4, <4>5, <4>6, <4>7, <4>8
    <3>. QED BY <3>1, <3>2
  <2>7. ASSUME NEW base \in Trees, NEW tree \in Trees,
                Mutate(t, base, tree)
         PROVE  TypeOK'
    BY <2>7 DEF Mutate
  <2>8. ASSUME NEW n \in Names, NEW tree \in Trees, NEW s \in Stamps,
                PublishNamedRoot(t, n, tree, s)
         PROVE  TypeOK'
    BY <2>8
    DEF PublishNamedRoot, StageRoot, UnstagedVars, MaybeRootValue, RootValue,
           Manifest
  <2>9. ASSUME NEW n \in Names,
                DeleteNamedRoot(t, n)
         PROVE  TypeOK'
    BY <2>9
    DEF DeleteNamedRoot, StageRoot, UnstagedVars, MaybeRootValue, RootValue
  <2>10. ASSUME NEW n \in Names, NEW e \in Trees \cup {Absent}, NEW v \in RootValue,
                CompareNamedRoot(t, n, e, v)
         PROVE  TypeOK'
    BY <2>10, SMT
    DEF CompareNamedRoot, UnstagedVars, Swap, Resolved, Visible, MaybeRootValue
  <2>11. ASSUME NEW s \in swaps[t],
                SwapNamedRoot(t, s)
         PROVE  TypeOK'
    BY <2>11, SMT DEF SwapNamedRoot, StageRoot, UnstagedVars, Swap, MaybeRootValue
  <2>. QED BY <1>1, <2>1, <2>2, <2>3, <2>4, <2>5, <2>6, <2>7, <2>8, <2>9, <2>10, <2>11 DEF TxNext
<1>2. ASSUME NEW w \in Writers, WriterNext(w) PROVE TypeOK'
  <2>1. ASSUME NEW n \in Names,
                WriterLoad(w, n)
         PROVE  TypeOK'
    BY <2>1 DEF WriterLoad
  <2>2. ASSUME NEW tree \in Trees,
                WriterBuild(w, tree)
         PROVE  TypeOK'
    BY <2>2 DEF WriterBuild, BatchPut
  <2>3. ASSUME NEW n \in Names, NEW s \in Stamps,
                WriterPublish(w, n, s)
         PROVE  TypeOK'
    BY <2>3 DEF WriterPublish, PutRoot, WriterFinish, RootValue, Manifest
  <2>4. CASE WriterCompare(w)
    <3>1. CASE TreeOf(roots[wname[w]]) = TreeOf(wbase[w])
      <4>1. roots[wname[w]] \in RootValue OBVIOUS
      <4>2. wcurrent' \in [Writers -> RootValue] BY <2>4, <3>1, <4>1 DEF WriterCompare
      <4>3. wpc' \in [Writers -> {"idle", "loaded", "built", "cas"}]
        <5>1. wpc' = [wpc EXCEPT ![w] = "cas"] BY <2>4, <3>1 DEF WriterCompare
        <5>. QED BY <5>1
      <4>4. UNCHANGED <<nodes, roots, txVars, wname, wbase, wtree, gcVars>>
        BY <2>4, <3>1 DEF WriterCompare
      <4>. QED BY <4>2, <4>3, <4>4
    <3>2. CASE TreeOf(roots[wname[w]]) # TreeOf(wbase[w])
      BY <2>4, <3>2, ZenonT(60) DEF WriterCompare, WriterFinish, RootValue
    <3>. QED BY <3>1, <3>2
  <2>5. ASSUME NEW v \in RootValue,
                WriterSwap(w, v)
         PROVE  TypeOK'
    <3>1. roots' \in [Names -> RootValue]
      BY <2>5 DEF WriterSwap, CompareAndSwapRoot
    <3>2. /\ wbase' \in [Writers -> RootValue]
          /\ wcurrent' \in [Writers -> RootValue]
      BY <2>5 DEF WriterSwap, WriterFinish, RootValue
    <3>. QED BY <2>5, <3>1, <3>2 DEF WriterSwap, WriterFinish
  <2>6. ASSUME NEW n \in Names,
                WriterDelete(w, n)
         PROVE  TypeOK'
    BY <2>6 DEF WriterDelete, DeleteRoot, RootValue
  <2>. QED BY <1>2, <2>1, <2>2, <2>3, <2>4, <2>5, <2>6 DEF WriterNext
<1>3. ASSUME NEW g \in Collectors, GcNext(g) PROVE TypeOK'
  <2>1. CASE GcLoadRoots(g)
    <3>. DEFINE held == {v.tree : v \in {roots[n] : n \in Names} \ {Absent}}
    <3>1. held \in SUBSET Trees BY SMT DEF RootValue, Manifest
    <3>2. /\ gpc' = [gpc EXCEPT ![g] = "loaded"] /\ gtrees' = [gtrees EXCEPT ![g] = held]
          /\ UNCHANGED <<nodes, roots, txVars, writerVars, greclaim>>
      BY <2>1 DEF GcLoadRoots
    <3>. HIDE DEF held
    <3>3. /\ gpc' \in [Collectors -> {"idle", "loaded", "planned"}]
          /\ gtrees' \in [Collectors -> SUBSET Trees]
      BY <3>1, <3>2
    <3>. QED BY <3>2, <3>3
  <2>2. CASE GcPlan(g)
    <3>1. UNCHANGED <<nodes, roots, txVars, writerVars>> BY <2>2 DEF GcPlan
    <3>2. /\ gpc' \in [Collectors -> {"idle", "loaded", "planned"}]
          /\ gtrees' \in [Collectors -> SUBSET Trees]
          /\ greclaim' \in [Collectors -> SUBSET Cids]
      <4>1. CASE Live(gtrees[g]) \subseteq nodes
        <5>1. /\ gpc' = [gpc EXCEPT ![g] = "planned"] /\ gtrees' = gtrees
              /\ greclaim' = [greclaim EXCEPT ![g] = nodes \ Live(gtrees[g])]
          BY <2>2, <4>1 DEF GcPlan
        <5>2. nodes \ Live(gtrees[g]) \in SUBSET Cids OBVIOUS
        <5>. QED BY <5>1, <5>2
      <4>2. CASE ~(Live(gtrees[g]) \subseteq nodes)
        BY <2>2, <4>2 DEF GcPlan, GcFinish
      <4>. QED BY <4>1, <4>2
    <3>. QED BY <3>1, <3>2
  <2>3. CASE GcSweep(g)
    BY <2>3 DEF GcSweep, GcFinish, BatchDelete
  <2>. QED BY <1>3, <2>1, <2>2, <2>3 DEF GcNext
<1>4. CASE UNCHANGED vars
  BY <1>4 DEF vars
<1>. QED BY <1>1, <1>2, <1>3, <1>4 DEF Next

-----------------------------------------------------------------------------
(* What the steps of one kind of client leave alone *)

\* A transaction touches the store only by its commit.
LEMMA TxFrame ==
    ASSUME NEW t \in Txs, TxNext(t)
    PROVE  UNCHANGED <<writerVars, gcVars>> /\ (Commit(t) \/ UNCHANGED storeVars)
BY DEF TxNext, Begin, Commit, CommitConflict, Rollback, Finish, ReadBaseRoot,
       RecordRootRead, Mutate, PublishNamedRoot, DeleteNamedRoot,
       CompareNamedRoot, SwapNamedRoot, UnstagedVars, writerVars, gcVars, storeVars

\* A writer touches no transaction and no collector.
LEMMA WriterFrame ==
    ASSUME NEW w \in Writers, WriterNext(w)
    PROVE  UNCHANGED <<txVars, gcVars>>
BY DEF WriterNext, WriterLoad, WriterBuild, WriterPublish, WriterCompare, WriterSwap,
       WriterDelete, txVars, gcVars

\* A collector touches no root, transaction or writer.
LEMMA GcFrame ==
    ASSUME NEW g \in Collectors, GcNext(g)
    PROVE  UNCHANGED <<roots, txVars, writerVars>>
BY DEF GcNext, GcLoadRoots, GcPlan, GcSweep, txVars, writerVars

\* What get_root records once the base store answered.
LEMMA RecordEffect ==
    ASSUME TypeOK, NEW t \in Txs, NEW n \in Names, NEW v \in RootValue,
           RecordRootRead(t, n, v),
           NEW observed, observed = OrInsert(rootReads[t][n], v)
    PROVE  /\ observed \in RootValue
           /\ rootReads[t][n] \in {Unset, observed}
           /\ UNCHANGED <<phase, nodeWrites, rootWrites, swaps>>
           /\ \/ UNCHANGED <<rootReads, seen, handles>>
              \/ /\ rootReads' = [rootReads EXCEPT ![t][n] = observed]
                 /\ seen' = [seen EXCEPT ![t][n] = @ \cup {observed}]
                 /\ handles' = [handles EXCEPT ![t] =
                       @ \cup (IF observed = Absent THEN {} ELSE {observed.tree})]
<1>1. observed \in RootValue /\ rootReads[t][n] \in {Unset, observed}
  BY SMT DEF OrInsert, TypeOK, MaybeRootValue
<1>2. CASE rootWrites[t][n] # Unset
  BY <1>1, <1>2 DEF RecordRootRead
<1>3. CASE rootWrites[t][n] = Unset
  BY <1>1, <1>3 DEF RecordRootRead
<1>. QED BY <1>2, <1>3

\* Every step leaves closed transactions without handles.
LEMMA ClosedStep ==
    ASSUME TypeOK, ClosedHoldsNothing, [Next]_vars
    PROVE  ClosedHoldsNothing'
<1>. USE DEF TypeOK, ClosedHoldsNothing
<1>1. ASSUME NEW t \in Txs, TxNext(t) PROVE ClosedHoldsNothing'
  <2>1. CASE Begin(t)
    BY <2>1 DEF Begin
  <2>2. CASE Commit(t)
    BY <2>2 DEF Commit, Finish, Quiescent
  <2>3. CASE CommitConflict(t)
    BY <2>3 DEF CommitConflict, Finish, Quiescent
  <2>4. CASE Rollback(t)
    BY <2>4 DEF Rollback, Finish, Quiescent
  <2>5. ASSUME NEW n \in Names,
                ReadBaseRoot(t, n)
         PROVE  ClosedHoldsNothing'
    BY <2>5 DEF ReadBaseRoot
  <2>6. ASSUME NEW n \in Names, NEW v \in RootValue,
                RecordRootRead(t, n, v)
         PROVE  ClosedHoldsNothing'
    BY <2>6 DEF RecordRootRead, OrInsert
  <2>7. ASSUME NEW base \in Trees, NEW tree \in Trees,
                Mutate(t, base, tree)
         PROVE  ClosedHoldsNothing'
    BY <2>7 DEF Mutate
  <2>8. ASSUME NEW n \in Names, NEW tree \in Trees, NEW s \in Stamps,
                PublishNamedRoot(t, n, tree, s)
         PROVE  ClosedHoldsNothing'
    BY <2>8 DEF PublishNamedRoot, StageRoot, UnstagedVars
  <2>9. ASSUME NEW n \in Names,
                DeleteNamedRoot(t, n)
         PROVE  ClosedHoldsNothing'
    BY <2>9 DEF DeleteNamedRoot, StageRoot, UnstagedVars
  <2>10. ASSUME NEW n \in Names, NEW e \in Trees \cup {Absent}, NEW v \in RootValue,
                CompareNamedRoot(t, n, e, v)
         PROVE  ClosedHoldsNothing'
    BY <2>10 DEF CompareNamedRoot, UnstagedVars
  <2>11. ASSUME NEW s \in swaps[t],
                SwapNamedRoot(t, s)
         PROVE  ClosedHoldsNothing'
    BY <2>11 DEF SwapNamedRoot, StageRoot, UnstagedVars
  <2>. QED BY <1>1, <2>1, <2>2, <2>3, <2>4, <2>5, <2>6, <2>7, <2>8, <2>9, <2>10, <2>11 DEF TxNext
<1>2. ASSUME NEW w \in Writers, WriterNext(w) PROVE ClosedHoldsNothing'
  BY <1>2, WriterFrame DEF txVars
<1>3. ASSUME NEW g \in Collectors, GcNext(g) PROVE ClosedHoldsNothing'
  BY <1>3, GcFrame DEF txVars
<1>4. CASE UNCHANGED vars
  BY <1>4 DEF vars, txVars
<1>. QED BY <1>1, <1>2, <1>3, <1>4 DEF Next

\* Every step keeps what was shown equal to what will be validated.
LEMMA SeenStep ==
    ASSUME TypeOK, SeenIsRead, [Next]_vars
    PROVE  SeenIsRead'
<1>. USE DEF TypeOK, SeenIsRead
<1>1. ASSUME NEW t \in Txs, TxNext(t) PROVE SeenIsRead'
  <2>1. CASE Begin(t)
    BY <2>1 DEF Begin
  <2>2. CASE Commit(t)
    BY <2>2 DEF Commit, Finish, Quiescent, NoNames
  <2>3. CASE CommitConflict(t)
    BY <2>3 DEF CommitConflict, Finish, Quiescent, NoNames
  <2>4. CASE Rollback(t)
    BY <2>4 DEF Rollback, Finish, Quiescent, NoNames
  <2>5. ASSUME NEW n \in Names,
                ReadBaseRoot(t, n)
         PROVE  SeenIsRead'
    BY <2>5 DEF ReadBaseRoot
  <2>6. ASSUME NEW n \in Names, NEW v \in RootValue,
                RecordRootRead(t, n, v)
         PROVE  SeenIsRead'
    <3>. DEFINE observed == OrInsert(rootReads[t][n], v)
    <3>1. /\ rootReads[t][n] \in {Unset, observed}
          /\ UNCHANGED <<rootWrites, swaps>>
          /\ \/ UNCHANGED <<rootReads, seen, handles>>
             \/ /\ rootReads' = [rootReads EXCEPT ![t][n] = observed]
                /\ seen' = [seen EXCEPT ![t][n] = @ \cup {observed}]
                /\ handles' = [handles EXCEPT ![t] =
                      @ \cup (IF observed = Absent THEN {} ELSE {observed.tree})]
      <4>. HIDE DEF TypeOK, SeenIsRead
      <4>. QED BY <2>6, RecordEffect, SMT
    <3>. HIDE DEF observed
    <3>2. CASE UNCHANGED <<rootReads, seen, handles>>
      BY <3>2
    <3>3. CASE /\ rootReads' = [rootReads EXCEPT ![t][n] = observed]
               /\ seen' = [seen EXCEPT ![t][n] = @ \cup {observed}]
      <4>. SUFFICES ASSUME NEW u \in Txs, NEW m \in Names, NEW x \in seen'[u][m]
                    PROVE  x = rootReads'[u][m]
        OBVIOUS
      <4>1. CASE u = t /\ m = n
        <5>1. x \in seen[t][n] \/ x = observed
          BY <3>3, <4>1
        <5>2. rootReads'[t][n] = observed
          BY <3>3
        <5>3. x \in seen[t][n] => rootReads[t][n] # Unset
          BY SentinelAssumption, SMT
        <5>. QED BY <3>1, <4>1, <5>1, <5>2, <5>3
      <4>2. CASE u # t \/ m # n
        BY <3>3, <4>2
      <4>. QED BY <4>1, <4>2
    <3>. QED BY <3>1, <3>2, <3>3
  <2>7. ASSUME NEW base \in Trees, NEW tree \in Trees,
                Mutate(t, base, tree)
         PROVE  SeenIsRead'
    BY <2>7 DEF Mutate
  <2>8. ASSUME NEW n \in Names, NEW tree \in Trees, NEW s \in Stamps,
                PublishNamedRoot(t, n, tree, s)
         PROVE  SeenIsRead'
    BY <2>8 DEF PublishNamedRoot, StageRoot, UnstagedVars
  <2>9. ASSUME NEW n \in Names,
                DeleteNamedRoot(t, n)
         PROVE  SeenIsRead'
    BY <2>9 DEF DeleteNamedRoot, StageRoot, UnstagedVars
  <2>10. ASSUME NEW n \in Names, NEW e \in Trees \cup {Absent}, NEW v \in RootValue,
                CompareNamedRoot(t, n, e, v)
         PROVE  SeenIsRead'
    BY <2>10 DEF CompareNamedRoot, UnstagedVars
  <2>11. ASSUME NEW s \in swaps[t],
                SwapNamedRoot(t, s)
         PROVE  SeenIsRead'
    BY <2>11 DEF SwapNamedRoot, StageRoot, UnstagedVars
  <2>. QED BY <1>1, <2>1, <2>2, <2>3, <2>4, <2>5, <2>6, <2>7, <2>8, <2>9, <2>10, <2>11 DEF TxNext
<1>2. ASSUME NEW w \in Writers, WriterNext(w) PROVE SeenIsRead'
  BY <1>2, WriterFrame DEF txVars
<1>3. ASSUME NEW g \in Collectors, GcNext(g) PROVE SeenIsRead'
  BY <1>3, GcFrame DEF txVars
<1>4. CASE UNCHANGED vars
  BY <1>4 DEF vars, txVars
<1>. QED BY <1>1, <1>2, <1>3, <1>4 DEF Next

\* Every step keeps the staged manifests among the held trees.
LEMMA StagedStep ==
    ASSUME TypeOK, ClosedHoldsNothing, StagedHeld, [Next]_vars
    PROVE  StagedHeld'
<1>. USE DEF TypeOK, StagedHeld
<1>1. ASSUME NEW t \in Txs, TxNext(t) PROVE StagedHeld'
  <2>1. CASE Begin(t)
    BY <2>1 DEF Begin, ClosedHoldsNothing
  <2>2. CASE Commit(t)
    BY <2>2 DEF Commit, Finish, Quiescent, NoNames
  <2>3. CASE CommitConflict(t)
    BY <2>3 DEF CommitConflict, Finish, Quiescent, NoNames
  <2>4. CASE Rollback(t)
    BY <2>4 DEF Rollback, Finish, Quiescent, NoNames
  <2>5. ASSUME NEW n \in Names,
                ReadBaseRoot(t, n)
         PROVE  StagedHeld'
    BY <2>5 DEF ReadBaseRoot
  <2>6. ASSUME NEW n \in Names, NEW v \in RootValue,
                RecordRootRead(t, n, v)
         PROVE  StagedHeld'
    <3>. DEFINE observed == OrInsert(rootReads[t][n], v)
    <3>1. /\ rootReads[t][n] \in {Unset, observed}
          /\ UNCHANGED <<rootWrites, swaps>>
          /\ \/ UNCHANGED <<rootReads, seen, handles>>
             \/ /\ rootReads' = [rootReads EXCEPT ![t][n] = observed]
                /\ seen' = [seen EXCEPT ![t][n] = @ \cup {observed}]
                /\ handles' = [handles EXCEPT ![t] =
                      @ \cup (IF observed = Absent THEN {} ELSE {observed.tree})]
      <4>. HIDE DEF TypeOK, StagedHeld
      <4>. QED BY <2>6, RecordEffect, SMT
    <3>. HIDE DEF observed
    <3>2. \A u \in Txs : handles[u] \subseteq handles'[u]
      <4>1. CASE UNCHANGED handles
        BY <4>1
      <4>2. CASE handles' = [handles EXCEPT ![t] =
                    @ \cup (IF observed = Absent THEN {} ELSE {observed.tree})]
        BY <4>2
      <4>. QED BY <3>1, <4>1, <4>2
    <3>. QED BY <3>1, <3>2
  <2>7. ASSUME NEW base \in Trees, NEW tree \in Trees,
                Mutate(t, base, tree)
         PROVE  StagedHeld'
    BY <2>7 DEF Mutate
  <2>8. ASSUME NEW n \in Names, NEW tree \in Trees, NEW s \in Stamps,
                PublishNamedRoot(t, n, tree, s)
         PROVE  StagedHeld'
    BY <2>8 DEF PublishNamedRoot, StageRoot, UnstagedVars
  <2>9. ASSUME NEW n \in Names,
                DeleteNamedRoot(t, n)
         PROVE  StagedHeld'
    BY <2>9 DEF DeleteNamedRoot, StageRoot, UnstagedVars
  <2>10. ASSUME NEW n \in Names, NEW e \in Trees \cup {Absent}, NEW v \in RootValue,
                CompareNamedRoot(t, n, e, v)
         PROVE  StagedHeld'
    BY <2>10, SMT DEF CompareNamedRoot, UnstagedVars, Swap
  <2>11. ASSUME NEW s \in swaps[t],
                SwapNamedRoot(t, s)
         PROVE  StagedHeld'
    BY <2>11 DEF SwapNamedRoot, StageRoot, UnstagedVars, Swap
  <2>. QED BY <1>1, <2>1, <2>2, <2>3, <2>4, <2>5, <2>6, <2>7, <2>8, <2>9, <2>10, <2>11 DEF TxNext
<1>2. ASSUME NEW w \in Writers, WriterNext(w) PROVE StagedHeld'
  BY <1>2, WriterFrame DEF txVars
<1>3. ASSUME NEW g \in Collectors, GcNext(g) PROVE StagedHeld'
  BY <1>3, GcFrame DEF txVars
<1>4. CASE UNCHANGED vars
  BY <1>4 DEF vars, txVars
<1>. QED BY <1>1, <1>2, <1>3, <1>4 DEF Next

-----------------------------------------------------------------------------
\* Every step keeps the held trees covered.
LEMMA CoveredStep ==
    ASSUME TypeOK, HandlesCovered, [Next]_vars
    PROVE  HandlesCovered'
<1>. USE DEF TypeOK, HandlesCovered, Covered
<1>1. ASSUME NEW t \in Txs, TxNext(t) PROVE HandlesCovered'
  <2>1. CASE Begin(t)
    BY <2>1, EmptyTreeAssumption DEF Begin
  <2>2. CASE Commit(t)
    BY <2>2 DEF Commit, Finish, Quiescent
  <2>3. CASE CommitConflict(t)
    BY <2>3 DEF CommitConflict, Finish, Quiescent
  <2>4. CASE Rollback(t)
    BY <2>4 DEF Rollback, Finish, Quiescent
  <2>5. ASSUME NEW n \in Names,
                ReadBaseRoot(t, n)
         PROVE  HandlesCovered'
    BY <2>5 DEF ReadBaseRoot
  <2>6. ASSUME NEW n \in Names, NEW v \in RootValue,
                RecordRootRead(t, n, v)
         PROVE  HandlesCovered'
    <3>. DEFINE observed == OrInsert(rootReads[t][n], v)
    <3>1. /\ observed \in RootValue
          /\ rootReads[t][n] \in {Unset, observed}
          /\ UNCHANGED nodeWrites
          /\ \/ UNCHANGED <<rootReads, handles>>
             \/ /\ rootReads' = [rootReads EXCEPT ![t][n] = observed]
                /\ handles' = [handles EXCEPT ![t] =
                      @ \cup (IF observed = Absent THEN {} ELSE {observed.tree})]
      <4>. HIDE DEF TypeOK, HandlesCovered, Covered
      <4>. QED BY <2>6, RecordEffect, SMT
    <3>. HIDE DEF observed
    <3>2. CASE UNCHANGED <<rootReads, handles>>
      BY <3>1, <3>2
    <3>3. CASE /\ rootReads' = [rootReads EXCEPT ![t][n] = observed]
               /\ handles' = [handles EXCEPT ![t] =
                     @ \cup (IF observed = Absent THEN {} ELSE {observed.tree})]
      <4>0. /\ \A u \in Txs, m \in Names :
                  rootReads[u][m] # Unset => rootReads'[u][m] = rootReads[u][m]
            /\ rootReads'[t][n] = observed /\ observed # Unset
        <5>. HIDE DEF HandlesCovered, Covered
        <5>. QED BY <3>1, <3>3, SentinelAssumption
      <4>1. \A u \in Txs : \A c : Covered(u, c) => Covered(u, c)'
        <5>. HIDE DEF HandlesCovered, TypeOK
        <5>. QED BY <3>1, <4>0
      <4>2. \A c \in ReachOf(observed) : Covered(t, c)'
        <5>. HIDE DEF HandlesCovered, TypeOK
        <5>. QED BY <4>0
      <4>. SUFFICES ASSUME NEW u \in Txs, NEW h \in handles'[u], NEW c \in Reach[h]
                    PROVE  Covered(u, c)'
        BY DEF HandlesCovered
      <4>. HIDE DEF Covered
      <4>3. CASE h \in handles[u]
        BY <4>1, <4>3
      <4>4. CASE h \notin handles[u]
        <5>1. u = t /\ observed # Absent /\ h = observed.tree
          BY <3>3, <4>4
        <5>. QED BY <4>2, <5>1 DEF ReachOf
      <4>. QED BY <4>3, <4>4
    <3>. QED BY <3>1, <3>2, <3>3
  <2>7. ASSUME NEW base \in Trees, NEW tree \in Trees,
                Mutate(t, base, tree)
         PROVE  HandlesCovered'
    BY <2>7 DEF Mutate
  <2>8. ASSUME NEW n \in Names, NEW tree \in Trees, NEW s \in Stamps,
                PublishNamedRoot(t, n, tree, s)
         PROVE  HandlesCovered'
    BY <2>8 DEF PublishNamedRoot, StageRoot, UnstagedVars
  <2>9. ASSUME NEW n \in Names,
                DeleteNamedRoot(t, n)
         PROVE  HandlesCovered'
    BY <2>9 DEF DeleteNamedRoot, StageRoot, UnstagedVars
  <2>10. ASSUME NEW n \in Names, NEW e \in Trees \cup {Absent}, NEW v \in RootValue,
                CompareNamedRoot(t, n, e, v)
         PROVE  HandlesCovered'
    BY <2>10 DEF CompareNamedRoot, UnstagedVars
  <2>11. ASSUME NEW s \in swaps[t],
                SwapNamedRoot(t, s)
         PROVE  HandlesCovered'
    BY <2>11 DEF SwapNamedRoot, StageRoot, UnstagedVars
  <2>. QED BY <1>1, <2>1, <2>2, <2>3, <2>4, <2>5, <2>6, <2>7, <2>8, <2>9, <2>10, <2>11 DEF TxNext
<1>2. ASSUME NEW w \in Writers, WriterNext(w) PROVE HandlesCovered'
  BY <1>2, WriterFrame DEF txVars
<1>3. ASSUME NEW g \in Collectors, GcNext(g) PROVE HandlesCovered'
  BY <1>3, GcFrame DEF txVars
<1>4. CASE UNCHANGED vars
  BY <1>4 DEF vars, txVars
<1>. QED BY <1>1, <1>2, <1>3, <1>4 DEF Next

-----------------------------------------------------------------------------
(* Named roots stay complete *)

\* A validated commit publishes complete trees only.
LEMMA CommitKeepsRootsComplete ==
    ASSUME IInv, NEW t \in Txs, Commit(t)
    PROVE  RootsComplete'
<1>. SUFFICES ASSUME NEW n \in Names, NEW c \in ReachOf(roots'[n])
              PROVE  c \in nodes'
  BY DEF RootsComplete
<1>1. /\ ConditionsHold(rootReads[t])
      /\ nodes' = nodes \cup nodeWrites[t]
      /\ roots'[n] = IF rootWrites[t][n] = Unset THEN roots[n] ELSE rootWrites[t][n]
  BY DEF Commit, CommitTransaction, AppliedRoots
<1>2. CASE rootWrites[t][n] = Unset
  BY <1>1, <1>2 DEF IInv, RootsComplete
<1>3. CASE rootWrites[t][n] # Unset
  <2>1. rootWrites[t][n] # Absent /\ c \in Reach[rootWrites[t][n].tree]
    BY <1>1, <1>3 DEF ReachOf
  <2>2. Covered(t, c)
    BY <1>3, <2>1 DEF IInv, StagedHeld, HandlesCovered
  <2>3. CASE c \in nodeWrites[t]
    BY <1>1, <2>3
  <2>4. ASSUME NEW m \in Names, rootReads[t][m] # Unset, c \in ReachOf(rootReads[t][m])
        PROVE  c \in nodes'
    <3>1. rootReads[t][m] = roots[m]
      BY <1>1, <2>4 DEF ConditionsHold
    <3>. QED BY <1>1, <2>4, <3>1 DEF IInv, RootsComplete
  <2>. QED BY <2>2, <2>3, <2>4 DEF Covered
<1>. QED BY <1>2, <1>3

\* Every step keeps the roots complete.
LEMMA RootsStep ==
    ASSUME IInv, [Next]_vars
    PROVE  RootsComplete'
<1>. USE DEF IInv, RootsComplete
<1>1. ASSUME NEW t \in Txs, TxNext(t) PROVE RootsComplete'
  BY <1>1, TxFrame, CommitKeepsRootsComplete DEF storeVars
<1>2. ASSUME NEW w \in Writers, WriterNext(w) PROVE RootsComplete'
  <2>1. ASSUME NEW n \in Names, WriterLoad(w, n) PROVE RootsComplete'
    BY <2>1 DEF WriterLoad
  <2>2. ASSUME NEW tree \in Trees, WriterBuild(w, tree) PROVE RootsComplete'
    BY <2>2 DEF WriterBuild, BatchPut
  <2>3. ASSUME NEW n \in Names, NEW s \in Stamps, WriterPublish(w, n, s) PROVE RootsComplete'
    BY <2>3 DEF WriterPublish, PutRoot, WritersSafe, ReachOf, TypeOK, StoreTypeOK
  <2>4. CASE WriterCompare(w)
    BY <2>4 DEF WriterCompare
  <2>5. ASSUME NEW v \in RootValue, WriterSwap(w, v) PROVE RootsComplete'
    <3>1. Reach[wtree[w]] \subseteq nodes
      BY <2>5 DEF WriterSwap, WritersSafe
    <3>2. CASE CompareAndSwapRoot(wname[w], wcurrent[w], v)
      BY <2>5, <3>1, <3>2
      DEF WriterSwap, CompareAndSwapRoot, ReachOf, TypeOK, StoreTypeOK
    <3>3. CASE UNCHANGED roots
      BY <2>5, <3>3 DEF WriterSwap
    <3>. QED BY <2>5, <3>2, <3>3 DEF WriterSwap
  <2>6. ASSUME NEW n \in Names, WriterDelete(w, n) PROVE RootsComplete'
    BY <2>6 DEF WriterDelete, DeleteRoot, ReachOf, TypeOK, StoreTypeOK
  <2>. QED BY <1>2, <2>1, <2>2, <2>3, <2>4, <2>5, <2>6 DEF WriterNext
<1>3. ASSUME NEW g \in Collectors, GcNext(g) PROVE RootsComplete'
  <2>1. CASE GcSweep(g)
    BY <2>1 DEF GcSweep, BatchDelete, CollectorsSafe
  <2>2. CASE GcLoadRoots(g) \/ GcPlan(g)
    BY <2>2 DEF GcLoadRoots, GcPlan
  <2>. QED BY <1>3, <2>1, <2>2 DEF GcNext
<1>4. CASE UNCHANGED vars
  BY <1>4 DEF vars
<1>. QED BY <1>1, <1>2, <1>3, <1>4 DEF Next

\* Every step keeps the nodes a writer relies on.
LEMMA WritersStep ==
    ASSUME IInv, [Next]_vars
    PROVE  WritersSafe'
<1>. USE DEF IInv, WritersSafe, NoCollection, TypeOK, StoreTypeOK
<1>1. ASSUME NEW t \in Txs, TxNext(t) PROVE WritersSafe'
  <2>1. nodes \subseteq nodes'
    BY <1>1, TxFrame DEF Commit, CommitTransaction, storeVars
  <2>. QED BY <1>1, <2>1, TxFrame DEF writerVars, gcVars
<1>2. ASSUME NEW w \in Writers, WriterNext(w) PROVE WritersSafe'
  <2>. USE WriterFrame DEF gcVars
  <2>1. ASSUME NEW n \in Names, WriterLoad(w, n) PROVE WritersSafe'
    BY <1>2, <2>1 DEF WriterLoad, RootsComplete
  <2>2. ASSUME NEW tree \in Trees, WriterBuild(w, tree) PROVE WritersSafe'
    <3>1. /\ nodes' = nodes \cup (Reach[tree] \ ReachOf(wbase[w])) /\ wpc[w] = "loaded"
          /\ wpc' = [wpc EXCEPT ![w] = "built"] /\ wtree' = [wtree EXCEPT ![w] = tree]
          /\ UNCHANGED <<wbase, wcurrent, gpc>>
      BY <2>2 DEF WriterBuild, BatchPut
    <3>2. Reach[tree] \subseteq nodes' BY <3>1
    <3>3. nodes \subseteq nodes' BY <3>1
    <3>4. /\ wpc'[w] = "built" /\ wtree'[w] = tree
          /\ \A u \in Writers \ {w} : wpc'[u] = wpc[u] /\ wtree'[u] = wtree[u]
      BY <3>1
    <3>. SUFFICES ASSUME NEW u \in Writers
                  PROVE  /\ wpc'[u] # "idle" => NoCollection'
                         /\ wpc'[u] = "loaded" => ReachOf(wbase[u]) \subseteq nodes'
                         /\ wpc'[u] \in {"built", "cas"} => Reach[wtree'[u]] \subseteq nodes'
                         /\ wpc'[u] = "cas" => TreeOf(wcurrent[u]) = TreeOf(wbase[u])
      BY <3>1
    <3>5. CASE u = w BY <3>1, <3>2, <3>4, <3>5
    <3>6. CASE u # w BY <3>1, <3>3, <3>4, <3>6
    <3>. QED BY <3>5, <3>6
  <2>3. ASSUME NEW n \in Names, NEW s \in Stamps, WriterPublish(w, n, s) PROVE WritersSafe'
    BY <1>2, <2>3 DEF WriterPublish, WriterFinish
  <2>4. CASE WriterCompare(w)
    <3>1. UNCHANGED <<nodes, gpc>> /\ wpc[w] = "built" BY <2>4 DEF WriterCompare, gcVars
    <3>2. CASE TreeOf(roots[wname[w]]) = TreeOf(wbase[w])
      <4>1. /\ UNCHANGED <<wbase, wtree>> /\ wpc'[w] = "cas"
            /\ wcurrent'[w] = roots[wname[w]]
            /\ \A u \in Writers \ {w} : wpc'[u] = wpc[u] /\ wcurrent'[u] = wcurrent[u]
        BY <2>4, <3>2 DEF WriterCompare
      <4>. QED BY <3>1, <3>2, <4>1
    <3>3. CASE TreeOf(roots[wname[w]]) # TreeOf(wbase[w])
      <4>1. /\ wpc'[w] = "idle"
            /\ \A u \in Writers \ {w} : /\ wpc'[u] = wpc[u] /\ wbase'[u] = wbase[u]
                                        /\ wtree'[u] = wtree[u] /\ wcurrent'[u] = wcurrent[u]
        <5>1. /\ DOMAIN wpc = Writers /\ DOMAIN wbase = Writers
              /\ DOMAIN wtree = Writers /\ DOMAIN wcurrent = Writers
          OBVIOUS
        <5>. HIDE DEF IInv, WritersSafe, NoCollection, TypeOK, StoreTypeOK
        <5>. QED BY <2>4, <3>3, <5>1 DEF WriterCompare, WriterFinish
      <4>. QED BY <3>1, <4>1
    <3>. QED BY <3>2, <3>3
  <2>5. ASSUME NEW v \in RootValue, WriterSwap(w, v) PROVE WritersSafe'
    BY <1>2, <2>5 DEF WriterSwap, WriterFinish
  <2>6. ASSUME NEW n \in Names, WriterDelete(w, n) PROVE WritersSafe'
    BY <1>2, <2>6 DEF WriterDelete, writerVars
  <2>. QED BY <1>2, <2>1, <2>2, <2>3, <2>4, <2>5, <2>6 DEF WriterNext
<1>3. ASSUME NEW g \in Collectors, GcNext(g) PROVE WritersSafe'
  <2>1. CASE GcLoadRoots(g)
    BY <2>1 DEF GcLoadRoots, writerVars
  <2>2. CASE GcPlan(g)
    BY <2>2 DEF GcPlan, GcFinish, writerVars
  <2>3. CASE GcSweep(g)
    BY <2>3 DEF GcSweep, GcFinish, writerVars
  <2>. QED BY <1>3, <2>1, <2>2, <2>3 DEF GcNext
<1>4. CASE UNCHANGED vars
  BY <1>4 DEF vars, writerVars, gcVars
<1>. QED BY <1>1, <1>2, <1>3, <1>4 DEF Next

\* Every step keeps the plans of collectors clear of live nodes.
LEMMA CollectorsStep ==
    ASSUME IInv, [Next]_vars
    PROVE  CollectorsSafe'
<1>. USE DEF IInv, CollectorsSafe, NoCollection, TypeOK, StoreTypeOK
<1>1. ASSUME NEW t \in Txs, TxNext(t) PROVE CollectorsSafe'
  BY <1>1, TxFrame DEF Commit, gcVars, storeVars
<1>2. ASSUME NEW w \in Writers, WriterNext(w) PROVE CollectorsSafe'
  <2>. USE WriterFrame DEF gcVars
  <2>1. CASE wpc[w] # "idle"
    BY <1>2, <2>1 DEF WritersSafe
  <2>2. ASSUME NEW n \in Names, WriterDelete(w, n) PROVE CollectorsSafe'
    BY <1>2, <2>2 DEF WriterDelete, DeleteRoot, ReachOf
  <2>3. ASSUME NEW n \in Names, WriterLoad(w, n) PROVE CollectorsSafe'
    BY <1>2, <2>3 DEF WriterLoad
  <2>. QED BY <1>2, <2>1, <2>2, <2>3
       DEF WriterNext, WriterBuild, WriterPublish, WriterCompare, WriterSwap
<1>3. ASSUME NEW g \in Collectors, GcNext(g) PROVE CollectorsSafe'
  <2>1. CASE GcLoadRoots(g)
    <3>. DEFINE held == {v.tree : v \in {roots[n] : n \in Names} \ {Absent}}
    <3>1. /\ gpc' = [gpc EXCEPT ![g] = "loaded"] /\ gtrees' = [gtrees EXCEPT ![g] = held]
          /\ UNCHANGED <<roots, greclaim>>
      BY <2>1 DEF GcLoadRoots
    <3>2. \A n \in Names : roots[n] # Absent => roots[n].tree \in held OBVIOUS
    <3>. HIDE DEF held
    <3>3. /\ gpc'[g] = "loaded" /\ gtrees'[g] = held
          /\ \A h \in Collectors \ {g} : gpc'[h] = gpc[h] /\ gtrees'[h] = gtrees[h]
      BY <3>1
    <3>. QED BY <3>1, <3>2, <3>3
  <2>2. CASE GcPlan(g)
    <3>1. CASE Live(gtrees[g]) \subseteq nodes
      <4>1. /\ gpc[g] = "loaded" /\ UNCHANGED <<roots, gtrees>>
            /\ gpc'[g] = "planned" /\ greclaim'[g] = nodes \ Live(gtrees[g])
            /\ \A h \in Collectors \ {g} : gpc'[h] = gpc[h] /\ greclaim'[h] = greclaim[h]
        <5>1. DOMAIN gpc = Collectors /\ DOMAIN greclaim = Collectors OBVIOUS
        <5>. HIDE DEF IInv, CollectorsSafe, NoCollection, TypeOK, StoreTypeOK
        <5>. QED BY <2>2, <3>1, <5>1 DEF GcPlan
      <4>2. \A n \in Names : ReachOf(roots[n]) \subseteq Live(gtrees[g])
        <5>1. \A n \in Names : roots[n] # Absent => roots[n].tree \in gtrees[g] BY <4>1
        <5>. HIDE DEF IInv, CollectorsSafe, NoCollection, TypeOK, StoreTypeOK
        <5>. QED BY <5>1 DEF Live, ReachOf
      <4>3. \A n \in Names : greclaim'[g] \cap ReachOf(roots[n]) = {} BY <4>1, <4>2
      <4>. QED BY <4>1, <4>3
    <3>2. CASE ~(Live(gtrees[g]) \subseteq nodes)
      BY <2>2, <3>2, ZenonT(60) DEF GcPlan, GcFinish
    <3>. QED BY <3>1, <3>2
  <2>3. CASE GcSweep(g)
    BY <2>3 DEF GcSweep, GcFinish
  <2>. QED BY <1>3, <2>1, <2>2, <2>3 DEF GcNext
<1>4. CASE UNCHANGED vars
  BY <1>4 DEF vars, gcVars
<1>. QED BY <1>1, <1>2, <1>3, <1>4 DEF Next

\* The initial state satisfies the invariant.
LEMMA IInvInit == Init => IInv
<1>. SUFFICES ASSUME Init PROVE IInv
  OBVIOUS
<1>1. RootsComplete BY DEF Init, StoreInit, RootsComplete, ReachOf
<1>2. HandlesCovered /\ ClosedHoldsNothing
  BY DEF Init, HandlesCovered, ClosedHoldsNothing
<1>3. StagedHeld BY DEF Init, StagedHeld, NoNames
<1>4. SeenIsRead BY DEF Init, SeenIsRead, NoNames
<1>5. WritersSafe BY DEF Init, WritersSafe
<1>6. CollectorsSafe BY DEF Init, CollectorsSafe
<1>. QED BY <1>1, <1>2, <1>3, <1>4, <1>5, <1>6, TypeInit DEF IInv

\* The invariant is inductive.
LEMMA IInvStep == IInv /\ [Next]_vars => IInv'
BY TypeStep, RootsStep, CoveredStep, StagedStep, ClosedStep, SeenStep, WritersStep,
   CollectorsStep
DEF IInv

\* The invariant holds in every reachable state.
LEMMA IInvInvariant == Spec => []IInv
BY IInvInit, IInvStep, PTL DEF Spec

\* Every variable keeps its type (no sentinel leaks into a stored manifest).
THEOREM TypeCorrect == Spec => []TypeOK
BY TypeInit, TypeStep, PTL DEF Spec

\* Whatever transactions commit, writers publish and collectors sweep, a name
\* that resolves in the store resolves to a tree all of whose nodes are stored.
THEOREM RootsAlwaysComplete == Spec => []RootsComplete
BY IInvInvariant, PTL DEF IInv

\* get_root never shows one transaction two manifests of the same base root.
THEOREM ReadsRepeat == Spec => []RepeatableReads
<1>1. IInv => RepeatableReads
  BY DEF IInv, SeenIsRead, RepeatableReads
<1>. QED BY <1>1, IInvInvariant, PTL

\* An applied commit validated everything its client was shown.
THEOREM AppliedCommitsAreCurrent == Spec => AppliedReadsAreCurrent
<1>. DEFINE Applies(t) == phase[t] = "open" /\ phase'[t] = "applied"
            Current(t) == \A n \in Names : seen[t][n] \subseteq {roots[n]}
<1>1. ASSUME IInv, [Next]_vars, NEW t \in Txs, Applies(t) PROVE Current(t)
  <2>1. Commit(t)
    <3>1. ASSUME NEW u \in Txs, TxNext(u), ~Commit(t) PROVE FALSE
      <4>1. Commit(u) \/ phase' = [phase EXCEPT ![u] = "open"]
                      \/ phase' = [phase EXCEPT ![u] = "idle"] \/ UNCHANGED phase
        BY <3>1 DEF TxNext, Begin, CommitConflict, Rollback, Finish, ReadBaseRoot,
                    RecordRootRead, Mutate, PublishNamedRoot, DeleteNamedRoot,
                    CompareNamedRoot, SwapNamedRoot, UnstagedVars
      <4>2. Commit(u) => u = t
        BY <1>1 DEF Commit, Finish, IInv, TypeOK
      <4>. QED BY <1>1, <3>1, <4>1, <4>2 DEF IInv, TypeOK
    <3>2. ASSUME UNCHANGED phase PROVE FALSE
      BY <1>1, <3>2
    <3>. QED BY <1>1, <3>1, <3>2, WriterFrame, GcFrame DEF Next, vars, txVars
  <2>2. ConditionsHold(rootReads[t])
    BY <2>1 DEF Commit, CommitTransaction
  <2>. QED BY <1>1, <2>2, SentinelAssumption, SMT
           DEF IInv, SeenIsRead, ConditionsHold, TypeOK
<1>2. IInv /\ [Next]_vars => [\A t \in Txs : Applies(t) => Current(t)]_vars
  BY <1>1
<1>. QED BY <1>2, IInvInvariant, PTL DEF Spec, AppliedReadsAreCurrent

\* Outside a transaction, a compare-and-swap that changes a root replaces the
\* tree its client built upon.
THEOREM SwapsReplaceTheirBase == Spec => SwapReplacesItsBase
<1>. DEFINE Swaps(w) == wpc[w] = "cas" /\ wpc'[w] = "idle" /\ roots' # roots
            OnBase(w) == TreeOf(roots[wname[w]]) = TreeOf(wbase[w])
<1>1. ASSUME IInv, [Next]_vars, NEW w \in Writers, Swaps(w) PROVE OnBase(w)
  <2>1. WriterNext(w)
    <3>1. ASSUME NEW u \in Writers, WriterNext(u), u # w PROVE FALSE
      BY <1>1, <3>1 DEF WriterNext, WriterLoad, WriterBuild, WriterPublish,
           WriterCompare, WriterSwap, WriterDelete, WriterFinish, writerVars, IInv, TypeOK
    <3>. QED BY <1>1, <3>1, TxFrame, GcFrame DEF Next, vars, writerVars
  <2>2. \E v \in RootValue : WriterSwap(w, v)
    BY <1>1, <2>1 DEF WriterNext, WriterLoad, WriterBuild, WriterPublish,
         WriterCompare, WriterDelete
  <2>3. roots[wname[w]] = wcurrent[w]
    BY <1>1, <2>2 DEF WriterSwap, CompareAndSwapRoot
  <2>. QED BY <1>1, <2>3 DEF IInv, WritersSafe
<1>2. IInv /\ [Next]_vars => [\A w \in Writers : Swaps(w) => OnBase(w)]_vars
  BY <1>1
<1>. QED BY <1>2, IInvInvariant, PTL DEF Spec, SwapReplacesItsBase
=============================================================================
