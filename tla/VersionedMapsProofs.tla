------------------------- MODULE VersionedMapsProofs -------------------------
(***************************************************************************)
(* Theorems about VersionedMaps.  The inductive invariant IInv says of     *)
(* each client what its own variables guarantee (ClientInv), and of the    *)
(* store only that a catalog name holds its own version and that the head  *)
(* is cataloged.  A step changes the variables of one client, and only a   *)
(* commit whose reads are validated changes the map's roots.               *)
(***************************************************************************)
EXTENDS VersionedMaps, TLAPS

\* Zenon is tried on every leaf; the leaves that need arithmetic or the extensionality
\* of functions and records cite SMT.
USE Zenon

\* No client but c moves.
Frame(c) ==
    \A d \in Clients \ {c} :
       /\ pc'[d] = pc[d]
       /\ op'[d] = op[d]
       /\ reads'[d] = reads[d]
       /\ writes'[d] = writes[d]
       /\ todo'[d] = todo[d]
       /\ result'[d] = result[d]

\* The invariant of a client only depends on its own variables.
LEMMA ClientInvLocal ==
    ASSUME NEW d \in Clients, ClientInv(d),
           pc'[d] = pc[d], op'[d] = op[d], reads'[d] = reads[d], writes'[d] = writes[d],
           todo'[d] = todo[d], result'[d] = result[d]
    PROVE  ClientInv(d)'
<1>1. OpShape(d)' BY DEF ClientInv, OpShape
<1>2. Stages(d)' BY DEF ClientInv, Stages
<1>3. ReadSet(d)' BY DEF ClientInv, ReadSet, NoEntries
<1>4. Staged(d)' BY DEF ClientInv, Staged
<1>5. PublishesCataloged(d)' BY DEF ClientInv, PublishesCataloged, Cataloged
<1>6. PruneSparesHead(d)' BY DEF ClientInv, PruneSparesHead
<1>7. BuildsOnHead(d)' BY DEF ClientInv, BuildsOnHead, TreeOf, BaseOf
<1> QED BY <1>1, <1>2, <1>3, <1>4, <1>5, <1>6, <1>7 DEF ClientInv

\* A step of c that keeps its own invariant keeps everybody's.
LEMMA OneClientMoves ==
    ASSUME NEW c \in Clients, \A d \in Clients : ClientInv(d), Frame(c), ClientInv(c)'
    PROVE  \A d \in Clients : ClientInv(d)'
<1> SUFFICES ASSUME NEW d \in Clients, d # c PROVE ClientInv(d)'
    OBVIOUS
<1> QED BY ClientInvLocal DEF Frame

\* A returned operation leaves nothing behind.
LEMMA IdleClient ==
    ASSUME NEW c \in Clients, pc'[c] = "idle", reads'[c] = NoEntries, writes'[c] = NoEntries
    PROVE  ClientInv(c)'
<1> USE NamesAssumption, SentinelAssumption
<1>1. writes'[c] = [n \in Names |-> Unset] BY DEF NoEntries
<1>2. \A n \in Names : writes'[c][n] = Unset BY <1>1
<1>3. HeadName \in Names /\ StateName \in Names /\ Trees \subseteq Names OBVIOUS
<1>4. Unset # Absent BY DEF RootValue
<1>5. OpShape(c)' BY DEF OpShape
<1>6. Stages(c)' BY DEF Stages
<1>7. ReadSet(c)' BY DEF ReadSet, NoEntries
<1>8. Staged(c)' BY <1>2, <1>3, <1>4 DEF Staged
<1>9. PublishesCataloged(c)' BY DEF PublishesCataloged
<1>10. PruneSparesHead(c)' BY <1>2, <1>3, <1>4 DEF PruneSparesHead
<1>11. BuildsOnHead(c)' BY DEF BuildsOnHead
<1> QED BY <1>5, <1>6, <1>7, <1>8, <1>9, <1>10, <1>11 DEF ClientInv

\* The part of TypeOK that a client's step touches.
ClientTypes ==
    /\ pc \in [Clients -> {"idle", "outside", "guard", "head", "version", "list", "names",
                           "commit"}]
    /\ op \in [Clients -> Running \cup {None}]
    /\ \A c \in Clients : pc[c] # "idle" => op[c] \in Running
    /\ reads \in [Clients -> [Names -> MaybeRootValue]]
    /\ writes \in [Clients -> [Names -> MaybeRootValue]]
    /\ todo \in [Clients -> SUBSET Trees]
    /\ tries \in [Clients -> 0 .. MaxRetries - 1]
    /\ result \in [Clients -> {"none", "applied", "unchanged", "conflict", "error", "corrupt"}]

\* The empty overlay is well typed.
LEMMA NoEntriesType == NoEntries \in [Names -> MaybeRootValue]
BY DEF NoEntries, MaybeRootValue

\* Return ends a call, whatever its outcome.
LEMMA ReturnKeeps ==
    ASSUME TypeOK, \A d \in Clients : ClientInv(d),
           NEW c \in Clients, NEW outcome \in {"applied", "unchanged", "conflict", "error",
                                               "corrupt"},
           Return(c, outcome)
    PROVE  ClientTypes' /\ \A d \in Clients : ClientInv(d)'
<1>1. ClientTypes'
  BY NoEntriesType, RetriesAssumption, SMT DEF Return, Goto, TypeOK, ClientTypes
<1>2. Frame(c) BY DEF Return, Goto, TypeOK, Frame
<1>3. ClientInv(c)'
  <2>1. pc'[c] = "idle" /\ reads'[c] = NoEntries /\ writes'[c] = NoEntries
    BY DEF Return, Goto, TypeOK
  <2> QED BY <2>1, IdleClient
<1> QED BY <1>1, <1>2, <1>3, OneClientMoves

\* A new round starts like the first, but for append's head and tree.
LEMMA RetryKeeps ==
    ASSUME TypeOK, \A d \in Clients : ClientInv(d),
           NEW c \in Clients, pc[c] \in {"head", "commit"}, Retry(c)
    PROVE  ClientTypes' /\ \A d \in Clients : ClientInv(d)'
<1>1. CASE op[c].kind \in Retrying /\ tries[c] + 1 < MaxRetries
  <2>1. /\ tries' = [tries EXCEPT ![c] = @ + 1]
        /\ pc' = [pc EXCEPT ![c] = IF op[c].kind = "append" THEN "outside" ELSE "guard"]
        /\ reads' = [reads EXCEPT ![c] = NoEntries]
        /\ writes' = [writes EXCEPT ![c] = NoEntries]
        /\ UNCHANGED <<op, todo, result>>
    BY <1>1 DEF Retry, Goto
  <2>2. tries[c] + 1 \in 0 .. MaxRetries - 1
    BY <1>1, RetriesAssumption, SMT DEF TypeOK
  <2>3. ClientTypes'
    BY <2>1, <2>2, NoEntriesType DEF TypeOK, ClientTypes
  <2>4. Frame(c) BY <2>1 DEF TypeOK, Frame
  <2>5. /\ pc'[c] = IF op[c].kind = "append" THEN "outside" ELSE "guard"
        /\ reads'[c] = NoEntries /\ writes'[c] = NoEntries
        /\ op'[c] = op[c] /\ todo'[c] = todo[c] /\ result'[c] = result[c]
    BY <2>1 DEF TypeOK
  <2> HIDE <2>1
  <2>6. ClientInv(c)'
    <3> USE NamesAssumption, SentinelAssumption
    <3>1. \A n \in Names : writes'[c][n] = Unset BY <2>5 DEF NoEntries
    <3>2. HeadName \in Names /\ StateName \in Names /\ Trees \subseteq Names OBVIOUS
    <3>3. Unset # Absent BY DEF RootValue
    <3>4. OpShape(c)' BY <2>5 DEF ClientInv, OpShape
    <3>5. Stages(c)' BY <2>5 DEF Stages, ReadsOutside
    <3>6. ReadSet(c)' BY <2>5 DEF ReadSet, NoEntries
    <3>7. Staged(c)' BY <3>1, <3>2, <3>3 DEF Staged
    <3>8. PublishesCataloged(c)' BY <2>5 DEF PublishesCataloged
    <3>9. PruneSparesHead(c)' BY <2>5, <3>1, <3>2, <3>3 DEF PruneSparesHead
    <3>10. BuildsOnHead(c)' BY <2>5 DEF BuildsOnHead
    <3> QED BY <3>4, <3>5, <3>6, <3>7, <3>8, <3>9, <3>10 DEF ClientInv
  <2> QED BY <2>3, <2>4, <2>6, OneClientMoves
<1>2. CASE ~(op[c].kind \in Retrying /\ tries[c] + 1 < MaxRetries)
  <2>1. \E outcome \in {"error", "conflict"} : Return(c, outcome) BY <1>2 DEF Retry
  <2> QED BY <2>1, ReturnKeeps
<1> QED BY <1>1, <1>2

\* The arguments of a call are those of its operation.
LEMMA CallArguments ==
    ASSUME NEW o \in Calls
    PROVE  /\ o \in Running
           /\ o.kind \in Updates \cup Publishes \cup {"prune"}
           /\ o.mutation # None <=> o.kind \in Updates
           /\ o.kind \in Publishes => o.tree # None
           /\ o.kind = "restore_backup" => o.tree = Backup.head
           /\ o.kind = "prune" => o.expected = None
<1> USE NoneAssumption, BackupAssumption DEF Op, Running, Updates, Publishes
<1> DEFINE expected == Trees \cup {Absent}
<1>1. \/ o \in Op({"apply", "append"}, Mutations, {None}, {None})
      \/ o \in Op({"apply_if"}, Mutations, expected, {None})
      \/ o \in Op({"rebuild_if", "restore_if", "tx_restore_if"}, {None}, expected, Trees)
      \/ o \in Op({"merge"}, {None}, Trees, Trees)
      \/ o \in Op({"rollback_to", "import"}, {None}, {None}, Trees)
      \/ o \in Op({"restore_backup"}, {None}, {Absent}, {Backup.head})
      \/ o \in Op({"prune"}, {None}, {None}, {None})
  BY DEF Calls
<1>2. CASE o \in Op({"apply", "append"}, Mutations, {None}, {None}) BY <1>2
<1>3. CASE o \in Op({"apply_if"}, Mutations, expected, {None}) BY <1>3
<1>4. CASE o \in Op({"rebuild_if", "restore_if", "tx_restore_if"}, {None}, expected, Trees)
  BY <1>4
<1>5. CASE o \in Op({"merge"}, {None}, Trees, Trees) BY <1>5
<1>6. CASE o \in Op({"rollback_to", "import"}, {None}, {None}, Trees) BY <1>6
<1>7. CASE o \in Op({"restore_backup"}, {None}, {Absent}, {Backup.head}) BY <1>7
<1>8. CASE o \in Op({"prune"}, {None}, {None}, {None}) BY <1>8
<1> HIDE DEF Op
<1> QED BY <1>1, <1>2, <1>3, <1>4, <1>5, <1>6, <1>7, <1>8

\* A call begins with arguments of its kind and an empty overlay.
LEMMA CallKeeps ==
    ASSUME TypeOK, \A d \in Clients : ClientInv(d), NEW c \in Clients, NEW o \in Calls,
           Call(c, o)
    PROVE  ClientTypes' /\ \A d \in Clients : ClientInv(d)'
<1> DEFINE label == IF o.kind \in ReadsOutside THEN "outside" ELSE "guard"
<1>1. /\ pc' = [pc EXCEPT ![c] = label]
      /\ op' = [op EXCEPT ![c] = o]
      /\ result' = [result EXCEPT ![c] = "none"]
      /\ UNCHANGED <<reads, writes, todo, tries>>
      /\ pc[c] = "idle"
  BY DEF Call, Goto
<1>2. label \in {"outside", "guard"} OBVIOUS
<1>3. o \in Running BY CallArguments
<1>4. ClientTypes'
  <2> HIDE DEF label
  <2> QED BY <1>1, <1>2, <1>3 DEF TypeOK, ClientTypes
<1>5. Frame(c) BY <1>1 DEF TypeOK, Frame
<1>6. ClientInv(c)'
  <2>1. /\ pc'[c] = label /\ op'[c] = o /\ result'[c] = "none"
        /\ reads'[c] = reads[c] /\ writes'[c] = writes[c] /\ todo'[c] = todo[c]
    BY <1>1 DEF TypeOK
  <2>2. reads[c] = NoEntries /\ writes[c] = NoEntries BY <1>1 DEF ClientInv, ReadSet
  <2>3. OpShape(c)' BY <2>1, CallArguments DEF OpShape
  <2>4. Stages(c)' BY <2>1 DEF Stages
  <2>5. ReadSet(c)' BY <2>1, <2>2 DEF ReadSet, NoEntries
  <2>6. Staged(c)' BY <2>1 DEF ClientInv, Staged
  <2>7. PublishesCataloged(c)' BY <2>1 DEF PublishesCataloged
  <2>8. PruneSparesHead(c)'
    <3>1. \A t \in Trees : writes'[c][t] # Absent
      BY <2>1, <2>2, NamesAssumption, SentinelAssumption DEF NoEntries, RootValue
    <3> QED BY <3>1, <2>1 DEF PruneSparesHead
  <2>9. BuildsOnHead(c)' BY <2>1 DEF BuildsOnHead, ReadsOutside
  <2> QED BY <2>3, <2>4, <2>5, <2>6, <2>7, <2>8, <2>9 DEF ClientInv
<1> QED BY <1>4, <1>5, <1>6, OneClientMoves

\* The head is a version or absent.
LEMMA HeadTreeType ==
    ASSUME TypeOK
    PROVE  HeadTree \in Trees \cup {Absent}
BY NamesAssumption DEF TypeOK, HeadTree, TreeOf, RootValue, Manifest

\* A batch applied to a head is a version.
LEMMA BatchType ==
    ASSUME NEW m \in Mutations, NEW t \in Trees \cup {Absent}
    PROVE  Batch[m][BaseOf(t)] \in Trees
BY BatchAssumption, EmptyTreeAssumption DEF BaseOf

\* The read before the transaction keeps the client's invariant.
LEMMA ReadOutsideKeeps ==
    ASSUME TypeOK, \A d \in Clients : ClientInv(d), NEW c \in Clients, ReadOutside(c)
    PROVE  ClientTypes' /\ \A d \in Clients : ClientInv(d)'
<1>0. pc[c] = "outside" /\ op[c] \in Running BY DEF ReadOutside, TypeOK
<1>1. ASSUME pc' = [pc EXCEPT ![c] = "guard"], UNCHANGED <<reads, writes, todo, tries, result>>,
             op' = [op EXCEPT ![c] = op'[c]], op'[c] \in Running, OpShape(c)', BuildsOnHead(c)'
      PROVE  ClientTypes' /\ \A d \in Clients : ClientInv(d)'
  <2>1. ClientTypes' BY <1>1 DEF TypeOK, ClientTypes
  <2>2. Frame(c) BY <1>1 DEF TypeOK, Frame
  <2>3. /\ pc'[c] = "guard" /\ reads'[c] = reads[c] /\ writes'[c] = writes[c]
        /\ todo'[c] = todo[c]
    BY <1>1 DEF TypeOK
  <2>4. reads[c] = NoEntries /\ writes[c] = NoEntries BY <1>0 DEF ClientInv, ReadSet
  <2>5. Stages(c)' BY <2>3 DEF Stages
  <2>6. ReadSet(c)' BY <2>3, <2>4 DEF ReadSet, NoEntries
  <2>7. Staged(c)' BY <2>3 DEF ClientInv, Staged
  <2>8. PublishesCataloged(c)' BY <2>3 DEF PublishesCataloged
  <2>9. PruneSparesHead(c)'
    <3>1. \A t \in Trees : writes'[c][t] # Absent
      BY <2>3, <2>4, NamesAssumption, SentinelAssumption DEF NoEntries, RootValue
    <3> QED BY <3>1, <2>3 DEF PruneSparesHead
  <2>10. ClientInv(c)' BY <1>1, <2>5, <2>6, <2>7, <2>8, <2>9 DEF ClientInv
  <2> QED BY <2>1, <2>2, <2>10, OneClientMoves
<1>2. CASE op[c].kind = "append"
  <2> DEFINE tree == Batch[op[c].mutation][BaseOf(HeadTree)]
  <2>1. /\ pc' = [pc EXCEPT ![c] = "guard"]
        /\ op' = [op EXCEPT ![c].expected = HeadTree, ![c].tree = tree]
        /\ UNCHANGED <<reads, writes, todo, tries, result>>
    BY <1>2 DEF ReadOutside, PrepareAppend, Goto
  <2>2. op[c].mutation \in Mutations /\ op[c].mutation # None
    BY <1>0, <1>2 DEF ClientInv, OpShape, Running, Updates
  <2>3. tree \in Trees /\ HeadTree \in Trees \cup {Absent}
    BY <2>2, HeadTreeType, BatchType
  <2>4. op'[c] = [op[c] EXCEPT !.expected = HeadTree, !.tree = tree]
    BY <2>1 DEF TypeOK
  <2>5. op' = [op EXCEPT ![c] = op'[c]] BY <2>1, <2>4 DEF TypeOK
  <2> HIDE DEF tree
  <2>6. /\ op'[c] \in Running
        /\ op'[c].kind = op[c].kind /\ op'[c].mutation = op[c].mutation
        /\ op'[c].expected = HeadTree /\ op'[c].tree = tree
    BY <2>3, <2>4, <1>0 DEF Running
  <2>7. pc'[c] = "guard" /\ result'[c] = result[c] BY <2>1 DEF TypeOK
  <2>8. OpShape(c)'
    BY <2>6, <2>7, <2>2, <1>0, <1>2 DEF ClientInv, OpShape, Updates, Publishes
  <2>9. BuildsOnHead(c)'
    <3>1. HeadTree # None BY <2>3, NoneAssumption
    <3>2. tree = Batch[op'[c].mutation][BaseOf(op'[c].expected)] BY <2>6 DEF tree
    <3> QED BY <3>1, <3>2, <2>6, <2>7 DEF BuildsOnHead
  <2> QED BY <1>1, <2>1, <2>5, <2>6, <2>8, <2>9
<1>3. CASE op[c].kind # "append"
  <2>1. \/ /\ pc' = [pc EXCEPT ![c] = "guard"]
           /\ UNCHANGED <<op, reads, writes, todo, tries, result>>
        \/ \E outcome \in {"conflict", "error"} : Return(c, outcome)
    BY <1>3 DEF ReadOutside, Goto
  <2>2. CASE /\ pc' = [pc EXCEPT ![c] = "guard"]
             /\ UNCHANGED <<op, reads, writes, todo, tries, result>>
    <3>1. /\ pc'[c] = "guard" /\ op'[c] = op[c] /\ result'[c] = result[c]
          /\ op' = [op EXCEPT ![c] = op'[c]]
      BY <2>2 DEF TypeOK
    <3>2. OpShape(c)' BY <3>1, <1>0 DEF ClientInv, OpShape
    <3>3. BuildsOnHead(c)' BY <3>1, <1>3 DEF BuildsOnHead
    <3> QED BY <1>1, <2>2, <3>1, <3>2, <3>3, <1>0
  <2>3. CASE \E outcome \in {"conflict", "error"} : Return(c, outcome)
    BY <2>3, ReturnKeeps
  <2> QED BY <2>1, <2>2, <2>3
<1> QED BY <1>2, <1>3

\* So does the guard, which puts the absent collection state into the read set,
LEMMA GuardKeeps ==
    ASSUME TypeOK, \A d \in Clients : ClientInv(d), NEW c \in Clients, Guard(c)
    PROVE  ClientTypes' /\ \A d \in Clients : ClientInv(d)'
<1>1. CASE roots[StateName] # Absent
  BY <1>1, ReturnKeeps DEF Guard
<1>2. CASE roots[StateName] = Absent
  <2>1. /\ pc[c] = "guard"
        /\ pc' = [pc EXCEPT ![c] = "head"]
        /\ reads' = [reads EXCEPT ![c] = [@ EXCEPT ![StateName] = Absent]]
        /\ UNCHANGED <<op, writes, todo, tries, result>>
    BY <1>2 DEF Guard, Goto, Read
  <2>2. StateName \in Names /\ Absent \in MaybeRootValue
    BY NamesAssumption DEF MaybeRootValue, RootValue
  <2>3. ClientTypes' BY <2>1, <2>2 DEF TypeOK, ClientTypes
  <2>4. Frame(c) BY <2>1 DEF TypeOK, Frame
  <2>5. /\ pc'[c] = "head" /\ op'[c] = op[c] /\ writes'[c] = writes[c]
        /\ todo'[c] = todo[c] /\ result'[c] = result[c] /\ reads'[c][StateName] = Absent
    BY <2>1, <2>2 DEF TypeOK
  <2>6. writes[c] = NoEntries BY <2>1 DEF ClientInv, ReadSet
  <2>7. OpShape(c)' BY <2>1, <2>5 DEF ClientInv, OpShape
  <2>8. Stages(c)' BY <2>5 DEF Stages
  <2>9. ReadSet(c)' BY <2>5, <2>6 DEF ReadSet, NoEntries
  <2>10. Staged(c)' BY <2>5 DEF ClientInv, Staged
  <2>11. PublishesCataloged(c)' BY <2>5 DEF PublishesCataloged
  <2>12. PruneSparesHead(c)'
    <3>1. \A t \in Trees : writes'[c][t] # Absent
      BY <2>5, <2>6, NamesAssumption, SentinelAssumption DEF NoEntries, RootValue
    <3> QED BY <3>1, <2>5 DEF PruneSparesHead
  <2>13. BuildsOnHead(c)' BY <2>1, <2>5 DEF ClientInv, BuildsOnHead, BaseOf
  <2>14. ClientInv(c)'
    BY <2>7, <2>8, <2>9, <2>10, <2>11, <2>12, <2>13 DEF ClientInv
  <2> QED BY <2>3, <2>4, <2>14, OneClientMoves
<1> QED BY <1>1, <1>2

\* What an operation publishes is a tree, unless it is a prune.
LEMMA TargetType ==
    ASSUME TypeOK, NEW c \in Clients, ClientInv(c), pc[c] = "head"
    PROVE  /\ Target(c, HeadTree) \in Trees \cup {None}
           /\ op[c].kind # "prune" => Target(c, HeadTree) # None
           /\ op[c].kind \in Publishes => Target(c, HeadTree) = op[c].tree
           /\ op[c].kind \in {"apply", "apply_if"} =>
                 Target(c, HeadTree) = Batch[op[c].mutation][BaseOf(HeadTree)]
           /\ op[c].kind = "append" => Target(c, HeadTree) = op[c].tree
<1>1. op[c] \in Running BY DEF TypeOK
<1>2. CASE op[c].kind \in Updates
  <2>1. op[c].mutation \in Mutations
    BY <1>1, <1>2 DEF ClientInv, OpShape, Running
  <2>2. CASE op[c].kind \in {"apply", "apply_if"}
    <3>1. Target(c, HeadTree) = Batch[op[c].mutation][BaseOf(HeadTree)]
      BY <2>2 DEF Target
    <3>2. Target(c, HeadTree) \in Trees BY <3>1, <2>1, HeadTreeType, BatchType
    <3> QED BY <2>2, <3>1, <3>2, NoneAssumption DEF Publishes
  <2>3. CASE op[c].kind = "append"
    <3>1. Target(c, HeadTree) = op[c].tree BY <2>3 DEF Target
    <3>2. /\ op[c].expected \in Trees \cup {Absent}
          /\ op[c].tree = Batch[op[c].mutation][BaseOf(op[c].expected)]
      BY <2>3, <1>1 DEF ClientInv, BuildsOnHead, Running
    <3>3. op[c].tree \in Trees BY <2>1, <3>2, BatchType
    <3> QED BY <2>3, <3>1, <3>3, NoneAssumption DEF Publishes
  <2> QED BY <1>2, <2>2, <2>3 DEF Updates
<1>3. CASE op[c].kind \notin Updates
  BY <1>1, <1>3 DEF ClientInv, OpShape, Running, Target, Updates, Publishes
<1> QED BY <1>2, <1>3

\* the load of the head, from which the target is built,
LEMMA ReadHeadKeeps ==
    ASSUME TypeOK, \A d \in Clients : ClientInv(d), NEW c \in Clients, NEW stamp \in Stamps,
           ReadHead(c, stamp)
    PROVE  ClientTypes' /\ \A d \in Clients : ClientInv(d)'
<1> DEFINE current == HeadTree
           target == Target(c, current)
           expects == op[c].expected \notin {None, current}
           kind == op[c].kind
           label == IF kind = "prune" THEN "list"
                    ELSE IF kind = "restore_backup" THEN "names"
                    ELSE IF kind = "rollback_to" \/ target = current THEN "commit"
                    ELSE "version"
           versions == IF kind = "restore_backup" THEN Backup.versions ELSE {}
           head == [tree |-> target, stamp |-> stamp]
<1>0. pc[c] = "head" /\ op[c] \in Running BY DEF ReadHead, TypeOK
<1>1. CASE expects
  <2>1. Return(c, "error") \/ Retry(c) BY <1>1 DEF ReadHead
  <2> QED BY <2>1, <1>0, ReturnKeeps, RetryKeeps
<1>2. CASE ~expects /\ target = current /\ kind \in {"rollback_to", "import"}
  <2>1. Return(c, "unchanged") BY <1>2 DEF ReadHead
  <2> QED BY <2>1, ReturnKeeps
<1>3. CASE ~expects /\ ~(target = current /\ kind \in {"rollback_to", "import"})
  <2>1. /\ reads' = [reads EXCEPT ![c] = [@ EXCEPT ![HeadName] = roots[HeadName]]]
        /\ op' = [op EXCEPT ![c] = [@ EXCEPT !.tree = target]]
        /\ pc' = [pc EXCEPT ![c] = label]
        /\ todo' = [todo EXCEPT ![c] = versions]
        /\ UNCHANGED <<tries, result>>
    BY <1>3 DEF ReadHead, Read, Goto
  <2>2. IF kind = "rollback_to"
        THEN writes' = [writes EXCEPT ![c] = [@ EXCEPT ![HeadName] = head]]
        ELSE writes' = writes
    BY <1>3 DEF ReadHead, Stage
  <2>3. /\ HeadName \in Names /\ StateName \in Names /\ Trees \subseteq Names
        /\ HeadName # StateName /\ HeadName \notin Trees
    BY NamesAssumption
  <2>4. /\ target \in Trees \cup {None}
        /\ kind # "prune" => target # None
        /\ kind \in Publishes => target = op[c].tree
        /\ kind \in {"apply", "apply_if"} => target = Batch[op[c].mutation][BaseOf(current)]
        /\ kind = "append" => target = op[c].tree
    BY <1>0, TargetType
  <2>5. kind = "rollback_to" => head \in Manifest /\ head # Absent /\ head # Unset
    BY <2>4, SentinelAssumption, SMT DEF Manifest, RootValue
  <2>6. /\ label \in {"list", "names", "commit", "version"}
        /\ label = "list" <=> kind = "prune"
        /\ label = "names" <=> kind = "restore_backup"
        /\ kind = "rollback_to" => label = "commit"
        /\ label = "commit" => kind = "rollback_to" \/ target = current
    <3> HIDE DEF target, current, kind
    <3>1. CASE kind = "prune" BY <3>1
    <3>2. CASE kind = "restore_backup" BY <3>2
    <3>3. CASE kind \notin {"prune", "restore_backup"}
               /\ (kind = "rollback_to" \/ target = current)
      BY <3>3
    <3>4. CASE kind \notin {"prune", "restore_backup"}
               /\ ~(kind = "rollback_to" \/ target = current)
      BY <3>4
    <3> QED BY <3>1, <3>2, <3>3, <3>4
  <2>7. /\ roots[HeadName] \in RootValue /\ roots[HeadName] # Unset
        /\ TreeOf(roots[HeadName]) = current
        /\ current \in Trees \cup {Absent}
    BY <2>3, SentinelAssumption, HeadTreeType, SMT DEF TypeOK, HeadTree
  <2>8. versions \in SUBSET Trees BY BackupAssumption
  <2> HIDE DEF current, target, label, versions, head
  <2>9. op'[c] = [op[c] EXCEPT !.tree = target] BY <2>1 DEF TypeOK
  <2>10. /\ op'[c] \in Running
         /\ op'[c].kind = op[c].kind /\ op'[c].mutation = op[c].mutation
         /\ op'[c].expected = op[c].expected /\ op'[c].tree = target
    BY <2>9, <2>4, <1>0 DEF Running
  <2>11. ClientTypes'
    <3>1. /\ pc' \in [Clients -> {"idle", "outside", "guard", "head", "version", "list",
                                  "names", "commit"}]
          /\ todo' \in [Clients -> SUBSET Trees]
          /\ tries' = tries /\ result' = result
      BY <2>1, <2>6, <2>8 DEF TypeOK
    <3>2. /\ op' \in [Clients -> Running \cup {None}]
          /\ \A d \in Clients : pc'[d] # "idle" => op'[d] \in Running
      BY <2>1, <2>10, <1>0 DEF TypeOK
    <3>3. reads' \in [Clients -> [Names -> MaybeRootValue]]
      BY <2>1, <2>3, <2>7 DEF TypeOK, MaybeRootValue
    <3>4. writes' \in [Clients -> [Names -> MaybeRootValue]]
      <4>1. CASE kind = "rollback_to"
        <5>1. head \in MaybeRootValue BY <4>1, <2>5 DEF MaybeRootValue, RootValue
        <5>2. writes' = [writes EXCEPT ![c] = [@ EXCEPT ![HeadName] = head]] BY <4>1, <2>2
        <5> QED BY <5>1, <5>2, <2>3 DEF TypeOK
      <4>2. CASE kind # "rollback_to"
        <5>1. writes' = writes BY <4>2, <2>2
        <5> QED BY <5>1 DEF TypeOK
      <4> QED BY <4>1, <4>2
    <3> QED BY <3>1, <3>2, <3>3, <3>4 DEF TypeOK, ClientTypes
  <2>12. Frame(c) BY <2>1, <2>2 DEF TypeOK, Frame
  <2>13. /\ pc'[c] = label /\ result'[c] = result[c] /\ todo'[c] = versions
         /\ reads'[c][HeadName] = roots[HeadName]
         /\ reads'[c][StateName] = reads[c][StateName]
    BY <2>1, <2>3 DEF TypeOK
  <2>14. /\ writes[c] = NoEntries /\ reads[c][StateName] = Absent
    BY <1>0 DEF ClientInv, ReadSet
  <2>15. /\ kind # "rollback_to" => writes'[c] = NoEntries
         /\ kind # "rollback_to" => writes'[c][HeadName] = Unset
         /\ kind = "rollback_to" => writes'[c][HeadName] = head
         /\ \A n \in Names \ {HeadName} : writes'[c][n] = Unset
    BY <2>2, <2>3, <2>14, SMT DEF TypeOK, NoEntries
  <2>16. Unset # Absent BY SentinelAssumption DEF RootValue
  <2>17. OpShape(c)'
    BY <2>10, <2>13, <2>4, <1>0 DEF ClientInv, OpShape, Updates, Publishes
  <2>18. Stages(c)' BY <2>6, <2>10, <2>13, <2>4 DEF Stages
  <2>19. ReadSet(c)'
    BY <2>6, <2>7, <2>10, <2>13, <2>14, <2>15 DEF ReadSet, NoEntries
  <2>20. Staged(c)' BY <2>3, <2>5, <2>15, <2>16 DEF Staged
  <2>21. PublishesCataloged(c)'
    BY <2>6, <2>10, <2>13, <2>15 DEF PublishesCataloged, versions
  <2>22. PruneSparesHead(c)'
    BY <2>3, <2>6, <2>10, <2>13, <2>15, <2>16 DEF PruneSparesHead
  <2>23. BuildsOnHead(c)'
    <3>1. op[c].expected # None => op[c].expected = current BY <1>3 DEF current
    <3>2. op[c].mutation # None =>
             /\ kind # "rollback_to"
             /\ target = Batch[op[c].mutation][BaseOf(current)]
      BY <1>0, <2>4, <3>1 DEF ClientInv, OpShape, BuildsOnHead, Updates
    <3>3. TreeOf(reads'[c][HeadName]) = current BY <2>13, <2>7
    <3> QED BY <2>6, <2>10, <2>13, <2>15, <3>1, <3>2, <3>3 DEF BuildsOnHead
  <2>24. ClientInv(c)'
    BY <2>17, <2>18, <2>19, <2>20, <2>21, <2>22, <2>23 DEF ClientInv
  <2> QED BY <2>11, <2>12, <2>24, OneClientMoves
<1> QED BY <1>1, <1>2, <1>3

\* the load of the catalog entry, which stages head and entry together,
LEMMA ReadVersionKeeps ==
    ASSUME TypeOK, \A d \in Clients : ClientInv(d), NEW c \in Clients, NEW stamp \in Stamps,
           ReadVersion(c, stamp)
    PROVE  ClientTypes' /\ \A d \in Clients : ClientInv(d)'
<1> DEFINE t == op[c].tree
           m == [tree |-> t, stamp |-> stamp]
           entry == IF roots[t] = Absent THEN m ELSE writes[c][t]
<1>1. CASE op[c].kind = "tx_restore_if" /\ roots[t] = Absent
  BY <1>1, ReturnKeeps DEF ReadVersion
<1>2. CASE ~(op[c].kind = "tx_restore_if" /\ roots[t] = Absent)
  <2>1. /\ pc[c] = "version"
        /\ reads' = [reads EXCEPT ![c] = [@ EXCEPT ![t] = roots[t]]]
        /\ writes' = [writes EXCEPT ![c] = [@ EXCEPT ![HeadName] = m, ![t] = entry]]
        /\ pc' = [pc EXCEPT ![c] = "commit"]
        /\ UNCHANGED <<op, todo, tries, result>>
    BY <1>2 DEF ReadVersion, Goto, Read
  <2>2. t \in Trees /\ op[c].kind \notin {"prune", "restore_backup", "rollback_to"}
    BY <2>1 DEF ClientInv, Stages, TypeOK, Running
  <2>3. /\ HeadName \in Names /\ StateName \in Names /\ t \in Names /\ Trees \subseteq Names
        /\ HeadName # StateName /\ HeadName \notin Trees /\ StateName \notin Trees
    BY <2>2, NamesAssumption
  <2>4. m \in MaybeRootValue /\ m # Absent /\ m # Unset /\ m.tree = t
    BY <2>2, SentinelAssumption, SMT DEF MaybeRootValue, RootValue, Manifest
  <2>5. roots[t] \in MaybeRootValue /\ roots[t] # Unset /\ Unset # Absent
    BY <2>3, SentinelAssumption DEF TypeOK, MaybeRootValue, RootValue
  <2>0. entry \in MaybeRootValue BY <2>3, <2>4 DEF TypeOK
  <2> HIDE DEF m, t, entry
  <2>6. ClientTypes' BY <2>0, <2>1, <2>3, <2>4, <2>5 DEF TypeOK, ClientTypes
  <2>7. Frame(c) BY <2>1 DEF TypeOK, Frame
  <2>8. writes[c] = NoEntries /\ reads[c][StateName] = Absent /\ reads[c][HeadName] # Unset
    BY <2>1 DEF ClientInv, ReadSet
  <2>9. /\ pc'[c] = "commit" /\ op'[c] = op[c] /\ todo'[c] = todo[c] /\ result'[c] = result[c]
        /\ reads'[c][t] = roots[t]
        /\ reads'[c][StateName] = reads[c][StateName]
        /\ reads'[c][HeadName] = reads[c][HeadName]
    BY <2>1, <2>2, <2>3 DEF TypeOK
  <2>10. /\ writes'[c][HeadName] = m
         /\ writes'[c][t] = IF roots[t] = Absent THEN m ELSE Unset
         /\ \A n \in Names \ {HeadName, t} : writes'[c][n] = Unset
    <3>1. /\ writes'[c][HeadName] = m /\ writes'[c][t] = entry
          /\ \A n \in Names \ {HeadName, t} : writes'[c][n] = writes[c][n]
      BY <2>1, <2>2, <2>3 DEF TypeOK
    <3>2. \A n \in Names : writes[c][n] = Unset BY <2>8 DEF NoEntries
    <3> QED BY <3>1, <3>2, <2>3 DEF entry
  <2> HIDE <2>1
  <2>11. OpShape(c)' BY <2>1, <2>9 DEF ClientInv, OpShape
  <2>12. Stages(c)' BY <2>9 DEF Stages
  <2>13. ReadSet(c)' BY <2>8, <2>9 DEF ReadSet
  <2>14. Staged(c)' BY <2>2, <2>3, <2>4, <2>5, <2>10 DEF Staged
  <2>15. PublishesCataloged(c)'
    <3>1. Cataloged(c, t)' BY <2>4, <2>5, <2>9, <2>10 DEF Cataloged, t
    <3>2. writes'[c][HeadName].tree = t BY <2>4, <2>10
    <3> QED BY <3>1, <3>2, <2>9 DEF PublishesCataloged, t, Cataloged
  <2>16. PruneSparesHead(c)' BY <2>3, <2>4, <2>5, <2>9, <2>10 DEF PruneSparesHead
  <2>17. BuildsOnHead(c)'
    BY <2>1, <2>4, <2>9, <2>10 DEF ClientInv, BuildsOnHead, t, TreeOf, BaseOf
  <2>18. ClientInv(c)'
    BY <2>11, <2>12, <2>13, <2>14, <2>15, <2>16, <2>17 DEF ClientInv
  <2> QED BY <2>6, <2>7, <2>18, OneClientMoves
<1> QED BY <1>1, <1>2

\* the listing, which never selects the head for removal,
LEMMA ListVersionsKeeps ==
    ASSUME TypeOK, \A d \in Clients : ClientInv(d), NEW c \in Clients,
           NEW keep \in SUBSET Trees, ListVersions(c, keep)
    PROVE  ClientTypes' /\ \A d \in Clients : ClientInv(d)'
<1> DEFINE head == TreeOf(reads[c][HeadName])
           removed == Removed(head, keep)
<1>1. CASE \E outcome \in {"unchanged", "corrupt", "error"} : Return(c, outcome)
  BY <1>1, ReturnKeeps
<1>2. CASE /\ head \in Listed
           /\ pc' = [pc EXCEPT ![c] = "names"]
           /\ todo' = [todo EXCEPT ![c] = removed]
           /\ UNCHANGED <<op, reads, writes, tries, result>>
  <2>1. pc[c] = "list" BY DEF ListVersions
  <2>2. removed \in SUBSET Trees /\ head \notin removed BY DEF Removed, Listed
  <2>3. reads[c][HeadName] # Absent /\ reads[c][HeadName].tree = head
    BY <1>2, NoneAssumption DEF Listed, TreeOf
  <2> HIDE DEF removed
  <2>4. ClientTypes' BY <1>2, <2>1, <2>2 DEF TypeOK, ClientTypes
  <2>5. Frame(c) BY <1>2 DEF TypeOK, Frame
  <2>6. /\ pc'[c] = "names" /\ todo'[c] = removed /\ op'[c] = op[c] /\ result'[c] = result[c]
        /\ reads'[c] = reads[c] /\ writes'[c] = writes[c]
    BY <1>2 DEF TypeOK
  <2>7. op[c].kind = "prune" /\ op[c].expected = None
    BY <2>1 DEF ClientInv, Stages, OpShape
  <2>8. /\ writes[c] = NoEntries /\ reads[c][StateName] = Absent /\ reads[c][HeadName] # Unset
    BY <2>1 DEF ClientInv, ReadSet
  <2>9. \A n \in Names : writes[c][n] = Unset BY <2>8 DEF NoEntries
  <2>10. HeadName \in Names /\ Trees \subseteq Names /\ Unset # Absent
    BY NamesAssumption, SentinelAssumption DEF RootValue
  <2>11. OpShape(c)' BY <2>1, <2>6 DEF ClientInv, OpShape
  <2>12. Stages(c)' BY <2>6, <2>7 DEF Stages
  <2>13. ReadSet(c)' BY <2>6, <2>8, <2>9, <2>10 DEF ReadSet
  <2>14. Staged(c)' BY <2>6 DEF ClientInv, Staged
  <2>15. PublishesCataloged(c)' BY <2>6, <2>7 DEF PublishesCataloged
  <2>16. PruneSparesHead(c)' BY <2>2, <2>3, <2>6, <2>8, <2>9, <2>10 DEF PruneSparesHead
  <2>17. BuildsOnHead(c)' BY <2>6, <2>7 DEF BuildsOnHead
  <2>18. ClientInv(c)'
    BY <2>11, <2>12, <2>13, <2>14, <2>15, <2>16, <2>17 DEF ClientInv
  <2> QED BY <2>4, <2>5, <2>18, OneClientMoves
<1> QED BY <1>1, <1>2 DEF ListVersions, Goto

-----------------------------------------------------------------------------
\* The read of a catalog name by a prune or a restored backup keeps the invariant.
LEMMA ReadNameKeeps ==
    ASSUME TypeOK, \A d \in Clients : ClientInv(d), NEW c \in Clients, NEW t \in Trees,
           NEW stamp \in Stamps, ReadName(c, t, stamp)
    PROVE  ClientTypes' /\ \A d \in Clients : ClientInv(d)'
<1> DEFINE last == todo[c] = {t}
           kind == op[c].kind
           m == [tree |-> t, stamp |-> stamp]
           head == [tree |-> op[c].tree, stamp |-> stamp]
           pruning == kind = "prune"
           absent == roots[t] = Absent
           entry == IF pruning /\ ~absent THEN Absent
                    ELSE IF ~pruning /\ absent THEN m
                    ELSE writes[c][t]
           headEntry == IF ~pruning /\ last THEN head ELSE writes[c][HeadName]
<1>1. /\ pc[c] = "names" /\ t \in todo[c]
      /\ reads' = [reads EXCEPT ![c] = [@ EXCEPT ![t] = roots[t]]]
      /\ todo' = [todo EXCEPT ![c] = @ \ {t}]
      /\ pc' = IF last THEN [pc EXCEPT ![c] = "commit"] ELSE pc
      /\ UNCHANGED <<op, tries, result>>
  BY DEF ReadName, Read, Goto
<1>2. /\ HeadName \in Names /\ StateName \in Names /\ t \in Names /\ Trees \subseteq Names
      /\ HeadName # StateName /\ HeadName \notin Trees /\ StateName \notin Trees
  BY NamesAssumption
<1>3. writes' = [writes EXCEPT ![c] = [@ EXCEPT ![t] = entry, ![HeadName] = headEntry]]
  BY DEF ReadName
<1>4. /\ op[c] \in Running /\ kind \in {"prune", "restore_backup"}
      /\ kind = "restore_backup" => op[c].tree = Backup.head
      /\ op[c].mutation = None /\ (kind = "prune" => op[c].expected = None)
  BY <1>1 DEF TypeOK, ClientInv, OpShape, Stages, Updates
<1>5. kind # "prune" => head \in MaybeRootValue /\ head # Absent /\ head # Unset
  <2>1. kind # "prune" => op[c].tree \in Trees BY <1>4, BackupAssumption
  <2>2. kind # "prune" => head \in Manifest BY <2>1 DEF Manifest
  <2> HIDE DEF head
  <2> QED BY <2>2, SentinelAssumption DEF MaybeRootValue, RootValue
<1>6. m \in MaybeRootValue /\ m # Absent /\ m # Unset /\ m.tree = t
  BY SentinelAssumption, SMT DEF MaybeRootValue, RootValue, Manifest
<1>7. roots[t] \in MaybeRootValue /\ roots[t] # Unset /\ Unset # Absent /\ Absent \in MaybeRootValue
  BY <1>2, SentinelAssumption DEF TypeOK, MaybeRootValue, RootValue
<1>8. entry \in MaybeRootValue /\ headEntry \in MaybeRootValue
  BY <1>2, <1>5, <1>6, <1>7 DEF TypeOK
<1>9. /\ writes[c][HeadName] = Unset /\ reads[c][StateName] = Absent
      /\ reads[c][HeadName] # Unset
  BY <1>1 DEF ClientInv, ReadSet
<1> HIDE DEF m, head, entry, headEntry
<1>10. ClientTypes'
  <2>1. writes' \in [Clients -> [Names -> MaybeRootValue]]
    BY <1>2, <1>3, <1>8 DEF TypeOK
  <2>2. reads' \in [Clients -> [Names -> MaybeRootValue]]
    BY <1>1, <1>2, <1>7 DEF TypeOK
  <2>3. pc' \in [Clients -> {"idle", "outside", "guard", "head", "version", "list", "names",
                             "commit"}]
    BY <1>1 DEF TypeOK
  <2>4. \A d \in Clients : pc'[d] # "idle" => op'[d] \in Running
    BY <1>1, <1>4 DEF TypeOK
  <2> QED BY <1>1, <2>1, <2>2, <2>3, <2>4 DEF TypeOK, ClientTypes
<1>11. Frame(c) BY <1>1, <1>3 DEF TypeOK, Frame
<1>12. /\ pc'[c] = IF last THEN "commit" ELSE "names"
       /\ op'[c] = op[c] /\ todo'[c] = todo[c] \ {t} /\ result'[c] = result[c]
       /\ reads'[c][t] = roots[t]
       /\ \A n \in Names \ {t} : reads'[c][n] = reads[c][n]
  BY <1>1, <1>2 DEF TypeOK
<1>13. /\ writes'[c][t] = entry /\ writes'[c][HeadName] = headEntry
       /\ \A n \in Names \ {t, HeadName} : writes'[c][n] = writes[c][n]
  BY <1>2, <1>3 DEF TypeOK
<1>14. OpShape(c)' BY <1>1, <1>12 DEF ClientInv, OpShape
<1>15. Stages(c)' BY <1>4, <1>12 DEF Stages
<1>16. ReadSet(c)' BY <1>2, <1>9, <1>12, <1>13 DEF ReadSet, headEntry
<1>17. Staged(c)'
  <2>1. writes[c][StateName] = Unset
        /\ \A u \in Trees : writes[c][u] \notin {Unset, Absent} => writes[c][u].tree = u
    BY DEF ClientInv, Staged
  <2>2. headEntry # Absent BY <1>5, <1>7, <1>9 DEF headEntry
  <2>3. entry \notin {Unset, Absent} => entry.tree = t BY <1>6, <2>1 DEF entry
  <2>4. \A u \in Trees : writes'[c][u] \notin {Unset, Absent} => writes'[c][u].tree = u
    BY <1>2, <1>13, <2>1, <2>3
  <2> QED BY <1>2, <1>13, <2>1, <2>2, <2>4 DEF Staged
<1>18. ASSUME kind = "restore_backup" PROVE Cataloged(c, t)'
  <2>1. writes[c][t] # Absent BY <1>18 DEF ClientInv, PruneSparesHead
  <2> QED BY <2>1, <1>6, <1>7, <1>12, <1>13, <1>18 DEF Cataloged, entry
<1>19. ASSUME NEW u \in Trees, u # t, Cataloged(c, u) PROVE Cataloged(c, u)'
  BY <1>2, <1>12, <1>13, <1>19 DEF Cataloged
<1>20. PublishesCataloged(c)'
  <2>1. CASE kind = "prune"
    BY <2>1, <1>9, <1>12, <1>13 DEF PublishesCataloged, headEntry
  <2>2. CASE kind = "restore_backup"
    <3>1. \A u \in Backup.versions \ todo[c] : Cataloged(c, u)
      BY <2>2, <1>1 DEF ClientInv, PublishesCataloged
    <3>2. \A u \in Backup.versions \ (todo[c] \ {t}) : Cataloged(c, u)'
      BY <2>2, <3>1, <1>18, <1>19, BackupAssumption
    <3>3. last => writes'[c][HeadName].tree = Backup.head
      BY <2>2, <1>4, <1>13, SMT DEF headEntry, head
    <3>4. last => Cataloged(c, Backup.head)' BY <3>2, BackupAssumption
    <3>5. last => Cataloged(c, writes[c][HeadName].tree)' BY <3>3, <3>4 DEF Cataloged
    <3> QED BY <3>2, <3>5, <1>12 DEF PublishesCataloged
  <2> QED BY <2>1, <2>2, <1>4
<1>21. PruneSparesHead(c)'
  <2>1. CASE kind = "prune"
    <3>1. reads[c][HeadName] \notin {Unset, Absent} /\ reads[c][HeadName].tree \notin todo[c]
      BY <2>1, <1>1 DEF ClientInv, PruneSparesHead
    <3>2. writes'[c][HeadName] = Unset /\ reads'[c][HeadName] = reads[c][HeadName]
      BY <2>1, <1>2, <1>9, <1>12, <1>13 DEF headEntry
    <3>3. \A u \in Trees : writes'[c][u] = Absent => reads[c][HeadName].tree # u
      BY <3>1, <1>1, <1>2, <1>13 DEF ClientInv, PruneSparesHead
    <3> QED BY <2>1, <3>1, <3>2, <3>3, <1>12 DEF PruneSparesHead
  <2>2. CASE kind = "restore_backup"
    <3>1. \A u \in Trees : writes[c][u] # Absent BY <2>2 DEF ClientInv, PruneSparesHead
    <3>2. \A u \in Trees : writes'[c][u] # Absent
      BY <2>2, <3>1, <1>2, <1>6, <1>13 DEF entry
    <3> QED BY <2>2, <3>2, <1>12 DEF PruneSparesHead
  <2> QED BY <2>1, <2>2, <1>4
<1>22. BuildsOnHead(c)'
  <2>1. op[c].expected # None => op[c].expected = TreeOf(reads[c][HeadName])
    BY <1>1 DEF ClientInv, BuildsOnHead
  <2>2. reads'[c][HeadName] = reads[c][HeadName] BY <1>2, <1>12
  <2> QED BY <2>1, <2>2, <1>4, <1>12 DEF BuildsOnHead, TreeOf
<1>23. ClientInv(c)'
  BY <1>14, <1>15, <1>16, <1>17, <1>20, <1>21, <1>22 DEF ClientInv
<1> QED BY <1>10, <1>11, <1>23, OneClientMoves

\* A validated commit keeps the catalog sound and, unless it is a rollback,
\* the head cataloged.
LEMMA CommitRoots ==
    ASSUME IInv, NEW c \in Clients, Commit(c)
    PROVE  /\ roots' \in [Names -> RootValue]
           /\ CatalogIsContent'
           /\ "rollback_to" \notin Kinds => HeadCataloged'
<1> USE DEF IInv
<1>1. /\ pc[c] = "commit"
      /\ \A n \in Names : reads[c][n] \in {Unset, roots[n]}
      /\ roots' = [n \in Names |-> IF writes[c][n] = Unset THEN roots[n] ELSE writes[c][n]]
  BY DEF Commit, ConditionsHold
<1>2. \A n \in Names : roots'[n] = IF writes[c][n] = Unset THEN roots[n] ELSE writes[c][n]
  BY <1>1
<1>3. /\ HeadName \in Names /\ Trees \subseteq Names /\ HeadName \notin Trees
  BY NamesAssumption
<1>4. \A n \in Names : writes[c][n] = Unset \/ writes[c][n] \in RootValue
  BY SMT DEF TypeOK, MaybeRootValue
<1>5. roots' \in [Names -> RootValue] BY <1>1, <1>4 DEF TypeOK
<1>6. CatalogIsContent'
  <2> SUFFICES ASSUME NEW t \in Trees, roots'[t] # Absent PROVE roots'[t].tree = t
    BY DEF CatalogIsContent
  <2>1. CASE writes[c][t] = Unset BY <2>1, <1>2, <1>3 DEF CatalogIsContent
  <2>2. CASE writes[c][t] # Unset
    BY <2>2, <1>2, <1>3 DEF ClientInv, Staged
  <2> QED BY <2>1, <2>2
<1>7. ASSUME "rollback_to" \notin Kinds PROVE HeadCataloged'
  <2> SUFFICES ASSUME NEW t \in Trees, roots'[HeadName] # Absent, roots'[HeadName].tree = t
               PROVE  roots'[t] # Absent
    BY <1>3, <1>5 DEF HeadCataloged, HeadTree, Listed, TreeOf, RootValue, Manifest
  <2>1. CASE writes[c][HeadName] # Unset
    <3>1. op[c].kind # "rollback_to" BY <1>1, <1>7 DEF TypeOK, Running
    <3>2. Cataloged(c, writes[c][HeadName].tree)
      BY <2>1, <3>1, <1>1 DEF ClientInv, PublishesCataloged
    <3>3. writes[c][HeadName].tree = t BY <2>1, <1>2, <1>3
    <3>4. CASE writes[c][t] \notin {Unset, Absent} BY <3>4, <1>2, <1>3
    <3>5. CASE writes[c][t] = Unset /\ reads[c][t] \notin {Unset, Absent}
      <4>1. reads[c][t] = roots[t] BY <3>5, <1>1, <1>3
      <4> QED BY <4>1, <3>5, <1>2, <1>3
    <3> QED BY <3>2, <3>3, <3>4, <3>5 DEF Cataloged
  <2>2. CASE writes[c][HeadName] = Unset
    <3>1. roots[HeadName] # Absent /\ roots[HeadName].tree = t BY <2>2, <1>2, <1>3
    <3>2. roots[t] # Absent
      <4>1. HeadTree = t /\ t # Absent BY <3>1, NoneAssumption DEF HeadTree, TreeOf
      <4>2. HeadCataloged BY <1>7
      <4> QED BY <4>1, <4>2 DEF HeadCataloged, Listed
    <3>3. writes[c][t] # Absent
      <4> SUFFICES ASSUME writes[c][t] = Absent PROVE FALSE
        OBVIOUS
      <4>1. reads[c][HeadName] \notin {Unset, Absent} /\ reads[c][HeadName].tree # t
        BY DEF ClientInv, PruneSparesHead
      <4>2. reads[c][HeadName] = roots[HeadName] BY <4>1, <1>1, <1>3
      <4> QED BY <4>1, <4>2, <3>1
    <3> QED BY <3>2, <3>3, <1>2, <1>3
  <2> QED BY <2>1, <2>2
<1> QED BY <1>5, <1>6, <1>7

\* Every step but a commit and a takeover leaves the roots alone.
LEMMA ClientStepKeeps ==
    ASSUME IInv, NEW c \in Clients, Step(c) \/ \E o \in Calls : Call(c, o)
    PROVE  IInv'
<1> USE DEF IInv
<1>1. ASSUME ClientTypes' /\ \A d \in Clients : ClientInv(d)', UNCHANGED <<roots, opening>>
      PROVE  IInv'
  <2>1. TypeOK' BY <1>1 DEF TypeOK, ClientTypes
  <2>2. CatalogIsContent' BY <1>1 DEF CatalogIsContent
  <2>3. HeadCataloged => HeadCataloged'
    BY <1>1 DEF HeadCataloged, HeadTree, Listed, TreeOf
  <2> QED BY <1>1, <2>1, <2>2, <2>3
<1>2. ASSUME NEW o \in Calls, Call(c, o) PROVE IInv'
  BY <1>1, <1>2, CallKeeps DEF Call
<1>3. CASE ReadOutside(c) BY <1>1, <1>3, ReadOutsideKeeps DEF ReadOutside
<1>4. CASE Guard(c) BY <1>1, <1>4, GuardKeeps DEF Guard
<1>5. CASE Commit(c)
  <2>1. ClientTypes' /\ \A d \in Clients : ClientInv(d)'
    <3>1. Return(c, "unchanged") \/ Return(c, "applied") BY <1>5 DEF Commit
    <3> QED BY <3>1, ReturnKeeps
  <2>2. UNCHANGED opening BY <1>5 DEF Commit
  <2>3. TypeOK' BY <1>5, <2>1, <2>2, CommitRoots DEF TypeOK, ClientTypes
  <2> QED BY <1>5, <2>1, <2>3, CommitRoots
<1>6. CASE CommitConflict(c)
  <2>1. pc[c] \in {"head", "commit"} /\ Retry(c) BY <1>6 DEF CommitConflict
  <2> QED BY <1>1, <1>6, <2>1, RetryKeeps DEF CommitConflict
<1>7. ASSUME NEW s \in Stamps, ReadHead(c, s) PROVE IInv'
  BY <1>1, <1>7, ReadHeadKeeps DEF ReadHead
<1>8. ASSUME NEW s \in Stamps, ReadVersion(c, s) PROVE IInv'
  BY <1>1, <1>8, ReadVersionKeeps DEF ReadVersion
<1>9. ASSUME NEW keep \in SUBSET Trees, ListVersions(c, keep) PROVE IInv'
  BY <1>1, <1>9, ListVersionsKeeps DEF ListVersions
<1>10. ASSUME NEW t \in Trees, NEW s \in Stamps, ReadName(c, t, s) PROVE IInv'
  BY <1>1, <1>10, ReadNameKeeps DEF ReadName
<1> HIDE DEF IInv
<1> QED BY <1>2, <1>3, <1>4, <1>5, <1>6, <1>7, <1>8, <1>9, <1>10 DEF Step

\* A step that leaves the clients alone keeps what is known of them.
LEMMA ClientsStutter ==
    ASSUME IInv, UNCHANGED clientVars
    PROVE  ClientTypes' /\ \A d \in Clients : ClientInv(d)'
<1>1. ClientTypes' BY DEF IInv, TypeOK, ClientTypes, clientVars
<1>2. ASSUME NEW d \in Clients PROVE ClientInv(d)'
  BY ClientInvLocal DEF IInv, clientVars
<1> QED BY <1>1, <1>2

\* A takeover writes the collection state only.
LEMMA TakeoverKeeps ==
    ASSUME IInv, NEW stamp \in Stamps, Takeover(stamp)
    PROVE  IInv'
<1> DEFINE state == [tree |-> EmptyTree, stamp |-> stamp]
<1>1. ClientTypes' /\ \A d \in Clients : ClientInv(d)'
  BY ClientsStutter DEF Takeover
<1>2. opening' \in BOOLEAN
      /\ roots' = IF roots[StateName] = Absent THEN [roots EXCEPT ![StateName] = state] ELSE roots
  BY DEF Takeover
<1>3. state \in RootValue BY EmptyTreeAssumption DEF RootValue, Manifest
<1> HIDE DEF state
<1>4. roots' \in [Names -> RootValue] BY <1>2, <1>3 DEF IInv, TypeOK
<1>5. \A n \in Trees \cup {HeadName} : roots'[n] = roots[n]
  BY <1>2, NamesAssumption DEF IInv, TypeOK
<1>6. TypeOK' BY <1>1, <1>2, <1>4 DEF TypeOK, ClientTypes
<1>7. CatalogIsContent' BY <1>5 DEF IInv, CatalogIsContent
<1>8. HeadCataloged => HeadCataloged' BY <1>5 DEF HeadCataloged, HeadTree, Listed, TreeOf
<1> QED BY <1>1, <1>6, <1>7, <1>8 DEF IInv

\* The initial state satisfies the invariant.
LEMMA InitIInv == Init => IInv
<1> SUFFICES ASSUME Init PROVE IInv
  OBVIOUS
<1> USE NamesAssumption, SentinelAssumption
<1>1. TypeOK
  <2>1. 0 \in 0 .. MaxRetries - 1 BY RetriesAssumption, SMT
  <2>2. Absent \in RootValue BY DEF RootValue
  <2> QED BY <2>1, <2>2, NoEntriesType DEF Init, TypeOK
<1>2. \A n \in Names : roots[n] = Absent BY DEF Init
<1>3. Unset # Absent BY DEF RootValue
<1>4. ASSUME NEW c \in Clients PROVE ClientInv(c)
  <2>1. pc[c] = "idle" /\ reads[c] = NoEntries /\ writes[c] = NoEntries BY DEF Init
  <2>2. \A n \in Names : writes[c][n] = Unset BY <2>1 DEF NoEntries
  <2>3. HeadName \in Names /\ StateName \in Names /\ Trees \subseteq Names OBVIOUS
  <2>4. OpShape(c) /\ Stages(c) /\ ReadSet(c) /\ BuildsOnHead(c)
    BY <2>1 DEF OpShape, Stages, ReadSet, BuildsOnHead
  <2>5. Staged(c) BY <1>3, <2>2, <2>3 DEF Staged
  <2>6. PublishesCataloged(c) BY <2>1 DEF PublishesCataloged
  <2>7. PruneSparesHead(c) BY <1>3, <2>1, <2>2, <2>3 DEF PruneSparesHead
  <2> QED BY <2>4, <2>5, <2>6, <2>7 DEF ClientInv
<1>5. CatalogIsContent BY <1>2 DEF CatalogIsContent
<1>6. HeadCataloged BY <1>2 DEF HeadCataloged, HeadTree, TreeOf
<1> QED BY <1>1, <1>4, <1>5, <1>6 DEF IInv

\* The invariant is inductive.
LEMMA NextIInv == IInv /\ [Next]_vars => IInv'
<1> SUFFICES ASSUME IInv, [Next]_vars PROVE IInv'
  OBVIOUS
<1>1. ASSUME UNCHANGED <<clientVars, roots>>, opening' \in BOOLEAN PROVE IInv'
  <2>1. ClientTypes' /\ \A d \in Clients : ClientInv(d)' BY <1>1, ClientsStutter
  <2>2. TypeOK' BY <1>1, <2>1 DEF IInv, TypeOK, ClientTypes
  <2>3. CatalogIsContent' BY <1>1 DEF IInv, CatalogIsContent
  <2>4. HeadCataloged => HeadCataloged'
    BY <1>1 DEF HeadCataloged, HeadTree, Listed, TreeOf
  <2> QED BY <2>1, <2>2, <2>3, <2>4 DEF IInv
<1>2. CASE UNCHANGED vars
  <2>1. opening' \in BOOLEAN BY <1>2 DEF vars, IInv, TypeOK
  <2> QED BY <1>1, <1>2, <2>1 DEF vars
<1>3. CASE OpenIndexed BY <1>1, <1>3 DEF OpenIndexed
<1>4. ASSUME NEW s \in Stamps, Takeover(s) PROVE IInv' BY <1>4, TakeoverKeeps
<1>5. ASSUME NEW c \in Clients, Step(c) \/ \E o \in Calls : Call(c, o) PROVE IInv'
  BY <1>5, ClientStepKeeps
<1> QED BY <1>2, <1>3, <1>4, <1>5 DEF Next

\* The invariant holds in every reachable state.
LEMMA Invariance == Spec => []IInv
BY InitIInv, NextIInv, PTL DEF Spec

-----------------------------------------------------------------------------
(* The theorems *)

\* Type correctness: the variables keep their types, and the retry loops stay
\* within MaxRetries rounds (MAX_RETRIES of versioned_map.rs).
THEOREM MapTypeCorrect == Spec => []TypeOK
<1>1. IInv => TypeOK BY DEF IInv
<1> QED BY <1>1, Invariance, PTL

\* The head is a cataloged version in every reachable state, for any number
\* of clients, versions and retries, as long as rollback_to is not used: it
\* publishes a head whose catalog entry it read outside its transaction.
THEOREM HeadAlwaysCataloged ==
    ASSUME "rollback_to" \notin Kinds
    PROVE  Spec => []HeadCataloged
<1>1. IInv => HeadCataloged BY DEF IInv
<1> QED BY <1>1, Invariance, PTL

\* A step of one client moves no other client.
LEMMA OtherClient ==
    ASSUME TypeOK, NEW c \in Clients, NEW d \in Clients, d # c,
           Step(d) \/ \E o \in Calls : Call(d, o)
    PROVE  pc'[c] = pc[c] /\ result'[c] = result[c]
<1>0. DOMAIN pc = Clients /\ DOMAIN result = Clients BY DEF TypeOK
<1>1. ASSUME NEW outcome, Return(d, outcome)
      PROVE  pc'[c] = pc[c] /\ result'[c] = result[c]
  BY <1>0, <1>1 DEF Return, Goto
<1>2. ASSUME NEW label, Goto(d, label), UNCHANGED result
      PROVE  pc'[c] = pc[c] /\ result'[c] = result[c]
  BY <1>0, <1>2 DEF Goto
<1>3. ASSUME Retry(d) PROVE pc'[c] = pc[c] /\ result'[c] = result[c]
  BY <1>1, <1>2, <1>3 DEF Retry
<1>4. ASSUME NEW o \in Calls, Call(d, o) PROVE pc'[c] = pc[c] /\ result'[c] = result[c]
  BY <1>0, <1>4 DEF Call, Goto
<1>5. CASE ReadOutside(d) BY <1>1, <1>2, <1>5 DEF ReadOutside
<1>6. CASE Guard(d) BY <1>1, <1>2, <1>6 DEF Guard
<1>7. CASE Commit(d) BY <1>1, <1>7 DEF Commit
<1>8. CASE CommitConflict(d) BY <1>3, <1>8 DEF CommitConflict
<1>9. ASSUME NEW s \in Stamps, ReadHead(d, s) PROVE pc'[c] = pc[c] /\ result'[c] = result[c]
  BY <1>1, <1>2, <1>3, <1>9 DEF ReadHead
<1>10. ASSUME NEW s \in Stamps, ReadVersion(d, s)
       PROVE  pc'[c] = pc[c] /\ result'[c] = result[c]
  BY <1>1, <1>2, <1>10 DEF ReadVersion
<1>11. ASSUME NEW keep \in SUBSET Trees, ListVersions(d, keep)
       PROVE  pc'[c] = pc[c] /\ result'[c] = result[c]
  BY <1>1, <1>2, <1>11 DEF ListVersions
<1>12. ASSUME NEW t \in Trees, NEW s \in Stamps, ReadName(d, t, s)
       PROVE  pc'[c] = pc[c] /\ result'[c] = result[c]
  BY <1>0, <1>2, <1>12 DEF ReadName
<1> QED BY <1>4, <1>5, <1>6, <1>7, <1>8, <1>9, <1>10, <1>11, <1>12 DEF Step

\* A running client is moved by its own steps only.
LEMMA OwnStep ==
    ASSUME TypeOK, NEW c \in Clients, pc[c] # "idle", [Next]_vars
    PROVE  Step(c) \/ (pc'[c] = pc[c] /\ result'[c] = result[c])
<1>1. CASE UNCHANGED <<pc, result>> BY <1>1
<1>2. CASE UNCHANGED vars BY <1>1, <1>2 DEF vars, clientVars
<1>3. CASE OpenIndexed BY <1>1, <1>3 DEF OpenIndexed, clientVars
<1>4. ASSUME NEW s \in Stamps, Takeover(s) PROVE UNCHANGED <<pc, result>>
  BY <1>4 DEF Takeover, clientVars
<1>5. ASSUME NEW d \in Clients, Step(d) \/ \E o \in Calls : Call(d, o)
      PROVE  Step(c) \/ (pc'[c] = pc[c] /\ result'[c] = result[c])
  <2>1. CASE d # c BY <1>5, <2>1, OtherClient
  <2>2. CASE d = c BY <1>5, <2>2 DEF Call
  <2> QED BY <2>1, <2>2
<1> QED BY <1>1, <1>2, <1>3, <1>4, <1>5 DEF Next

\* An update returns a version only from its commit.
LEMMA UpdateReturns ==
    ASSUME IInv, NEW c \in Clients, Step(c), op[c].mutation # None, pc[c] # "idle",
           pc'[c] = "idle", result'[c] \in {"applied", "unchanged"}
    PROVE  Commit(c)
<1>0. /\ DOMAIN pc = Clients /\ DOMAIN result = Clients
      /\ op[c].kind \in Updates
  BY DEF IInv, TypeOK, ClientInv, OpShape
<1>1. ASSUME NEW outcome, Return(c, outcome) PROVE outcome \in {"applied", "unchanged"}
  BY <1>0, <1>1 DEF Return
<1>2. ASSUME NEW label, Goto(c, label) PROVE label = "idle"
  BY <1>0, <1>2 DEF Goto
<1>3. ASSUME Retry(c) PROVE FALSE
  BY <1>1, <1>2, <1>3, SMT DEF Retry
<1>4. ASSUME ReadOutside(c) PROVE FALSE
  <2>1. Goto(c, "guard") \/ Return(c, "conflict") \/ Return(c, "error")
    BY <1>4 DEF ReadOutside
  <2> QED BY <1>1, <1>2, <2>1, SMT
<1>5. ~Guard(c) BY <1>1, <1>2, SMT DEF Guard
<1>6. ~CommitConflict(c) BY <1>3 DEF CommitConflict
<1>7. ASSUME NEW s \in Stamps, ReadHead(c, s) PROVE FALSE
  <2>1. op[c].kind \notin {"prune", "restore_backup", "rollback_to", "import"}
    BY <1>0 DEF Updates
  <2> QED BY <1>2, <1>3, <1>7, <2>1 DEF ReadHead
<1>8. ASSUME NEW s \in Stamps, ReadVersion(c, s) PROVE FALSE
  BY <1>1, <1>2, <1>8, SMT DEF ReadVersion
<1>9. ASSUME NEW keep \in SUBSET Trees, ListVersions(c, keep) PROVE FALSE
  BY <1>0, <1>9 DEF ListVersions, IInv, ClientInv, Stages, Updates
<1>10. ASSUME NEW t \in Trees, NEW s \in Stamps, ReadName(c, t, s) PROVE FALSE
  BY <1>0, <1>10 DEF ReadName, IInv, ClientInv, Stages, Updates
<1> QED BY <1>4, <1>5, <1>6, <1>7, <1>8, <1>9, <1>10 DEF Step

\* What a validated commit has read of the head is the head.
LEMMA CommitReadsHead ==
    ASSUME IInv, NEW c \in Clients, Commit(c)
    PROVE  reads[c][HeadName] = roots[HeadName] /\ pc[c] = "commit"
BY NamesAssumption DEF Commit, ConditionsHold, IInv, ClientInv, ReadSet

\* No update is lost: the version that apply, apply_if or append returns is
\* its batch applied to the head it replaced.
THEOREM UpdatesAlwaysSerialize == Spec => UpdatesSerialize
<1>1. ASSUME IInv, [Next]_vars, NEW c \in Clients, pc[c] # "idle", pc'[c] = "idle",
             result'[c] \in {"applied", "unchanged"}, op[c].mutation # None
      PROVE  HeadTree' = Batch[op[c].mutation][BaseOf(HeadTree)]
  <2>1. Commit(c) BY <1>1, OwnStep, UpdateReturns DEF IInv
  <2>2. reads[c][HeadName] = roots[HeadName] /\ pc[c] = "commit"
    BY <1>1, <2>1, CommitReadsHead
  <2>3. roots'[HeadName] = IF writes[c][HeadName] = Unset THEN reads[c][HeadName]
                                                         ELSE writes[c][HeadName]
    BY <2>1, <2>2, NamesAssumption DEF Commit
  <2>4. BuildsOnHead(c) BY <1>1 DEF IInv, ClientInv
  <2>5. op[c].tree = Batch[op[c].mutation][BaseOf(HeadTree)]
    BY <1>1, <2>2, <2>4 DEF BuildsOnHead, HeadTree
  <2>6. op[c].tree = TreeOf(roots'[HeadName]) BY <1>1, <2>2, <2>3, <2>4 DEF BuildsOnHead
  <2> QED BY <2>5, <2>6 DEF HeadTree
<1>2. IInv /\ [Next]_vars =>
        [\A c \in Clients :
            /\ pc[c] # "idle" /\ pc'[c] = "idle"
            /\ result'[c] \in {"applied", "unchanged"}
            /\ op[c].mutation # None
            => HeadTree' = Batch[op[c].mutation][BaseOf(HeadTree)]]_vars
  BY <1>1
<1> QED BY <1>2, Invariance, PTL DEF Spec, UpdatesSerialize

\* A conditional operation that applies replaces the version its caller
\* expected, also when that is the absence of the map.
THEOREM ExpectedAlwaysReplaced == Spec => ExpectedReplaced
<1>1. ASSUME IInv, [Next]_vars, NEW c \in Clients, pc[c] = "commit", result'[c] = "applied",
             op[c].expected # None
      PROVE  op[c].expected = HeadTree
  <2>1. DOMAIN result = Clients /\ result[c] # "applied"
    BY <1>1 DEF IInv, TypeOK, ClientInv, OpShape
  <2>2. Step(c) BY <1>1, <2>1, OwnStep DEF IInv
  <2>3. ~CommitConflict(c) BY <1>1, <2>1 DEF CommitConflict, Retry, Return
  <2>4. Commit(c)
    BY <1>1, <2>2, <2>3 DEF Step, ReadOutside, Guard, ReadHead, ReadVersion, ListVersions,
                            ReadName
  <2>5. reads[c][HeadName] = roots[HeadName] BY <1>1, <2>4, CommitReadsHead
  <2> QED BY <1>1, <2>5 DEF IInv, ClientInv, BuildsOnHead, HeadTree
<1>2. IInv /\ [Next]_vars =>
        [\A c \in Clients :
            pc[c] = "commit" /\ result'[c] = "applied" /\ op[c].expected # None
               => op[c].expected = HeadTree]_vars
  BY <1>1
<1> QED BY <1>2, Invariance, PTL DEF Spec, ExpectedReplaced

\* Once the collection state exists no root of the map changes any more: a
\* write whose guard ran before the takeover fails its validation.
THEOREM ManagedMapStaysFrozen == Spec => ManagedMapIsFrozen
<1>1. ASSUME IInv, [Next]_vars, roots[StateName] # Absent PROVE roots' = roots
  <2>1. ASSUME NEW c \in Clients, Commit(c) PROVE FALSE
    <3>1. reads[c][StateName] = Absent
      BY <1>1, <2>1 DEF Commit, IInv, ClientInv, ReadSet
    <3>2. reads[c][StateName] \in {Unset, roots[StateName]}
      BY <2>1, NamesAssumption DEF Commit, ConditionsHold
    <3> QED BY <1>1, <3>1, <3>2, SentinelAssumption DEF RootValue
  <2>2. ASSUME NEW c \in Clients, Step(c) PROVE roots' = roots
    BY <2>1, <2>2 DEF Step, ReadOutside, Guard, CommitConflict, ReadHead, ReadVersion,
                      ListVersions, ReadName
  <2>3. ASSUME NEW c \in Clients, NEW o \in Calls, Call(c, o) PROVE roots' = roots
    BY <2>3 DEF Call
  <2>4. CASE OpenIndexed BY <2>4 DEF OpenIndexed
  <2>5. ASSUME NEW s \in Stamps, Takeover(s) PROVE roots' = roots
    BY <1>1, <2>5 DEF Takeover
  <2> QED BY <1>1, <2>2, <2>3, <2>4, <2>5 DEF Next, vars
<1>2. IInv /\ [Next]_vars => [roots[StateName] # Absent => roots' = roots]_vars
  BY <1>1
<1> QED BY <1>2, Invariance, PTL DEF Spec, ManagedMapIsFrozen
=============================================================================
