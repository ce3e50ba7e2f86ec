---------------------------- MODULE VersionedMaps ----------------------------
(***************************************************************************)
(* A managed map (prolly/versioned_map.rs): a mutable head root and one    *)
(* immutable catalog root per version, kept by clients that each run       *)
(* optimistic transactions and retry conflicts.                            *)
(*                                                                         *)
(* A version is identified by the content of its tree, so a tree stands    *)
(* for its version and for the catalog name of that version.  The catalog  *)
(* name is either absent or holds that very tree.  Every store call is one *)
(* step; clients interleave between them.  Transactions shows what a       *)
(* transaction does inside; here one is its read set, its staged roots and *)
(* its validated commit.                                                   *)
(***************************************************************************)
EXTENDS Manifests, Naturals

CONSTANTS
    HeadName,    \* versioned_map_names: the head root of the map
    StateName,   \* indexed_collection_root_name: present once it is managed
    Clients,
    Kinds,       \* the operations clients call
    Mutations,   \* mutation batches
    Batch,       \* Batch[m][t]: the tree of t after the batch m
    Backup,      \* a verified backup: [head, versions]
    MaxRetries,  \* bound: DEFAULT_VERSIONED_MAP_RETRIES
    None         \* no argument, no operation

ASSUME NamesAssumption ==
    /\ Names = {HeadName, StateName} \cup Trees
    /\ HeadName \notin Trees /\ StateName \notin Trees /\ HeadName # StateName
ASSUME BatchAssumption == Batch \in [Mutations -> [Trees -> Trees]]
ASSUME BackupAssumption ==
    /\ Backup \in [head : Trees, versions : SUBSET Trees]
    /\ Backup.head \in Backup.versions
ASSUME NoneAssumption ==
    None \notin Mutations \cup Trees \cup {Absent} /\ Absent \notin Trees
ASSUME RetriesAssumption == MaxRetries \in Nat \ {0}

VARIABLES
    roots,   \* the named roots of the store
    pc,      \* control state of a client
    op,      \* the operation it runs
    reads,   \* root_reads of its transaction
    writes,  \* root_writes of its transaction
    todo,    \* catalog names it has still to read
    tries,   \* conflicts met by this operation
    result,  \* what its last operation returned
    opening  \* a coordinator is between its check of the map and its takeover

clientVars == <<pc, op, reads, writes, todo, tries, result>>
vars == <<roots, clientVars, opening>>

NoEntries == [n \in Names |-> Unset]
HeadTree == TreeOf(roots[HeadName])
Listed == {t \in Trees : roots[t] # Absent}
\* current_tree.unwrap_or_else(create)
BaseOf(tree) == IF tree = Absent THEN EmptyTree ELSE tree

Op(kinds, mutations, expecteds, trees) ==
    [kind : kinds \cap Kinds, mutation : mutations, expected : expecteds, tree : trees]

\* apply (put, delete, edit, initialize), apply_if (and typed migration), append
\* (and parallel_apply, put_large_value), rebuild_if, the publish of a merge,
\* restore_if, the restore_if of a transaction, rollback_to, import_as_head,
\* restore_backup, and prune (keep_last, keep_for, keep_versions).
Calls ==
    LET expected == Trees \cup {Absent} IN
    UNION {Op({"apply", "append"}, Mutations, {None}, {None}),
           Op({"apply_if"}, Mutations, expected, {None}),
           Op({"rebuild_if", "restore_if", "tx_restore_if"}, {None}, expected, Trees),
           Op({"merge"}, {None}, Trees, Trees),
           Op({"rollback_to", "import"}, {None}, {None}, Trees),
           Op({"restore_backup"}, {None}, {Absent}, {Backup.head}),
           Op({"prune"}, {None}, {None}, {None})}

Running == [kind : Kinds, mutation : Mutations \cup {None},
            expected : Trees \cup {Absent, None}, tree : Trees \cup {None}]

TypeOK ==
    /\ roots \in [Names -> RootValue]
    /\ pc \in [Clients -> {"idle", "outside", "guard", "head", "version", "list", "names",
                           "commit"}]
    /\ op \in [Clients -> Running \cup {None}]
    /\ \A c \in Clients : pc[c] # "idle" => op[c] \in Running
    /\ reads \in [Clients -> [Names -> MaybeRootValue]]
    /\ writes \in [Clients -> [Names -> MaybeRootValue]]
    /\ todo \in [Clients -> SUBSET Trees]
    /\ tries \in [Clients -> 0 .. MaxRetries - 1]
    /\ result \in [Clients -> {"none", "applied", "unchanged", "conflict", "error", "corrupt"}]
    /\ opening \in BOOLEAN

Init ==
    /\ roots = [n \in Names |-> Absent]
    /\ pc = [c \in Clients |-> "idle"]
    /\ op = [c \in Clients |-> None]
    /\ reads = [c \in Clients |-> NoEntries]
    /\ writes = [c \in Clients |-> NoEntries]
    /\ todo = [c \in Clients |-> {}]
    /\ tries = [c \in Clients |-> 0]
    /\ result = [c \in Clients |-> "none"]
    /\ opening = FALSE

Goto(c, label) == pc' = [pc EXCEPT ![c] = label]
Read(c, n) == reads' = [reads EXCEPT ![c][n] = roots[n]]
Stage(c, n, v) == writes' = [writes EXCEPT ![c][n] = v]

\* The operation returns; a transaction it holds is dropped.
Return(c, outcome) ==
    /\ Goto(c, "idle")
    /\ op' = [op EXCEPT ![c] = None]
    /\ reads' = [reads EXCEPT ![c] = NoEntries]
    /\ writes' = [writes EXCEPT ![c] = NoEntries]
    /\ todo' = [todo EXCEPT ![c] = {}]
    /\ tries' = [tries EXCEPT ![c] = 0]
    /\ result' = [result EXCEPT ![c] = outcome]

\* The operations that begin with a read outside their transaction.
ReadsOutside == {"append", "rebuild_if", "restore_if", "rollback_to"}

\* The operations that run again after a conflict.
Retrying == {"apply", "append", "rollback_to", "import", "prune"}

Call(c, o) ==
    /\ pc[c] = "idle"
    /\ Goto(c, IF o.kind \in ReadsOutside THEN "outside" ELSE "guard")
    /\ op' = [op EXCEPT ![c] = o]
    /\ result' = [result EXCEPT ![c] = "none"]
    /\ UNCHANGED <<roots, reads, writes, todo, tries, opening>>

\* Mutants: one round too many; no bound.
RetryOnceMore(c) ==
    IF op[c].kind \in Retrying /\ tries[c] < MaxRetries
    THEN /\ tries' = [tries EXCEPT ![c] = @ + 1]
         /\ Goto(c, IF op[c].kind = "append" THEN "outside" ELSE "guard")
         /\ reads' = [reads EXCEPT ![c] = NoEntries]
         /\ writes' = [writes EXCEPT ![c] = NoEntries]
         /\ UNCHANGED <<op, todo, result>>
    ELSE Return(c, "conflict")

RetryForever(c) ==
    IF op[c].kind \in Retrying
    THEN /\ tries' = [tries EXCEPT ![c] = @]
         /\ Goto(c, IF op[c].kind = "append" THEN "outside" ELSE "guard")
         /\ reads' = [reads EXCEPT ![c] = NoEntries]
         /\ writes' = [writes EXCEPT ![c] = NoEntries]
         /\ UNCHANGED <<op, todo, result>>
    ELSE Return(c, "conflict")

\* The retry loop begins its next round, or gives up.  append reads the head
\* again; rollback_to keeps the version it has read.
Retry(c) ==
    IF op[c].kind \in Retrying /\ tries[c] + 1 < MaxRetries
    THEN /\ tries' = [tries EXCEPT ![c] = @ + 1]
         /\ Goto(c, IF op[c].kind = "append" THEN "outside" ELSE "guard")
         /\ reads' = [reads EXCEPT ![c] = NoEntries]
         /\ writes' = [writes EXCEPT ![c] = NoEntries]
         /\ UNCHANGED <<op, todo, result>>
    ELSE Return(c, IF op[c].kind = "append" THEN "error" ELSE "conflict")

\* Mutant: the head append builds upon is not expected by its transaction.
PrepareAppendBlind(c) ==
    op' = [op EXCEPT ![c].tree = Batch[op[c].mutation][BaseOf(HeadTree)]]

\* append: the tree is built outside the transaction, on the head just read.
PrepareAppend(c) ==
    op' = [op EXCEPT ![c].expected = HeadTree,
                     ![c].tree = Batch[op[c].mutation][BaseOf(HeadTree)]]

\* head() of append and rebuild_*_if, version() of restore_if and rollback_to.
ReadOutside(c) ==
    /\ pc[c] = "outside"
    /\ \/ /\ op[c].kind = "append"
          /\ Goto(c, "guard")
          /\ PrepareAppend(c)
          /\ UNCHANGED <<reads, writes, todo, tries, result>>
       \/ /\ op[c].kind = "rebuild_if"
          /\ IF HeadTree = op[c].expected
             THEN Goto(c, "guard") /\ UNCHANGED <<op, reads, writes, todo, tries, result>>
             ELSE Return(c, "conflict")
       \/ /\ op[c].kind \in {"restore_if", "rollback_to"}
          /\ IF roots[op[c].tree] # Absent
             THEN Goto(c, "guard") /\ UNCHANGED <<op, reads, writes, todo, tries, result>>
             ELSE Return(c, "error")
    /\ UNCHANGED <<roots, opening>>

\* Mutant: the guard's read is not part of the transaction.
GuardOutside(c) ==
    /\ pc[c] = "guard"
    /\ IF roots[StateName] = Absent
       THEN Goto(c, "head") /\ UNCHANGED <<op, reads, writes, todo, tries, result>>
       ELSE Return(c, "error")
    /\ UNCHANGED <<roots, opening>>

\* begin_transaction and guard_managed_map_write.
Guard(c) ==
    /\ pc[c] = "guard"
    /\ IF roots[StateName] = Absent
       THEN /\ Goto(c, "head")
            /\ Read(c, StateName)
            /\ UNCHANGED <<op, writes, todo, tries, result>>
       ELSE Return(c, "error")
    /\ UNCHANGED <<roots, opening>>

\* The tree the operation publishes when the head it reads is current.
Target(c, current) ==
    IF op[c].kind \in {"apply", "apply_if"} THEN Batch[op[c].mutation][BaseOf(current)]
                                            ELSE op[c].tree

\* The transaction loads the head; what follows depends on the operation.
ReadHead(c, stamp) ==
    LET current == HeadTree
        target == Target(c, current)
        expects == op[c].expected \notin {None, current}
    IN
    /\ pc[c] = "head"
    /\ \/ /\ expects
          /\ IF op[c].kind = "restore_backup" THEN Return(c, "error") ELSE Retry(c)
       \/ /\ ~expects
          /\ target = current
          /\ op[c].kind \in {"rollback_to", "import"}
          /\ Return(c, "unchanged")
       \/ /\ ~expects
          /\ ~(target = current /\ op[c].kind \in {"rollback_to", "import"})
          /\ Read(c, HeadName)
          /\ op' = [op EXCEPT ![c].tree = target]
          /\ Goto(c, IF op[c].kind = "prune" THEN "list"
                     ELSE IF op[c].kind = "restore_backup" THEN "names"
                     ELSE IF op[c].kind = "rollback_to" \/ target = current THEN "commit"
                     ELSE "version")
          /\ todo' = [todo EXCEPT ![c] =
                 IF op[c].kind = "restore_backup" THEN Backup.versions ELSE {}]
          /\ IF op[c].kind = "rollback_to"
             THEN Stage(c, HeadName, [tree |-> target, stamp |-> stamp])
             ELSE UNCHANGED writes
          /\ UNCHANGED <<tries, result>>
    /\ UNCHANGED <<roots, opening>>

\* The transaction loads the catalog name of its target: an absent version is
\* cataloged with the head, except by the transaction's restore_if, which
\* refuses it.
ReadVersion(c, stamp) ==
    LET t == op[c].tree
        m == [tree |-> t, stamp |-> stamp]
        entry == IF roots[t] = Absent THEN m ELSE writes[c][t]
    IN
    /\ pc[c] = "version"
    /\ IF op[c].kind = "tx_restore_if" /\ roots[t] = Absent
       THEN Return(c, "error")
       ELSE /\ Read(c, t)
            /\ writes' = [writes EXCEPT ![c] = [@ EXCEPT ![HeadName] = m, ![t] = entry]]
            /\ Goto(c, "commit")
            /\ UNCHANGED <<op, todo, tries, result>>
    /\ UNCHANGED <<roots, opening>>

\* Mutant: the head is not added to what is kept.
RemovedByPolicy(head, keep) == Listed \ keep

\* retained_ids.insert(head_id): what the policy and the head do not retain.
Removed(head, keep) == Listed \ (keep \cup {head})

\* prune_with: versions() is listed outside the transaction, and a policy
\* selects what to keep; keep_versions refuses an unknown version.
ListVersions(c, keep) ==
    LET head == TreeOf(reads[c][HeadName])
        removed == Removed(head, keep)
    IN
    /\ pc[c] = "list"
    /\ \/ /\ head = Absent
          /\ Return(c, IF Listed = {} THEN "unchanged" ELSE "corrupt")
       \/ /\ head \notin Listed \cup {Absent}
          /\ Return(c, "corrupt")
       \/ /\ head \in Listed
          /\ ~(keep \subseteq Listed)
          /\ Return(c, "error")
       \/ /\ head \in Listed
          /\ keep \subseteq Listed
          /\ IF removed = {}
             THEN Return(c, "unchanged")
             ELSE /\ Goto(c, "names")
                  /\ todo' = [todo EXCEPT ![c] = removed]
                  /\ UNCHANGED <<op, reads, writes, tries, result>>
    /\ UNCHANGED <<roots, opening>>

\* The catalog names prune_with and restore_backup go through: prune_with
\* deletes the ones that are still there, restore_backup publishes the ones
\* that are not, and the head after the last.
ReadName(c, t, stamp) ==
    LET last == todo[c] = {t}
        absent == roots[t] = Absent
        pruning == op[c].kind = "prune"
        entry == IF pruning /\ ~absent THEN Absent
                 ELSE IF ~pruning /\ absent THEN [tree |-> t, stamp |-> stamp]
                 ELSE writes[c][t]
        head == IF ~pruning /\ last THEN [tree |-> op[c].tree, stamp |-> stamp]
                                    ELSE writes[c][HeadName]
    IN
    /\ pc[c] = "names"
    /\ t \in todo[c]
    /\ Read(c, t)
    /\ writes' = [writes EXCEPT ![c] = [@ EXCEPT ![t] = entry, ![HeadName] = head]]
    /\ todo' = [todo EXCEPT ![c] = @ \ {t}]
    /\ IF last THEN Goto(c, "commit") ELSE UNCHANGED pc
    /\ UNCHANGED <<roots, op, tries, result, opening>>

ConditionsHold(conditions) == \A n \in Names : conditions[n] \in {Unset, roots[n]}

\* Mutant: the read set is not validated.
CommitBlind(c) ==
    /\ pc[c] = "commit"
    /\ roots' = [n \in Names |-> IF writes[c][n] = Unset THEN roots[n] ELSE writes[c][n]]
    /\ Return(c, IF writes[c] = NoEntries THEN "unchanged" ELSE "applied")
    /\ UNCHANGED opening

Commit(c) ==
    /\ pc[c] = "commit"
    /\ ConditionsHold(reads[c])
    /\ roots' = [n \in Names |-> IF writes[c][n] = Unset THEN roots[n] ELSE writes[c][n]]
    /\ Return(c, IF writes[c] = NoEntries THEN "unchanged" ELSE "applied")
    /\ UNCHANGED opening

CommitConflict(c) ==
    /\ pc[c] = "commit"
    /\ ~ConditionsHold(reads[c])
    /\ Retry(c)
    /\ UNCHANGED <<roots, opening>>

\* initialize_or_load of a secondary-index coordinator, up to its last check:
\* there is no collection state yet, and the map has no head.
OpenIndexed ==
    /\ "open" \in Kinds
    /\ roots[StateName] = Absent
    /\ HeadTree = Absent
    /\ opening' = TRUE
    /\ UNCHANGED <<roots, clientVars>>

\* commit_collection_root: the collection state is published if still absent.
Takeover(stamp) ==
    /\ opening
    /\ opening' = FALSE
    /\ roots' = IF roots[StateName] = Absent
                THEN [roots EXCEPT ![StateName] = [tree |-> EmptyTree, stamp |-> stamp]]
                ELSE roots
    /\ UNCHANGED clientVars

Step(c) ==
    \/ ReadOutside(c) \/ Guard(c) \/ Commit(c) \/ CommitConflict(c)
    \/ \E s \in Stamps : ReadHead(c, s) \/ ReadVersion(c, s)
    \/ \E keep \in SUBSET Trees : ListVersions(c, keep)
    \/ \E t \in Trees, s \in Stamps : ReadName(c, t, s)

Next ==
    \/ \E c \in Clients : Step(c) \/ \E o \in Calls : Call(c, o)
    \/ OpenIndexed
    \/ \E s \in Stamps : Takeover(s)

Spec == Init /\ [][Next]_vars

\* A call that has begun keeps running.
FairSpec == Spec /\ \A c \in Clients : WF_vars(Step(c))

-----------------------------------------------------------------------------
(* Properties *)

\* "The head is always retained": the current head is a cataloged version,
\* whatever publishes, restores and prunes interleave (prune_with,
\* publish_tree_if, restore_if).
HeadCataloged == HeadTree # Absent => HeadTree \in Listed

\* No update is lost: when apply, apply_if or append returns a version, the
\* head is its batch applied to the head just before, with nobody else's
\* update in between (try_apply, append).
UpdatesSerialize ==
    [][\A c \in Clients :
          /\ pc[c] # "idle" /\ pc'[c] = "idle"
          /\ result'[c] \in {"applied", "unchanged"}
          /\ op[c].mutation # None
          => HeadTree' = Batch[op[c].mutation][BaseOf(HeadTree)]]_vars

\* A conditional operation that applies replaces the version its caller
\* expected (apply_if, restore_if, rebuild_*_if, MapMerge::publish).
ExpectedReplaced ==
    [][\A c \in Clients :
          pc[c] = "commit" /\ result'[c] = "applied" /\ op[c].expected # None
             => op[c].expected = HeadTree]_vars

\* Once a coordinator has taken the map over, no write of a plain map client
\* gets through, also not one whose guard ran before the takeover
\* (guard_managed_map_write).
ManagedMapIsFrozen ==
    [][roots[StateName] # Absent => roots' = roots]_vars

\* Every call returns: conflicts are retried a bounded number of times.
CallsReturn == \A c \in Clients : pc[c] # "idle" ~> pc[c] = "idle"

\* "current head is absent from the version catalog" is reported only when it
\* is (prune_with).
CorruptionIsReal ==
    [][\A c \in Clients :
          pc[c] = "list" /\ pc'[c] = "idle" /\ result'[c] = "corrupt"
             => ~HeadCataloged \/ (HeadTree = Absent /\ Listed # {})]_vars

\* A coordinator does not take over a map that is already in use: opening it
\* reports the obsolete format (initialize_or_load; the test
\* hard_cutover_rejects_an_obsolete_versioned_source).
TakeoverRejectsUsedMap ==
    [][roots[StateName] = Absent /\ roots'[StateName] # Absent => HeadTree = Absent]_vars

-----------------------------------------------------------------------------
(* The inductive invariant: what a client's own variables say of its         *)
(* transaction.  None of it mentions the store, so no other client can       *)
(* disturb it; the commit's validation carries it over to the roots.         *)

Updates == {"apply", "append", "apply_if"}
Publishes == {"rebuild_if", "merge", "restore_if", "tx_restore_if", "rollback_to", "import",
              "restore_backup"}

\* The arguments of a running operation.
OpShape(c) ==
    pc[c] # "idle" =>
       /\ op[c].kind \in Updates \cup Publishes \cup {"prune"}
       /\ op[c].mutation # None <=> op[c].kind \in Updates
       /\ op[c].kind \in Publishes => op[c].tree # None
       /\ op[c].kind = "restore_backup" => op[c].tree = Backup.head
       /\ op[c].kind = "prune" => op[c].expected = None
       /\ result[c] = "none"

\* Which operations reach a control state.
Stages(c) ==
    /\ pc[c] = "outside" => op[c].kind \in ReadsOutside
    /\ pc[c] = "version" => /\ op[c].tree # None
                            /\ op[c].kind \notin {"prune", "restore_backup", "rollback_to"}
    /\ pc[c] = "list" => op[c].kind = "prune"
    /\ pc[c] = "names" => op[c].kind \in {"prune", "restore_backup"}

\* The read set begins with the guard and goes on with the head; nothing is
\* staged before them.
ReadSet(c) ==
    /\ pc[c] \in {"idle", "outside", "guard"} => reads[c] = NoEntries
    /\ pc[c] \in {"head", "version", "list", "names", "commit"} => reads[c][StateName] = Absent
    /\ pc[c] \in {"version", "list", "names", "commit"} => reads[c][HeadName] # Unset
    /\ pc[c] \notin {"names", "commit"} => writes[c] = NoEntries
    /\ pc[c] = "names" => writes[c][HeadName] = Unset

\* A head is never deleted, the collection state never written, and a version
\* is published under its own name.
Staged(c) ==
    /\ writes[c][HeadName] # Absent
    /\ writes[c][StateName] = Unset
    /\ \A t \in Trees : writes[c][t] \notin {Unset, Absent} => writes[c][t].tree = t

\* The commit makes the version cataloged, or validates that it is.
Cataloged(c, t) ==
    \/ writes[c][t] \notin {Unset, Absent}
    \/ writes[c][t] = Unset /\ reads[c][t] \notin {Unset, Absent}

\* A head is published with its catalog entry.
PublishesCataloged(c) ==
    /\ pc[c] = "commit" /\ writes[c][HeadName] # Unset /\ op[c].kind # "rollback_to"
          => Cataloged(c, writes[c][HeadName].tree)
    /\ pc[c] = "names" /\ op[c].kind = "restore_backup"
          => \A t \in Backup.versions \ todo[c] : Cataloged(c, t)

\* A prune removes no head: it has read the one it spares.
PruneSparesHead(c) ==
    /\ \A t \in Trees : writes[c][t] = Absent =>
          /\ op[c].kind = "prune"
          /\ writes[c][HeadName] = Unset
          /\ reads[c][HeadName] \notin {Unset, Absent}
          /\ reads[c][HeadName].tree # t
    /\ pc[c] = "names" /\ op[c].kind = "prune" =>
          reads[c][HeadName] \notin {Unset, Absent} /\ reads[c][HeadName].tree \notin todo[c]

\* The tree of an update is its batch applied to the head it read, and a
\* conditional operation has read the head it expects.
BuildsOnHead(c) ==
    /\ pc[c] \in {"guard", "head"} /\ op[c].kind = "append" =>
          op[c].expected # None /\ op[c].tree = Batch[op[c].mutation][BaseOf(op[c].expected)]
    /\ pc[c] \in {"version", "commit"} /\ op[c].mutation # None =>
          op[c].tree = Batch[op[c].mutation][BaseOf(TreeOf(reads[c][HeadName]))]
    /\ pc[c] = "commit" /\ op[c].mutation # None =>
          op[c].tree = TreeOf(IF writes[c][HeadName] = Unset THEN reads[c][HeadName]
                                                            ELSE writes[c][HeadName])
    /\ pc[c] \in {"version", "names", "commit"} /\ op[c].expected # None =>
          op[c].expected = TreeOf(reads[c][HeadName])

ClientInv(c) ==
    /\ OpShape(c)
    /\ Stages(c)
    /\ ReadSet(c)
    /\ Staged(c)
    /\ PublishesCataloged(c)
    /\ PruneSparesHead(c)
    /\ BuildsOnHead(c)

\* A catalog name holds its own version.
CatalogIsContent == \A t \in Trees : roots[t] # Absent => roots[t].tree = t

IInv ==
    /\ TypeOK
    /\ \A c \in Clients : ClientInv(c)
    /\ CatalogIsContent
    /\ "rollback_to" \notin Kinds => HeadCataloged
=============================================================================
