----------------------------- MODULE StrictStore -----------------------------
(***************************************************************************)
(* The strict transaction contract that TransactionalStore::               *)
(* supports_transactions promises (prolly/transaction.rs): conditions are  *)
(* evaluated against one linearizable state, the root writes of a commit   *)
(* become visible together or not at all, and a commit that fails leaves   *)
(* nothing but unreachable nodes behind.                                   *)
(***************************************************************************)
EXTENDS TransactionalStore

CONSTANT Requests  \* commits: [nodes, conditions, writes]

VARIABLE view  \* the last root map returned by list_roots

strictVars == <<nodes, roots, view>>

Init ==
    /\ StoreInit
    /\ view = [n \in Names |-> Absent]

Commit(r) ==
    /\ CommitTransaction(r.nodes, r.conditions, r.writes)
    /\ UNCHANGED view

\* Nodes of a commit that has not succeeded, or never will.
KeepNodes ==
    /\ \E r \in Requests : \E cids \in SUBSET r.nodes : BatchPut(cids)
    /\ UNCHANGED <<roots, view>>

ListRoots ==
    /\ view' = roots
    /\ UNCHANGED <<nodes, roots>>

Next ==
    \/ \E r \in Requests : Commit(r)
    \/ KeepNodes
    \/ ListRoots

Spec == Init /\ [][Next]_strictVars
=============================================================================
