------------------------------ MODULE BranchLog ------------------------------
(***************************************************************************)
(* What a branch of the S3 extension promises its clients, without leases, *)
(* conditional writes and requests: one journal of events that only grows  *)
(* (PublicationEvent and RefValue in extensions/s3/core/src/model.rs).  An *)
(* event is appended to the head the branch has at that moment, under the  *)
(* authority of the event before it; only a takeover changes the           *)
(* authority, to the next generation and at the same head.  The operations *)
(* of callers are commits, and a commit is stored before an event names    *)
(* it.  A receipt is given for an operation the journal holds.             *)
(***************************************************************************)
EXTENDS Naturals, Sequences

CONSTANTS
    Ops,        \* operation ids that callers choose
    Imported    \* the commits that are stored before the branch exists

VARIABLES
    log,        \* the events of the branch, oldest first
    deleted,    \* the ref is a tombstone
    commits,    \* the commits the object store holds
    receipts    \* operations a client holds a receipt for

Init ==
    /\ log = <<>>
    /\ deleted = FALSE
    /\ commits = Imported
    /\ receipts = {}

Latest == log[Len(log)]
Open == log # <<>> /\ ~deleted

\* The first event, or the first after a deletion, under any authority.
Create(e) ==
    /\ ~Open
    /\ e.op \notin Ops
    /\ deleted' = FALSE

\* A commit on top of the head, a head moved to any commit, a deletion.
Commit(e) ==
    /\ e.op \in Ops
    /\ e.target = Append(Latest.target, e.op)
    /\ deleted' = FALSE

Reset(e) ==
    /\ e.op \notin Ops
    /\ deleted' = FALSE

Delete(e) ==
    /\ e.op \notin Ops
    /\ e.target = Latest.target
    /\ deleted' = TRUE

Write(e) ==
    /\ Open
    /\ e.authority = Latest.authority
    /\ Commit(e) \/ Reset(e) \/ Delete(e)

TakeOver(e) ==
    /\ Open
    /\ e.op \notin Ops
    /\ e.authority.generation = Latest.authority.generation + 1
    /\ e.target = Latest.target
    /\ deleted' = FALSE

\* The writer may learn of the outcome at once, later or never.
Publish ==
    /\ log' # <<>>
    /\ LET e == log'[Len(log')]
       IN  /\ log' = Append(log, e)
           /\ e.target \in commits
           /\ Create(e) \/ Write(e) \/ TakeOver(e)
           /\ receipts' \in {receipts, receipts \cup ({e.op} \cap Ops)}
    /\ UNCHANGED commits

\* A commit is stored, whether or not an event will name it.
Store ==
    /\ commits \subseteq commits'
    /\ UNCHANGED <<log, deleted, receipts>>

Acknowledge ==
    /\ \E i \in 1 .. Len(log) : receipts' = receipts \cup ({log[i].op} \cap Ops)
    /\ UNCHANGED <<log, deleted, commits>>

Next == Publish \/ Store \/ Acknowledge

Spec == Init /\ [][Next]_<<log, deleted, commits, receipts>>
=============================================================================
