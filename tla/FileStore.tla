------------------------------ MODULE FileStore ------------------------------
(***************************************************************************)
(* FileNodeStore (prolly/store/file.rs): nodes and named roots are files,  *)
(* each written by an atomic rename.  A root operation takes the handle's  *)
(* mutex, then the advisory lock of .prolly-manifest.lock that all handles *)
(* and processes of the directory share.  Under the locks a commit checks  *)
(* its conditions, writes its nodes, remembers the roots it replaces and   *)
(* writes the new ones file by file; when a root write fails it puts the   *)
(* remembered ones back.  put_root, delete_root and compare_and_swap_root  *)
(* run the same critical section with at most one condition and one write. *)
(*                                                                         *)
(* I/O errors may hit the lock file, a node write, a root write or the     *)
(* restoring of a root; a process may die between any two file operations. *)
(***************************************************************************)
EXTENDS Manifests, Naturals

CONSTANTS
    Clients,            \* threads that call the store
    Requests,           \* their commits, as in StrictStore
    Handles,            \* open FileNodeStore handles
    HandleOf,           \* HandleOf[c]: the handle client c calls
    List,               \* the request of list_roots
    None,               \* no request, or nobody holding a lock
    MaxFaults,          \* bound: I/O errors before the roots are restored
    MaxRestoreFaults,   \* bound: I/O errors while roots are restored
    MaxCrashes          \* bound: processes killed

ASSUME ClientsAssumption == HandleOf \in [Clients -> Handles] /\ None \notin Clients
ASSUME FileBoundsAssumption ==
    MaxFaults \in Nat /\ MaxRestoreFaults \in Nat /\ MaxCrashes \in Nat
ASSUME FileRequestsAssumption ==
    /\ Requests \subseteq [nodes : SUBSET Cids,
                           conditions : [Names -> MaybeRootValue],
                           writes : [Names -> MaybeRootValue]]
    /\ List \notin Requests /\ None \notin Requests /\ List # None

\* What a transaction stages: each tree it publishes is covered by nodes it
\* writes or by the roots it validates (Transactions, HandlesCovered).
ASSUME CoveredRequestsAssumption ==
    \A r \in Requests, n \in Names :
       r.writes[n] # Unset =>
          ReachOf(r.writes[n]) \subseteq
             r.nodes \cup UNION {ReachOf(r.conditions[m]) :
                                  m \in {k \in Names : r.conditions[k] # Unset}}

VARIABLES
    nodeFiles, rootFiles,  \* the directory: node files, root files
    mutex,                 \* mutex[h]: the client holding manifest_lock of h
    flock,                 \* the client holding the lock file
    pc,                    \* control state of a client
    request,               \* its request
    unwritten,             \* node writes it has not made yet
    before,                \* snapshots: the roots it replaces
    applied,               \* names it has written and not restored
    listing,               \* entries list_roots has read, or Unset
    view,                  \* the last listing returned to a client
    faults, restoreFaults, crashes

vars == <<nodeFiles, rootFiles, mutex, flock, pc, request, unwritten, before, applied,
          listing, view, faults, restoreFaults, crashes>>
disk == <<nodeFiles, rootFiles>>
locks == <<mutex, flock>>
budget == <<faults, restoreFaults, crashes>>

NoRoots == [n \in Names |-> Absent]
NoEntries == [n \in Names |-> Unset]

TypeOK ==
    /\ nodeFiles \in SUBSET Cids
    /\ rootFiles \in [Names -> RootValue]
    /\ mutex \in [Handles -> Clients \cup {None}]
    /\ flock \in Clients \cup {None}
    /\ pc \in [Clients -> {"idle", "mutex", "file", "check", "nodes", "roots", "restore",
                           "list"}]
    /\ request \in [Clients -> Requests \cup {List, None}]
    /\ unwritten \in [Clients -> SUBSET Cids]
    /\ before \in [Clients -> [Names -> RootValue]]
    /\ applied \in [Clients -> SUBSET Names]
    /\ listing \in [Clients -> [Names -> MaybeRootValue]]
    /\ view \in [Names -> RootValue]
    /\ faults \in 0 .. MaxFaults
    /\ restoreFaults \in 0 .. MaxRestoreFaults
    /\ crashes \in 0 .. MaxCrashes

Init ==
    /\ nodeFiles = {}
    /\ rootFiles = NoRoots
    /\ mutex = [h \in Handles |-> None]
    /\ flock = None
    /\ pc = [c \in Clients |-> "idle"]
    /\ request = [c \in Clients |-> None]
    /\ unwritten = [c \in Clients |-> {}]
    /\ before = [c \in Clients |-> NoRoots]
    /\ applied = [c \in Clients |-> {}]
    /\ listing = [c \in Clients |-> NoEntries]
    /\ view = NoRoots
    /\ faults = 0
    /\ restoreFaults = 0
    /\ crashes = 0

Goto(c, label) == pc' = [pc EXCEPT ![c] = label]

Fault == faults < MaxFaults /\ faults' = faults + 1

-----------------------------------------------------------------------------
(* Entering and leaving the critical section *)

Call(c, r) ==
    /\ pc[c] = "idle"
    /\ Goto(c, "mutex")
    /\ request' = [request EXCEPT ![c] = r]
    /\ UNCHANGED <<disk, locks, unwritten, before, applied, listing, view, budget>>

LockMutex(c) ==
    /\ pc[c] = "mutex"
    /\ mutex[HandleOf[c]] = None
    /\ mutex' = [mutex EXCEPT ![HandleOf[c]] = c]
    /\ Goto(c, "file")
    /\ UNCHANGED <<disk, flock, request, unwritten, before, applied, listing, view, budget>>

\* lock_manifest_file.
LockFile(c) ==
    /\ pc[c] = "file"
    /\ flock = None
    /\ flock' = c
    /\ Goto(c, IF request[c] = List THEN "list" ELSE "check")
    /\ UNCHANGED <<disk, mutex, request, unwritten, before, applied, listing, view, budget>>

\* The call is over and its locals are gone.
ResetLocals(cs) ==
    /\ pc' = [c \in Clients |-> IF c \in cs THEN "idle" ELSE pc[c]]
    /\ request' = [c \in Clients |-> IF c \in cs THEN None ELSE request[c]]
    /\ unwritten' = [c \in Clients |-> IF c \in cs THEN {} ELSE unwritten[c]]
    /\ before' = [c \in Clients |-> IF c \in cs THEN NoRoots ELSE before[c]]
    /\ applied' = [c \in Clients |-> IF c \in cs THEN {} ELSE applied[c]]
    /\ listing' = [c \in Clients |-> IF c \in cs THEN NoEntries ELSE listing[c]]

\* Both guards are dropped, whatever the result.
Return(c) ==
    /\ mutex' = [mutex EXCEPT ![HandleOf[c]] = None]
    /\ flock' = IF flock = c THEN None ELSE flock
    /\ ResetLocals({c})

\* An I/O error that returns at once: opening the lock file, reading a root, or
\* writing a node.
FailEarly(c) ==
    /\ pc[c] \in {"file", "check", "nodes", "list"}
    /\ Fault
    /\ Return(c)
    /\ UNCHANGED <<disk, view, restoreFaults, crashes>>

-----------------------------------------------------------------------------
(* commit_transaction *)

ConditionsHold(conditions) ==
    \A n \in Names : conditions[n] \in {Unset, rootFiles[n]}

\* Mutant: a mismatch is checked again with the locks held.
CheckConditionsSpins(c) ==
    /\ pc[c] = "check"
    /\ IF ConditionsHold(request[c].conditions)
       THEN /\ Goto(c, "nodes")
            /\ unwritten' = [unwritten EXCEPT ![c] = request[c].nodes]
       ELSE UNCHANGED <<pc, unwritten>>
    /\ UNCHANGED <<disk, locks, request, before, applied, listing, view, budget>>

\* The conditions are read under both locks; a mismatch returns Conflict.
CheckConditions(c) ==
    /\ pc[c] = "check"
    /\ IF ConditionsHold(request[c].conditions)
       THEN /\ Goto(c, "nodes")
            /\ unwritten' = [unwritten EXCEPT ![c] = request[c].nodes]
            /\ UNCHANGED <<locks, request, before, applied, listing>>
       ELSE Return(c)
    /\ UNCHANGED <<disk, view, budget>>

\* write_node: a present node is left as it is.
WriteNode(c, cid) ==
    /\ pc[c] = "nodes"
    /\ cid \in unwritten[c]
    /\ nodeFiles' = nodeFiles \cup {cid}
    /\ unwritten' = [unwritten EXCEPT ![c] = @ \ {cid}]
    /\ UNCHANGED <<rootFiles, locks, pc, request, before, applied, listing, view, budget>>

\* Mutant: the roots are written while nodes are still missing.
SnapshotRootsEarly(c) ==
    /\ pc[c] = "nodes"
    /\ before' = [before EXCEPT ![c] = rootFiles]
    /\ Goto(c, "roots")
    /\ UNCHANGED <<disk, locks, request, unwritten, applied, listing, view, budget>>

\* snapshots.
SnapshotRoots(c) ==
    /\ pc[c] = "nodes"
    /\ unwritten[c] = {}
    /\ before' = [before EXCEPT ![c] = rootFiles]
    /\ Goto(c, "roots")
    /\ UNCHANGED <<disk, locks, request, unwritten, applied, listing, view, budget>>

WrittenNames(r) == {n \in Names : r.writes[n] # Unset}

\* apply_root_write_unlocked.
WriteRoot(c, n) ==
    /\ pc[c] = "roots"
    /\ n \in WrittenNames(request[c]) \ applied[c]
    /\ rootFiles' = [rootFiles EXCEPT ![n] = request[c].writes[n]]
    /\ applied' = [applied EXCEPT ![c] = @ \cup {n}]
    /\ UNCHANGED <<nodeFiles, locks, pc, request, unwritten, before, listing, view, budget>>

ReturnApplied(c) ==
    /\ pc[c] = "roots"
    /\ applied[c] = WrittenNames(request[c])
    /\ Return(c)
    /\ UNCHANGED <<disk, view, budget>>

\* Mutant: a failed root write returns without restoring the others.
FailRootNoRestore(c) ==
    /\ pc[c] = "roots"
    /\ applied[c] # WrittenNames(request[c])
    /\ Fault
    /\ Return(c)
    /\ UNCHANGED <<disk, view, restoreFaults, crashes>>

\* A root write fails: the roots written so far are restored.
FailRoot(c) ==
    /\ pc[c] = "roots"
    /\ applied[c] # WrittenNames(request[c])
    /\ Fault
    /\ Goto(c, "restore")
    /\ UNCHANGED <<disk, locks, request, unwritten, before, applied, listing, view,
                   restoreFaults, crashes>>

\* restore_root_unlocked.
RestoreRoot(c, n) ==
    /\ pc[c] = "restore"
    /\ n \in applied[c]
    /\ rootFiles' = [rootFiles EXCEPT ![n] = before[c][n]]
    /\ applied' = [applied EXCEPT ![c] = @ \ {n}]
    /\ UNCHANGED <<nodeFiles, locks, pc, request, unwritten, before, listing, view, budget>>

\* "let _ =": an error while restoring is ignored.
FailRestore(c, n) ==
    /\ pc[c] = "restore"
    /\ n \in applied[c]
    /\ restoreFaults < MaxRestoreFaults
    /\ restoreFaults' = restoreFaults + 1
    /\ applied' = [applied EXCEPT ![c] = @ \ {n}]
    /\ UNCHANGED <<disk, locks, pc, request, unwritten, before, listing, view, faults,
                   crashes>>

ReturnError(c) ==
    /\ pc[c] = "restore"
    /\ applied[c] = {}
    /\ Return(c)
    /\ UNCHANGED <<disk, view, budget>>

-----------------------------------------------------------------------------
(* list_roots: the directory is read entry by entry under the locks *)

ListEntry(c, n) ==
    /\ pc[c] = "list"
    /\ listing[c][n] = Unset
    /\ listing' = [listing EXCEPT ![c][n] = rootFiles[n]]
    /\ UNCHANGED <<disk, locks, pc, request, unwritten, before, applied, view, budget>>

\* Mutant: the listing is returned before every entry is read.
ReturnListingEarly(c) ==
    /\ pc[c] = "list"
    /\ view' = listing[c]
    /\ Return(c)
    /\ UNCHANGED <<disk, budget>>

ReturnListing(c) ==
    /\ pc[c] = "list"
    /\ \A n \in Names : listing[c][n] # Unset
    /\ view' = listing[c]
    /\ Return(c)
    /\ UNCHANGED <<disk, budget>>

-----------------------------------------------------------------------------
\* The process that owns a handle dies: its calls vanish where they are, and
\* the operating system releases the lock file.
Crash(h) ==
    LET cs == {c \in Clients : HandleOf[c] = h} IN
    /\ crashes < MaxCrashes
    /\ crashes' = crashes + 1
    /\ mutex' = [mutex EXCEPT ![h] = None]
    /\ flock' = IF flock \in cs THEN None ELSE flock
    /\ ResetLocals(cs)
    /\ UNCHANGED <<disk, view, faults, restoreFaults>>

\* Steps of a client inside the critical section.
Critical(c) ==
    \/ CheckConditions(c) \/ SnapshotRoots(c) \/ ReturnApplied(c) \/ ReturnError(c)
    \/ ReturnListing(c)
    \/ \E cid \in Cids : WriteNode(c, cid)
    \/ \E n \in Names : WriteRoot(c, n) \/ RestoreRoot(c, n) \/ ListEntry(c, n)

Errors(c) == FailEarly(c) \/ FailRoot(c) \/ \E n \in Names : FailRestore(c, n)

ClientNext(c) ==
    \/ \E r \in Requests \cup {List} : Call(c, r)
    \/ LockMutex(c) \/ LockFile(c) \/ Critical(c) \/ Errors(c)

Next ==
    \/ \E c \in Clients : ClientNext(c)
    \/ \E h \in Handles : Crash(h)

Spec == Init /\ [][Next]_vars

\* A thread inside the critical section keeps running (or its process dies).
FairSpec == Spec /\ \A c \in Clients : WF_vars(Critical(c))

-----------------------------------------------------------------------------
(* Properties *)

\* What another client can observe: a commit holds the lock file while its root
\* files are half written, so its snapshot is still the visible state.
VisibleRoots ==
    IF flock # None /\ pc[flock] \in {"roots", "restore"} THEN before[flock] ELSE rootFiles

Strict == INSTANCE StrictStore WITH nodes <- nodeFiles, roots <- VisibleRoots

\* The file store keeps the strict transaction contract that its
\* supports_transactions claims.
StrictContract == Strict!Spec

\* Whatever fails, and wherever a process dies, every root file names a tree
\* whose node files exist: nodes are written before roots.
RootFilesComplete == \A n \in Names : ReachOf(rootFiles[n]) \subseteq nodeFiles

\* The lock file never stays taken: every operation that enters the critical
\* section leaves it, on each of its success, conflict and error paths.
LockReleased == []<>(flock = None)

-----------------------------------------------------------------------------
(* The inductive invariant *)

InSection == {"check", "nodes", "roots", "restore", "list"}

\* The lock file is held by the one client inside the critical section.
HolderInside == \A c \in Clients : pc[c] \in InSection <=> flock = c

\* A commit past its checks: the roots it validated, or the snapshot it took of
\* them, satisfy its conditions.
Validated ==
    \A c \in Clients :
       /\ pc[c] \in {"mutex", "file"} => request[c] \in Requests \cup {List}
       /\ pc[c] \in {"check", "nodes", "roots", "restore"} => request[c] \in Requests
       /\ pc[c] = "nodes" => ConditionsHold(request[c].conditions)
       /\ pc[c] \in {"roots", "restore"} =>
             \A n \in Names : request[c].conditions[n] \in {Unset, before[c][n]}

\* Its nodes are on disk before its first root is.
NodesFirst ==
    \A c \in Clients :
       /\ pc[c] = "nodes" =>
             /\ unwritten[c] \subseteq request[c].nodes
             /\ request[c].nodes \subseteq nodeFiles \cup unwritten[c]
       /\ pc[c] \in {"roots", "restore"} =>
             /\ request[c].nodes \subseteq nodeFiles
             /\ \A n \in Names : ReachOf(before[c][n]) \subseteq nodeFiles

\* The root files are the snapshot with the applied writes on top, until an
\* error while restoring is ignored.
Overlay(r, snapshot, names) ==
    [n \in Names |-> IF n \in names THEN r.writes[n] ELSE snapshot[n]]

HalfWrittenBy(c) ==
    /\ pc[c] \notin {"roots", "restore"} => applied[c] = {}
    /\ pc[c] = "roots" \/ (pc[c] = "restore" /\ restoreFaults = 0) =>
          /\ applied[c] \subseteq WrittenNames(request[c])
          /\ rootFiles = Overlay(request[c], before[c], applied[c])

HalfWritten == \A c \in Clients : HalfWrittenBy(c)

\* What a listing has read is still there.
ListingCurrent ==
    \A c \in Clients :
       IF pc[c] = "list" THEN \A n \in Names : listing[c][n] \in {Unset, rootFiles[n]}
                         ELSE listing[c] = NoEntries

IInv ==
    /\ TypeOK
    /\ HolderInside
    /\ Validated
    /\ NodesFirst
    /\ HalfWritten
    /\ ListingCurrent
    /\ RootFilesComplete
=============================================================================
