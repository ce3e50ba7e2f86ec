--------------------------- MODULE FileStoreProofs ---------------------------
(***************************************************************************)
(* Proofs about FileStore, for every set of clients, handles, names and    *)
(* requests and every bound on faults and crashes.                         *)
(***************************************************************************)
EXTENDS FileStore, TLAPS

\* Zenon is tried on every leaf; the leaves that need arithmetic or the extensionality
\* of functions and records cite SMT.
USE Zenon

\* The initial state is well typed.
LEMMA TypeInit == Init => TypeOK
BY FileBoundsAssumption, SMT
DEF Init, TypeOK, NoRoots, NoEntries, RootValue, MaybeRootValue

\* Dropping the locals of some calls keeps their types.
LEMMA ResetType ==
    ASSUME TypeOK, NEW cs \in SUBSET Clients, ResetLocals(cs)
    PROVE  /\ pc' \in [Clients -> {"idle", "mutex", "file", "check", "nodes", "roots",
                                   "restore", "list"}]
           /\ request' \in [Clients -> Requests \cup {List, None}]
           /\ unwritten' \in [Clients -> SUBSET Cids]
           /\ before' \in [Clients -> [Names -> RootValue]]
           /\ applied' \in [Clients -> SUBSET Names]
           /\ listing' \in [Clients -> [Names -> MaybeRootValue]]
<1>1. NoRoots \in [Names -> RootValue] /\ NoEntries \in [Names -> MaybeRootValue]
  BY DEF NoRoots, NoEntries, RootValue, MaybeRootValue
<1>. QED BY <1>1 DEF TypeOK, ResetLocals

\* Leaving the critical section keeps the types of the locks and locals.
LEMMA ReturnType ==
    ASSUME TypeOK, NEW c \in Clients, Return(c)
    PROVE  /\ mutex' \in [Handles -> Clients \cup {None}]
           /\ flock' \in Clients \cup {None}
           /\ pc' \in [Clients -> {"idle", "mutex", "file", "check", "nodes", "roots",
                                   "restore", "list"}]
           /\ request' \in [Clients -> Requests \cup {List, None}]
           /\ unwritten' \in [Clients -> SUBSET Cids]
           /\ before' \in [Clients -> [Names -> RootValue]]
           /\ applied' \in [Clients -> SUBSET Names]
           /\ listing' \in [Clients -> [Names -> MaybeRootValue]]
<1>1. ResetLocals({c})
  BY DEF Return
<1>2. /\ mutex' \in [Handles -> Clients \cup {None}]
      /\ flock' \in Clients \cup {None}
  BY ClientsAssumption DEF TypeOK, Return
<1>. QED BY <1>1, <1>2, ResetType

\* Every step keeps the types.
LEMMA TypeStep ==
    ASSUME TypeOK, Validated, [Next]_vars
    PROVE  TypeOK'
<1>. USE DEF TypeOK, disk, locks, budget
<1>1. ASSUME NEW c \in Clients, ClientNext(c) PROVE TypeOK'
  <2>1. ASSUME NEW r \in Requests \cup {List}, Call(c, r) PROVE TypeOK'
    BY <2>1 DEF Call, Goto
  <2>2. CASE LockMutex(c)
    BY <2>2 DEF LockMutex, Goto
  <2>3. CASE LockFile(c)
    BY <2>3 DEF LockFile, Goto
  <2>4. CASE CheckConditions(c)
    <3>1. CASE ConditionsHold(request[c].conditions)
      <4>1. unwritten' \in [Clients -> SUBSET Cids]
        BY <2>4, <3>1, FileRequestsAssumption DEF CheckConditions, Validated
      <4>. QED BY <2>4, <3>1, <4>1 DEF CheckConditions, Goto
    <3>2. CASE ~ConditionsHold(request[c].conditions)
      <4>1. Return(c) /\ UNCHANGED <<disk, view, budget>>
        BY <2>4, <3>2 DEF CheckConditions
      <4>. QED BY <4>1, ReturnType
    <3>. QED BY <3>1, <3>2
  <2>5. CASE SnapshotRoots(c)
    BY <2>5 DEF SnapshotRoots, Goto
  <2>6. CASE ReturnApplied(c)
    BY <2>6, ReturnType DEF ReturnApplied
  <2>7. CASE ReturnError(c)
    BY <2>7, ReturnType DEF ReturnError
  <2>8. CASE ReturnListing(c)
    <3>1. listing[c] \in [Names -> RootValue]
      BY <2>8, SMT DEF ReturnListing, MaybeRootValue
    <3>2. Return(c) /\ view' = listing[c] /\ UNCHANGED <<disk, budget>>
      BY <2>8 DEF ReturnListing
    <3>. QED BY <3>1, <3>2, ReturnType
  <2>9. ASSUME NEW cid \in Cids, WriteNode(c, cid) PROVE TypeOK'
    BY <2>9 DEF WriteNode
  <2>10. ASSUME NEW n \in Names, WriteRoot(c, n) PROVE TypeOK'
    <3>1. request[c].writes[n] \in RootValue
      BY <2>10, FileRequestsAssumption, SMT DEF WriteRoot, Validated, WrittenNames, MaybeRootValue
    <3>. QED BY <2>10, <3>1 DEF WriteRoot
  <2>11. ASSUME NEW n \in Names, RestoreRoot(c, n) PROVE TypeOK'
    BY <2>11 DEF RestoreRoot
  <2>12. ASSUME NEW n \in Names, ListEntry(c, n) PROVE TypeOK'
    BY <2>12 DEF ListEntry, MaybeRootValue
  <2>13. CASE FailEarly(c)
    <3>1. Return(c) /\ UNCHANGED <<disk, view, restoreFaults, crashes>>
      BY <2>13 DEF FailEarly
    <3>2. faults' \in 0 .. MaxFaults
      BY <2>13, FileBoundsAssumption, SMT DEF FailEarly, Fault
    <3>. QED BY <3>1, <3>2, ReturnType
  <2>14. CASE FailRoot(c)
    <3>1. faults' \in 0 .. MaxFaults
      BY <2>14, FileBoundsAssumption, SMT DEF FailRoot, Fault
    <3>. QED BY <2>14, <3>1 DEF FailRoot, Goto
  <2>15. ASSUME NEW n \in Names, FailRestore(c, n) PROVE TypeOK'
    <3>1. restoreFaults' \in 0 .. MaxRestoreFaults
      BY <2>15, FileBoundsAssumption, SMT DEF FailRestore
    <3>. QED BY <2>15, <3>1 DEF FailRestore
  <2>. QED BY <1>1, <2>1, <2>2, <2>3, <2>4, <2>5, <2>6, <2>7, <2>8,
           <2>9, <2>10, <2>11, <2>12, <2>13, <2>14, <2>15
       DEF ClientNext, Critical, Errors
<1>2. ASSUME NEW h \in Handles, Crash(h) PROVE TypeOK'
  <2>1. crashes' \in 0 .. MaxCrashes BY <1>2, FileBoundsAssumption, SMT DEF Crash
  <2>2. /\ mutex' \in [Handles -> Clients \cup {None}]
        /\ flock' \in Clients \cup {None}
    BY <1>2 DEF Crash
  <2>. DEFINE cs == {c \in Clients : HandleOf[c] = h}
  <2>3. /\ cs \in SUBSET Clients /\ ResetLocals(cs)
        /\ UNCHANGED <<disk, view, faults, restoreFaults>>
    BY <1>2 DEF Crash
  <2>. HIDE DEF cs
  <2>. QED BY <2>1, <2>2, <2>3, ResetType
<1>3. CASE UNCHANGED vars
  BY <1>3 DEF vars
<1>. QED BY <1>1, <1>2, <1>3 DEF Next

\* The domains of the functions, which is what most steps need of their types.
Domains ==
    /\ DOMAIN pc = Clients /\ DOMAIN request = Clients /\ DOMAIN unwritten = Clients
    /\ DOMAIN before = Clients /\ DOMAIN applied = Clients /\ DOMAIN listing = Clients
    /\ DOMAIN rootFiles = Names /\ \A c \in Clients : DOMAIN listing[c] = Names
    /\ flock \in Clients \cup {None}

\* A well typed state has these domains.
LEMMA TypedDomains == TypeOK => Domains
BY DEF TypeOK, Domains

\* The lock file excludes: no step brings a second client into the section.
LEMMA HolderStep ==
    ASSUME TypeOK, HolderInside, [Next]_vars
    PROVE  HolderInside'
<1>0. Domains BY TypedDomains
<1>. USE <1>0, ClientsAssumption
     DEF Domains, HolderInside, InSection, disk, locks, budget
<1>1. ASSUME NEW c \in Clients, ClientNext(c) PROVE HolderInside'
  <2>1. ASSUME NEW r \in Requests \cup {List}, Call(c, r) PROVE HolderInside'
    BY <2>1 DEF Call, Goto
  <2>2. CASE LockMutex(c)
    BY <2>2 DEF LockMutex, Goto
  <2>3. CASE LockFile(c)
    BY <2>3 DEF LockFile, Goto
  <2>4. CASE CheckConditions(c)
    BY <2>4, SMT DEF CheckConditions, Goto, Return, ResetLocals
  <2>5. CASE SnapshotRoots(c)
    BY <2>5 DEF SnapshotRoots, Goto
  <2>6. CASE ReturnApplied(c)
    BY <2>6 DEF ReturnApplied, Return, ResetLocals
  <2>7. CASE ReturnError(c)
    BY <2>7 DEF ReturnError, Return, ResetLocals
  <2>8. CASE ReturnListing(c)
    BY <2>8 DEF ReturnListing, Return, ResetLocals
  <2>9. ASSUME NEW cid \in Cids, WriteNode(c, cid) PROVE HolderInside'
    BY <2>9 DEF WriteNode
  <2>10. ASSUME NEW n \in Names, WriteRoot(c, n) PROVE HolderInside'
    BY <2>10 DEF WriteRoot
  <2>11. ASSUME NEW n \in Names, RestoreRoot(c, n) PROVE HolderInside'
    BY <2>11 DEF RestoreRoot
  <2>12. ASSUME NEW n \in Names, ListEntry(c, n) PROVE HolderInside'
    BY <2>12 DEF ListEntry
  <2>13. CASE FailEarly(c)
    BY <2>13 DEF FailEarly, Fault, Return, ResetLocals
  <2>14. CASE FailRoot(c)
    BY <2>14 DEF FailRoot, Fault, Goto
  <2>15. ASSUME NEW n \in Names, FailRestore(c, n) PROVE HolderInside'
    BY <2>15 DEF FailRestore
  <2>. QED BY <1>1, <2>1, <2>2, <2>3, <2>4, <2>5, <2>6, <2>7, <2>8,
           <2>9, <2>10, <2>11, <2>12, <2>13, <2>14, <2>15
       DEF ClientNext, Critical, Errors
<1>2. ASSUME NEW h \in Handles, Crash(h) PROVE HolderInside'
  BY <1>2 DEF Crash, ResetLocals
<1>3. CASE UNCHANGED vars
  BY <1>3 DEF vars
<1>. QED BY <1>1, <1>2, <1>3 DEF Next

\* Nobody changes the roots a commit has checked before it is done.
LEMMA ValidatedStep ==
    ASSUME TypeOK, HolderInside, Validated, [Next]_vars
    PROVE  Validated'
<1>0. Domains BY TypedDomains
<1>. USE <1>0, ClientsAssumption
     DEF Domains, HolderInside, InSection, Validated, disk, locks, budget
<1>1. ASSUME NEW c \in Clients, ClientNext(c) PROVE Validated'
  <2>1. ASSUME NEW r \in Requests \cup {List}, Call(c, r) PROVE Validated'
    BY <2>1 DEF Call, Goto, ConditionsHold
  <2>2. CASE LockMutex(c)
    BY <2>2 DEF LockMutex, Goto, ConditionsHold
  <2>3. CASE LockFile(c)
    BY <2>3, FileRequestsAssumption DEF LockFile, Goto, ConditionsHold
  <2>4. CASE CheckConditions(c)
    <3>1. CASE ConditionsHold(request[c].conditions)
      <4>1. UNCHANGED <<request, before, rootFiles>> /\ Goto(c, "nodes")
        BY <2>4, <3>1 DEF CheckConditions
      <4>2. pc[c] = "check"
        BY <2>4 DEF CheckConditions
      <4>. QED BY <3>1, <4>1, <4>2 DEF Goto, ConditionsHold
    <3>2. CASE ~ConditionsHold(request[c].conditions)
      <4>1. ResetLocals({c}) /\ UNCHANGED rootFiles
        BY <2>4, <3>2 DEF CheckConditions, Return
      <4>. QED BY <4>1 DEF ResetLocals, ConditionsHold
    <3>. QED BY <3>1, <3>2
  <2>5. CASE SnapshotRoots(c)
    BY <2>5 DEF SnapshotRoots, Goto, ConditionsHold
  <2>6. CASE ReturnApplied(c)
    BY <2>6 DEF ReturnApplied, Return, ResetLocals, ConditionsHold
  <2>7. CASE ReturnError(c)
    BY <2>7 DEF ReturnError, Return, ResetLocals, ConditionsHold
  <2>8. CASE ReturnListing(c)
    BY <2>8 DEF ReturnListing, Return, ResetLocals, ConditionsHold
  <2>9. ASSUME NEW cid \in Cids, WriteNode(c, cid) PROVE Validated'
    BY <2>9 DEF WriteNode, ConditionsHold
  <2>10. ASSUME NEW n \in Names, WriteRoot(c, n) PROVE Validated'
    BY <2>10, SMT DEF WriteRoot, ConditionsHold
  <2>11. ASSUME NEW n \in Names, RestoreRoot(c, n) PROVE Validated'
    BY <2>11, SMT DEF RestoreRoot, ConditionsHold
  <2>12. ASSUME NEW n \in Names, ListEntry(c, n) PROVE Validated'
    BY <2>12 DEF ListEntry, ConditionsHold
  <2>13. CASE FailEarly(c)
    BY <2>13 DEF FailEarly, Fault, Return, ResetLocals, ConditionsHold
  <2>14. CASE FailRoot(c)
    BY <2>14 DEF FailRoot, Fault, Goto, ConditionsHold
  <2>15. ASSUME NEW n \in Names, FailRestore(c, n) PROVE Validated'
    BY <2>15 DEF FailRestore, ConditionsHold
  <2>. QED BY <1>1, <2>1, <2>2, <2>3, <2>4, <2>5, <2>6, <2>7, <2>8,
           <2>9, <2>10, <2>11, <2>12, <2>13, <2>14, <2>15
       DEF ClientNext, Critical, Errors
<1>2. ASSUME NEW h \in Handles, Crash(h) PROVE Validated'
  BY <1>2 DEF Crash, ResetLocals, ConditionsHold
<1>3. CASE UNCHANGED vars
  BY <1>3 DEF vars, ConditionsHold
<1>. QED BY <1>1, <1>2, <1>3 DEF Next

\* The nodes of a commit stay on disk while it writes its roots.
LEMMA NodesFirstStep ==
    ASSUME TypeOK, HolderInside, RootFilesComplete, NodesFirst, [Next]_vars
    PROVE  NodesFirst'
<1>0. Domains BY TypedDomains
<1>. USE <1>0, ClientsAssumption
     DEF Domains, HolderInside, InSection, NodesFirst, disk, locks, budget
<1>1. ASSUME NEW c \in Clients, ClientNext(c) PROVE NodesFirst'
  <2>1. ASSUME NEW r \in Requests \cup {List}, Call(c, r) PROVE NodesFirst'
    BY <2>1 DEF Call, Goto
  <2>2. CASE LockMutex(c)
    BY <2>2 DEF LockMutex, Goto
  <2>3. CASE LockFile(c)
    BY <2>3 DEF LockFile, Goto
  <2>4. CASE CheckConditions(c)
    BY <2>4, SMT DEF CheckConditions, Goto, Return, ResetLocals
  <2>5. CASE SnapshotRoots(c)
    BY <2>5 DEF SnapshotRoots, Goto, RootFilesComplete
  <2>6. CASE ReturnApplied(c)
    BY <2>6 DEF ReturnApplied, Return, ResetLocals
  <2>7. CASE ReturnError(c)
    BY <2>7 DEF ReturnError, Return, ResetLocals
  <2>8. CASE ReturnListing(c)
    BY <2>8 DEF ReturnListing, Return, ResetLocals
  <2>9. ASSUME NEW cid \in Cids, WriteNode(c, cid) PROVE NodesFirst'
    BY <2>9 DEF WriteNode
  <2>10. ASSUME NEW n \in Names, WriteRoot(c, n) PROVE NodesFirst'
    BY <2>10 DEF WriteRoot
  <2>11. ASSUME NEW n \in Names, RestoreRoot(c, n) PROVE NodesFirst'
    BY <2>11 DEF RestoreRoot
  <2>12. ASSUME NEW n \in Names, ListEntry(c, n) PROVE NodesFirst'
    BY <2>12 DEF ListEntry
  <2>13. CASE FailEarly(c)
    BY <2>13 DEF FailEarly, Fault, Return, ResetLocals
  <2>14. CASE FailRoot(c)
    BY <2>14 DEF FailRoot, Fault, Goto
  <2>15. ASSUME NEW n \in Names, FailRestore(c, n) PROVE NodesFirst'
    BY <2>15 DEF FailRestore
  <2>. QED BY <1>1, <2>1, <2>2, <2>3, <2>4, <2>5, <2>6, <2>7, <2>8,
           <2>9, <2>10, <2>11, <2>12, <2>13, <2>14, <2>15
       DEF ClientNext, Critical, Errors
<1>2. ASSUME NEW h \in Handles, Crash(h) PROVE NodesFirst'
  BY <1>2 DEF Crash, ResetLocals
<1>3. CASE UNCHANGED vars
  BY <1>3 DEF vars
<1>. QED BY <1>1, <1>2, <1>3 DEF Next

-----------------------------------------------------------------------------
\* A step of one client leaves the locals of the others alone.
LEMMA OtherLocals ==
    ASSUME Domains, NEW c \in Clients, ClientNext(c), NEW d \in Clients, d # c
    PROVE  /\ pc'[d] = pc[d] /\ request'[d] = request[d]
           /\ before'[d] = before[d] /\ applied'[d] = applied[d]
<1>. USE DEF Domains, Goto
<1>1. ASSUME ResetLocals({c})
      PROVE  /\ pc'[d] = pc[d] /\ request'[d] = request[d]
             /\ before'[d] = before[d] /\ applied'[d] = applied[d]
  BY <1>1 DEF ResetLocals
<1>2. CASE (\E r \in Requests \cup {List} : Call(c, r)) \/ LockMutex(c) \/ LockFile(c)
  BY <1>2 DEF Call, LockMutex, LockFile
<1>3. CASE Critical(c)
  <2>1. CASE CheckConditions(c) BY <1>1, <2>1 DEF CheckConditions, Return
  <2>2. CASE SnapshotRoots(c) BY <2>2 DEF SnapshotRoots
  <2>3. CASE ReturnApplied(c) \/ ReturnError(c) \/ ReturnListing(c)
    BY <1>1, <2>3 DEF ReturnApplied, ReturnError, ReturnListing, Return
  <2>4. CASE \E cid \in Cids : WriteNode(c, cid) BY <2>4 DEF WriteNode
  <2>5. CASE \E n \in Names : WriteRoot(c, n) \/ RestoreRoot(c, n) \/ ListEntry(c, n)
    BY <2>5 DEF WriteRoot, RestoreRoot, ListEntry
  <2>. QED BY <1>3, <2>1, <2>2, <2>3, <2>4, <2>5 DEF Critical
<1>4. CASE Errors(c)
  <2>1. CASE FailEarly(c) BY <1>1, <2>1 DEF FailEarly, Return
  <2>2. CASE FailRoot(c) BY <2>2 DEF FailRoot
  <2>3. CASE \E n \in Names : FailRestore(c, n) BY <2>3 DEF FailRestore
  <2>. QED BY <1>4, <2>1, <2>2, <2>3 DEF Errors
<1>. QED BY <1>2, <1>3, <1>4 DEF ClientNext

\* A client whose locals, and the files they speak of, stay as they are.
LEMMA HalfKept ==
    ASSUME NEW d \in Clients, HalfWrittenBy(d), UNCHANGED <<rootFiles, restoreFaults>>,
           pc'[d] = pc[d], request'[d] = request[d], before'[d] = before[d],
           applied'[d] = applied[d]
    PROVE  HalfWrittenBy(d)'
BY DEF HalfWrittenBy, WrittenNames, Overlay

\* A client outside the writing of roots has applied none.
LEMMA HalfOutside ==
    ASSUME NEW d \in Clients, pc'[d] \notin {"roots", "restore"}, applied'[d] = {}
    PROVE  HalfWrittenBy(d)'
BY DEF HalfWrittenBy

\* Ending some calls keeps what the others have half written.
LEMMA HalfReset ==
    ASSUME HalfWritten, NEW cs \in SUBSET Clients, ResetLocals(cs),
           UNCHANGED <<rootFiles, restoreFaults>>
    PROVE  HalfWritten'
<1>. SUFFICES ASSUME NEW d \in Clients PROVE HalfWrittenBy(d)'
  BY DEF HalfWritten
<1>1. CASE d \in cs
  <2>1. pc'[d] = "idle" /\ applied'[d] = {} BY <1>1 DEF ResetLocals
  <2>. QED BY <2>1, HalfOutside
<1>2. CASE d \notin cs
  <2>1. /\ pc'[d] = pc[d] /\ request'[d] = request[d]
        /\ before'[d] = before[d] /\ applied'[d] = applied[d]
    BY <1>2 DEF ResetLocals
  <2>. QED BY <2>1, HalfKept DEF HalfWritten
<1>. QED BY <1>1, <1>2

\* Every step keeps the files equal to snapshot plus applied writes.
LEMMA HalfWrittenStep ==
    ASSUME TypeOK, HolderInside, HalfWritten, [Next]_vars
    PROVE  HalfWritten'
<1>0. Domains BY TypedDomains
<1>. USE DEF Domains, disk, locks, budget
<1>1. ASSUME NEW c \in Clients, ClientNext(c) PROVE HalfWritten'
  <2>1. ASSUME HalfWrittenBy(c)', UNCHANGED <<rootFiles, restoreFaults>> PROVE HalfWritten'
    BY <1>0, <1>1, <2>1, OtherLocals, HalfKept DEF HalfWritten
  <2>2. ASSUME HalfWrittenBy(c)', pc[c] \in {"roots", "restore"} PROVE HalfWritten'
    <3>. SUFFICES ASSUME NEW d \in Clients, d # c PROVE HalfWrittenBy(d)'
      BY <2>2 DEF HalfWritten
    <3>1. pc[d] \notin {"roots", "restore"} BY <2>2, SMT DEF HolderInside, InSection
    <3>2. applied[d] = {} BY <3>1 DEF HalfWritten, HalfWrittenBy
    <3>3. pc'[d] = pc[d] /\ applied'[d] = applied[d] BY <1>0, <1>1, OtherLocals
    <3>. QED BY <3>1, <3>2, <3>3, HalfOutside
  <2>3. ASSUME pc[c] \notin {"roots", "restore"}, pc'[c] \notin {"roots", "restore"},
               UNCHANGED <<rootFiles, restoreFaults, applied>>
        PROVE  HalfWritten'
    <3>1. applied'[c] = {} BY <2>3 DEF HalfWritten, HalfWrittenBy
    <3>2. HalfWrittenBy(c)' BY <2>3, <3>1, HalfOutside
    <3>. QED BY <2>1, <2>3, <3>2
  <2>4. ASSUME ResetLocals({c}), UNCHANGED <<rootFiles, restoreFaults>> PROVE HalfWritten'
    BY <2>4, HalfReset
  <2>5. CASE (\E r \in Requests \cup {List} : Call(c, r)) \/ LockMutex(c) \/ LockFile(c)
    BY <1>0, <2>3, <2>5 DEF Call, LockMutex, LockFile, Goto
  <2>6. CASE CheckConditions(c)
    <3>1. CASE ConditionsHold(request[c].conditions)
      BY <1>0, <2>3, <2>6, <3>1 DEF CheckConditions, Goto
    <3>2. CASE ~ConditionsHold(request[c].conditions)
      BY <2>4, <2>6, <3>2 DEF CheckConditions, Return
    <3>. QED BY <3>1, <3>2
  <2>7. CASE SnapshotRoots(c)
    <3>1. /\ pc[c] = "nodes" /\ pc'[c] = "roots" /\ before'[c] = rootFiles
          /\ UNCHANGED <<rootFiles, restoreFaults, applied>>
      BY <1>0, <2>7 DEF SnapshotRoots, Goto
    <3>2. applied'[c] = {} BY <3>1 DEF HalfWritten, HalfWrittenBy
    <3>3. rootFiles = [n \in Names |-> rootFiles[n]] BY DEF TypeOK
    <3>4. rootFiles' = Overlay(request'[c], before'[c], applied'[c])
      BY <3>1, <3>2, <3>3 DEF Overlay
    <3>5. HalfWrittenBy(c)' BY <3>1, <3>2, <3>4 DEF HalfWrittenBy
    <3>. QED BY <2>1, <3>1, <3>5
  <2>8. CASE ReturnApplied(c) \/ ReturnError(c) \/ ReturnListing(c) \/ FailEarly(c)
    BY <2>4, <2>8 DEF ReturnApplied, ReturnError, ReturnListing, FailEarly, Return
  <2>9. CASE (\E cid \in Cids : WriteNode(c, cid)) \/ \E n \in Names : ListEntry(c, n)
    <3>1. UNCHANGED <<rootFiles, restoreFaults, pc, request, before, applied>>
      BY <2>9 DEF WriteNode, ListEntry
    <3>2. HalfWrittenBy(c)' BY <3>1, HalfKept DEF HalfWritten
    <3>. QED BY <2>1, <3>1, <3>2
  <2>10. ASSUME NEW n \in Names, WriteRoot(c, n) PROVE HalfWritten'
    <3>1. /\ pc[c] = "roots" /\ UNCHANGED <<pc, request, before>>
          /\ n \in WrittenNames(request[c])
          /\ applied'[c] = applied[c] \cup {n}
          /\ rootFiles' = [rootFiles EXCEPT ![n] = request[c].writes[n]]
      BY <1>0, <2>10 DEF WriteRoot
    <3>2. /\ applied[c] \subseteq WrittenNames(request[c])
          /\ rootFiles = Overlay(request[c], before[c], applied[c])
      BY <3>1 DEF HalfWritten, HalfWrittenBy
    <3>3. rootFiles' = Overlay(request[c], before[c], applied'[c]) BY <3>1, <3>2 DEF Overlay
    <3>4. applied'[c] \subseteq WrittenNames(request[c]) BY <3>1, <3>2
    <3>5. HalfWrittenBy(c)' BY <3>1, <3>3, <3>4 DEF HalfWrittenBy, WrittenNames
    <3>. QED BY <2>2, <3>1, <3>5
  <2>11. ASSUME NEW n \in Names, RestoreRoot(c, n) PROVE HalfWritten'
    <3>1. /\ pc[c] = "restore" /\ UNCHANGED <<pc, request, before, restoreFaults>>
          /\ n \in applied[c]
          /\ applied'[c] = applied[c] \ {n}
          /\ rootFiles' = [rootFiles EXCEPT ![n] = before[c][n]]
      BY <1>0, <2>11 DEF RestoreRoot
    <3>2. ASSUME restoreFaults = 0
          PROVE  /\ applied'[c] \subseteq WrittenNames(request[c])
                 /\ rootFiles' = Overlay(request[c], before[c], applied'[c])
      <4>1. /\ applied[c] \subseteq WrittenNames(request[c])
            /\ rootFiles = Overlay(request[c], before[c], applied[c])
        BY <3>1, <3>2 DEF HalfWritten, HalfWrittenBy
      <4>2. applied'[c] \subseteq WrittenNames(request[c]) BY <3>1, <4>1
      <4>. QED BY <3>1, <4>1, <4>2 DEF Overlay
    <3>3. HalfWrittenBy(c)' BY <3>1, <3>2 DEF HalfWrittenBy, WrittenNames
    <3>. QED BY <2>2, <3>1, <3>3
  <2>12. CASE FailRoot(c)
    <3>1. /\ pc[c] = "roots" /\ pc'[c] = "restore"
          /\ UNCHANGED <<request, before, applied, rootFiles, restoreFaults>>
      BY <1>0, <2>12 DEF FailRoot, Goto
    <3>2. HalfWrittenBy(c)' BY <3>1 DEF HalfWritten, HalfWrittenBy, WrittenNames, Overlay
    <3>. QED BY <2>1, <3>1, <3>2
  <2>13. ASSUME NEW n \in Names, FailRestore(c, n) PROVE HalfWritten'
    <3>1. pc[c] = "restore" /\ pc' = pc /\ restoreFaults' = restoreFaults + 1
      BY <2>13 DEF FailRestore
    <3>2. restoreFaults' # 0 BY <3>1, SMT DEF TypeOK
    <3>3. HalfWrittenBy(c)' BY <3>1, <3>2 DEF HalfWrittenBy
    <3>. QED BY <2>2, <3>1, <3>3
  <2>. QED BY <1>1, <2>5, <2>6, <2>7, <2>8, <2>9, <2>10, <2>11, <2>12, <2>13
       DEF ClientNext, Critical, Errors
<1>2. ASSUME NEW h \in Handles, Crash(h) PROVE HalfWritten'
  BY <1>2, HalfReset DEF Crash
<1>3. CASE UNCHANGED vars
  BY <1>3, HalfKept DEF vars, HalfWritten
<1>. QED BY <1>1, <1>2, <1>3 DEF Next

\* No root moves under a listing.
LEMMA ListingStep ==
    ASSUME TypeOK, HolderInside, ListingCurrent, [Next]_vars
    PROVE  ListingCurrent'
<1>0. Domains BY TypedDomains
<1>. USE <1>0, ClientsAssumption
     DEF Domains, HolderInside, InSection, ListingCurrent, disk, locks, budget
<1>1. ASSUME NEW c \in Clients, ClientNext(c) PROVE ListingCurrent'
  <2>1. ASSUME NEW r \in Requests \cup {List}, Call(c, r) PROVE ListingCurrent'
    BY <2>1 DEF Call, Goto
  <2>2. CASE LockMutex(c)
    BY <2>2 DEF LockMutex, Goto
  <2>3. CASE LockFile(c)
    BY <2>3, SMT DEF LockFile, Goto, NoEntries
  <2>4. CASE CheckConditions(c)
    BY <2>4, SMT DEF CheckConditions, Goto, Return, ResetLocals
  <2>5. CASE SnapshotRoots(c)
    BY <2>5 DEF SnapshotRoots, Goto
  <2>6. CASE ReturnApplied(c)
    BY <2>6 DEF ReturnApplied, Return, ResetLocals
  <2>7. CASE ReturnError(c)
    BY <2>7 DEF ReturnError, Return, ResetLocals
  <2>8. CASE ReturnListing(c)
    BY <2>8 DEF ReturnListing, Return, ResetLocals
  <2>9. ASSUME NEW cid \in Cids, WriteNode(c, cid) PROVE ListingCurrent'
    BY <2>9 DEF WriteNode
  <2>10. ASSUME NEW n \in Names, WriteRoot(c, n) PROVE ListingCurrent'
    BY <2>10 DEF WriteRoot
  <2>11. ASSUME NEW n \in Names, RestoreRoot(c, n) PROVE ListingCurrent'
    BY <2>11 DEF RestoreRoot
  <2>12. ASSUME NEW n \in Names, ListEntry(c, n) PROVE ListingCurrent'
    BY <2>12 DEF ListEntry
  <2>13. CASE FailEarly(c)
    BY <2>13 DEF FailEarly, Fault, Return, ResetLocals
  <2>14. CASE FailRoot(c)
    BY <2>14 DEF FailRoot, Fault, Goto
  <2>15. ASSUME NEW n \in Names, FailRestore(c, n) PROVE ListingCurrent'
    BY <2>15 DEF FailRestore
  <2>. QED BY <1>1, <2>1, <2>2, <2>3, <2>4, <2>5, <2>6, <2>7, <2>8,
           <2>9, <2>10, <2>11, <2>12, <2>13, <2>14, <2>15
       DEF ClientNext, Critical, Errors
<1>2. ASSUME NEW h \in Handles, Crash(h) PROVE ListingCurrent'
  BY <1>2 DEF Crash, ResetLocals
<1>3. CASE UNCHANGED vars
  BY <1>3 DEF vars
<1>. QED BY <1>1, <1>2, <1>3 DEF Next

\* Every step keeps the root files complete.
LEMMA RootFilesStep ==
    ASSUME IInv, [Next]_vars
    PROVE  RootFilesComplete'
<1>. USE ClientsAssumption DEF IInv, TypeOK, RootFilesComplete, disk, locks, budget
<1>1. ASSUME NEW c \in Clients, ClientNext(c) PROVE RootFilesComplete'
  <2>1. ASSUME NEW r \in Requests \cup {List}, Call(c, r) PROVE RootFilesComplete'
    BY <2>1 DEF Call, Goto
  <2>2. CASE LockMutex(c)
    BY <2>2 DEF LockMutex, Goto
  <2>3. CASE LockFile(c)
    BY <2>3 DEF LockFile, Goto
  <2>4. CASE CheckConditions(c)
    BY <2>4 DEF CheckConditions, Goto, Return, ResetLocals
  <2>5. CASE SnapshotRoots(c)
    BY <2>5 DEF SnapshotRoots, Goto
  <2>6. CASE ReturnApplied(c)
    BY <2>6 DEF ReturnApplied, Return, ResetLocals
  <2>7. CASE ReturnError(c)
    BY <2>7 DEF ReturnError, Return, ResetLocals
  <2>8. CASE ReturnListing(c)
    BY <2>8 DEF ReturnListing, Return, ResetLocals
  <2>9. ASSUME NEW cid \in Cids, WriteNode(c, cid) PROVE RootFilesComplete'
    BY <2>9 DEF WriteNode
  <2>10. ASSUME NEW n \in Names, WriteRoot(c, n) PROVE RootFilesComplete'
    <3>1. /\ request[c] \in Requests
          /\ \A m \in Names : request[c].conditions[m] \in {Unset, before[c][m]}
          /\ request[c].nodes \subseteq nodeFiles
          /\ \A m \in Names : ReachOf(before[c][m]) \subseteq nodeFiles
      BY <2>10 DEF WriteRoot, NodesFirst, Validated
    <3>2. request[c].writes[n] # Unset
      BY <2>10 DEF WriteRoot, WrittenNames
    <3>3. ReachOf(request[c].writes[n]) \subseteq nodeFiles
      <4>. SUFFICES ASSUME NEW x \in ReachOf(request[c].writes[n]), x \notin request[c].nodes
                    PROVE  x \in nodeFiles
        BY <3>1
      <4>1. PICK m \in Names : /\ request[c].conditions[m] # Unset
                               /\ x \in ReachOf(request[c].conditions[m])
        BY <3>1, <3>2, CoveredRequestsAssumption, SMT
      <4>. QED BY <3>1, <4>1
    <3>. QED BY <2>10, <3>3 DEF WriteRoot
  <2>11. ASSUME NEW n \in Names, RestoreRoot(c, n) PROVE RootFilesComplete'
    BY <2>11 DEF RestoreRoot, NodesFirst
  <2>12. ASSUME NEW n \in Names, ListEntry(c, n) PROVE RootFilesComplete'
    BY <2>12 DEF ListEntry
  <2>13. CASE FailEarly(c)
    BY <2>13 DEF FailEarly, Fault, Return, ResetLocals
  <2>14. CASE FailRoot(c)
    BY <2>14 DEF FailRoot, Fault, Goto
  <2>15. ASSUME NEW n \in Names, FailRestore(c, n) PROVE RootFilesComplete'
    BY <2>15 DEF FailRestore
  <2>. QED BY <1>1, <2>1, <2>2, <2>3, <2>4, <2>5, <2>6, <2>7, <2>8,
           <2>9, <2>10, <2>11, <2>12, <2>13, <2>14, <2>15
       DEF ClientNext, Critical, Errors
<1>2. ASSUME NEW h \in Handles, Crash(h) PROVE RootFilesComplete'
  BY <1>2 DEF Crash, ResetLocals
<1>3. CASE UNCHANGED vars
  BY <1>3 DEF vars
<1>. QED BY <1>1, <1>2, <1>3 DEF Next

\* The initial state satisfies the invariant.
LEMMA IInvInit == Init => IInv
BY TypeInit, ClientsAssumption
DEF Init, IInv, HolderInside, InSection, Validated, NodesFirst, HalfWritten,
    HalfWrittenBy, ListingCurrent, RootFilesComplete, NoRoots, ReachOf

\* The invariant is inductive.
LEMMA IInvStep == IInv /\ [Next]_vars => IInv'
BY TypeStep, HolderStep, ValidatedStep, NodesFirstStep, HalfWrittenStep, ListingStep,
   RootFilesStep
DEF IInv

\* The invariant holds in every reachable state.
LEMMA IInvInvariant == Spec => []IInv
BY IInvInit, IInvStep, PTL DEF Spec

\* Every variable of the store keeps its type.
THEOREM FileTypeCorrect == Spec => []TypeOK
BY IInvInvariant, PTL DEF IInv

\* With any number of I/O errors and crashes, a root file only ever names a tree
\* whose node files exist.
THEOREM RootFilesAlwaysComplete == Spec => []RootFilesComplete
BY IInvInvariant, PTL DEF IInv

-----------------------------------------------------------------------------
(* The strict contract, when no process dies and no restore fails *)

\* An empty directory is an empty strict store.
LEMMA StrictInit == Init => Strict!Init
BY DEF Init, Strict!Init, Strict!StoreInit, VisibleRoots, NoRoots

\* The step that leaves the critical section successfully is the commit.
LEMMA ReturnAppliedCommits ==
    ASSUME IInv, NEW c \in Clients, ReturnApplied(c)
    PROVE  Strict!Commit(request[c])
<1>1. /\ flock = c /\ c # None /\ pc[c] = "roots" /\ flock' = None
      /\ UNCHANGED <<nodeFiles, rootFiles, view>>
  BY ClientsAssumption DEF IInv, HolderInside, InSection, ReturnApplied, Return, disk
<1>2. VisibleRoots = before[c] /\ VisibleRoots' = rootFiles
  BY <1>1 DEF VisibleRoots
<1>3. /\ rootFiles = [n \in Names |-> IF n \in applied[c] THEN request[c].writes[n]
                                                          ELSE before[c][n]]
      /\ applied[c] = {n \in Names : request[c].writes[n] # Unset}
      /\ request[c].nodes \subseteq nodeFiles
      /\ \A n \in Names : request[c].conditions[n] \in {Unset, before[c][n]}
  BY <1>1 DEF IInv, HalfWritten, HalfWrittenBy, Overlay, NodesFirst, Validated, ReturnApplied,
              WrittenNames
<1>4. rootFiles = [n \in Names |-> IF request[c].writes[n] = Unset THEN before[c][n]
                                                          ELSE request[c].writes[n]]
  BY <1>3
<1>. QED BY <1>1, <1>2, <1>3, <1>4
     DEF Strict!Commit, Strict!CommitTransaction, Strict!ConditionsHold,
         Strict!AppliedRoots

\* Every step is a step of the strict store or invisible to its clients.
LEMMA StrictStep ==
    ASSUME IInv, [Next]_vars, MaxRestoreFaults = 0, MaxCrashes = 0
    PROVE  [Strict!Next]_<<nodeFiles, VisibleRoots, view>>
<1>. DEFINE Stutter == UNCHANGED <<nodeFiles, VisibleRoots, view>>
<1>. DEFINE BatchesPut(r) == \E cids \in SUBSET r.nodes : nodeFiles' = nodeFiles \cup cids
<1>. USE ClientsAssumption DEF VisibleRoots, disk, locks, budget
<1>1. ASSUME NEW c \in Clients, ClientNext(c)
      PROVE  Strict!Next \/ Stutter
  <2>0. /\ pc[c] \in InSection <=> flock = c
        /\ \A d \in Clients : pc[d] \in InSection => flock = d
        /\ flock # None => flock \in Clients
        /\ TypeOK
    BY DEF IInv, HolderInside, TypeOK
  <2>. USE DEF InSection, TypeOK
  <2>1. ASSUME NEW r \in Requests \cup {List}, Call(c, r) PROVE Stutter
    BY <2>0, <2>1 DEF Call, Goto
  <2>2. CASE LockMutex(c)
    BY <2>0, <2>2 DEF LockMutex, Goto
  <2>3. CASE LockFile(c)
    BY <2>0, <2>3 DEF LockFile, Goto
  <2>4. CASE CheckConditions(c)
    BY <2>0, <2>4 DEF CheckConditions, Goto, Return
  <2>5. CASE SnapshotRoots(c)
    BY <2>0, <2>5 DEF SnapshotRoots, Goto
  <2>6. CASE ReturnApplied(c)
    <3>1. request[c] \in Requests
      BY <2>6 DEF ReturnApplied, IInv, Validated
    <3>. QED BY <2>6, <3>1, ReturnAppliedCommits DEF Strict!Next
  <2>7. CASE ReturnError(c)
    <3>1. rootFiles = before[c]
      <4>1. restoreFaults = 0 /\ pc[c] = "restore" /\ applied[c] = {}
        BY <2>0, <2>7, SMT DEF ReturnError
      <4>2. rootFiles = [n \in Names |-> before[c][n]]
        BY <4>1 DEF IInv, HalfWritten, HalfWrittenBy, Overlay
      <4>. QED BY <2>0, <4>2
    <3>. QED BY <2>0, <2>7, <3>1 DEF ReturnError, Return
  <2>8. CASE ReturnListing(c)
    <3>1. VisibleRoots = rootFiles /\ VisibleRoots' = rootFiles /\ view' = listing[c]
      BY <2>0, <2>8 DEF ReturnListing, Return
    <3>2. \A n \in Names : listing[c][n] = rootFiles[n]
      BY <2>8 DEF ReturnListing, IInv, ListingCurrent
    <3>3. listing[c] = rootFiles
      BY <2>0, <3>2, SMT
    <3>. QED BY <2>8, <3>1, <3>3 DEF ReturnListing, Strict!Next, Strict!ListRoots
  <2>9. ASSUME NEW cid \in Cids, WriteNode(c, cid) PROVE Strict!Next
    <3>1. request[c] \in Requests /\ cid \in request[c].nodes
      BY <2>9 DEF WriteNode, IInv, Validated, NodesFirst
    <3>2. BatchesPut(request[c])
      BY <2>9, <3>1 DEF WriteNode
    <3>3. UNCHANGED <<VisibleRoots, view>>
      BY <2>0, <2>9 DEF WriteNode
    <3>. QED BY <3>1, <3>2, <3>3 DEF Strict!Next, Strict!KeepNodes, Strict!BatchPut
  <2>10. ASSUME NEW n \in Names, WriteRoot(c, n) PROVE Stutter
    BY <2>0, <2>10 DEF WriteRoot
  <2>11. ASSUME NEW n \in Names, RestoreRoot(c, n) PROVE Stutter
    BY <2>0, <2>11 DEF RestoreRoot
  <2>12. ASSUME NEW n \in Names, ListEntry(c, n) PROVE Stutter
    BY <2>12 DEF ListEntry
  <2>13. CASE FailEarly(c)
    BY <2>0, <2>13 DEF FailEarly, Return, ResetLocals
  <2>14. CASE FailRoot(c)
    BY <2>0, <2>14 DEF FailRoot, Goto
  <2>15. ASSUME NEW n \in Names, FailRestore(c, n) PROVE FALSE
    BY <2>0, <2>15, SMT DEF FailRestore
  <2>. QED BY <1>1, <2>1, <2>2, <2>3, <2>4, <2>5, <2>6, <2>7, <2>8, <2>9, <2>10, <2>11,
              <2>12, <2>13, <2>14, <2>15
       DEF ClientNext, Critical, Errors
<1>2. ASSUME NEW h \in Handles, Crash(h) PROVE FALSE
  BY <1>2, SMT DEF Crash, IInv, TypeOK
<1>3. CASE UNCHANGED vars
  BY <1>3 DEF vars
<1>. QED BY <1>1, <1>2, <1>3 DEF Next

\* The file store implements the strict transaction contract as long as no
\* process is killed inside it and no root it restores fails to be written.
THEOREM FileStoreIsStrict ==
    ASSUME MaxRestoreFaults = 0, MaxCrashes = 0
    PROVE  Spec => StrictContract
<1>1. IInv /\ [Next]_vars => [Strict!Next]_<<nodeFiles, VisibleRoots, view>>
  BY StrictStep
<1>. QED BY <1>1, StrictInit, IInvInvariant, PTL
     DEF Spec, StrictContract, Strict!Spec, Strict!strictVars
=============================================================================
