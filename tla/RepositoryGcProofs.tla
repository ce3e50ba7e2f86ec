------------------------- MODULE RepositoryGcProofs --------------------------
(***************************************************************************)
(* Proofs about RepositoryGc, for every set of operations and workers,     *)
(* every grace period and every bound.                                     *)
(***************************************************************************)
EXTENDS RepositoryGc, TLAPS

\* Zenon is tried on every leaf; the leaves that need arithmetic or the extensionality
\* of functions and records cite SMT.
USE Zenon

\* A worker that is not idle holds a cursor.
Busy == \A w \in Workers : task[w] # "idle" => cursor[w] \in Cursors

\* A step of operation o, and one of worker w.
WriterStep(o) ==
    \/ o \in Puts /\ (Upload(o) \/ Admission(o) \/ StoreCommit(o))
    \/ o \in Resets /\ (Check(o) \/ \E c \in Commits : BeginReset(o, c))
    \/ Load(o) \/ TakeTicket(o) \/ Admit(o) \/ Execute(o) \/ Released(o)
CollectorStep(w) == StartGc(w) \/ WorkerStep(w) \/ CrashWorker(w) \/ AbandonGc(w)

\* The cursors that workers hold or may resume.
Held == ({cursor[w] : w \in Workers} \cup {checkpoint[e] : e \in Epochs}) \ {None}

\* A new cursor, and a page of one.
LEMMA CursorTypes ==
    ASSUME NEW k \in Cursors
    PROVE  /\ [k EXCEPT !.drained = TRUE] \in Cursors
           /\ \A cs \in SUBSET Commits, ph \in Phases :
                 [k EXCEPT !.commits = cs, !.phase = ph] \in Cursors
           /\ \A xs \in SUBSET [path : Paths, version : Nat], ph \in Phases :
                 [k EXCEPT !.candidates = xs, !.phase = ph] \in Cursors
           /\ \A xs \in SUBSET [path : Paths, version : Nat] :
                 [k EXCEPT !.candidates = xs] \in Cursors
           /\ \A ph \in Phases : [k EXCEPT !.phase = ph] \in Cursors
BY DEF Cursors

\* A reset that began names a commit; what was sent has begun.
Placed ==
    /\ \A r \in Resets : pc[r] # "idle" => goal[r] \in Commits
    /\ \A o \in inflight : pc[o] # "idle"

Types == TypeOK /\ Busy /\ Placed

LEMMA PutTypes ==
    ASSUME Types, NEW p \in Paths, PutImmutable(p)
    PROVE  objects' \in [Paths -> Objects \cup {None}] /\ versions' \in [Paths -> Nat]
BY GcBoundsAssumption, SMT DEF Types, TypeOK, PutImmutable, Objects

LEMMA PageTypes ==
    ASSUME Types, NEW w \in Workers, NEW k \in Cursors, Page(w, k)
    PROVE  /\ cursor' \in [Workers -> Cursors \cup {None}]
           /\ checkpoint' \in [Epochs -> Cursors \cup {None}]
           /\ active' = active /\ task' = task /\ seen' = seen
           /\ Busy'
<1>1. k.epoch \in Epochs
  BY DEF Cursors
<1> QED
  BY <1>1 DEF Types, TypeOK, Page, Busy

\* Next is a step of an operation, of a worker or of the clock.
LEMMA Steps ==
    ASSUME Next
    PROVE  Tick \/ (\E o \in Ops : WriterStep(o)) \/ \E w \in Workers : CollectorStep(w)
BY DEF Next, WriterStep, CollectorStep, Ops

LEMMA TypesInit == Init => Types
BY GcBoundsAssumption, SMT
DEF Init, Types, TypeOK, Busy, Placed, Ops, Paths, Commits, Objects, RefValues, Labels

\* The steps of the writers keep the types.
LEMMA WriterTypes ==
    ASSUME Types, NEW o \in Ops, WriterStep(o)
    PROVE  Types'
<1> USE DEF Types
<1>a. Placed'
  <2>1. CASE \E c \in Commits : o \in Resets /\ BeginReset(o, c)
    <3>1. PICK c \in Commits : o \in Resets /\ BeginReset(o, c)
      BY <2>1
    <3> QED
      BY <3>1 DEF BeginReset, Goto, Placed, TypeOK, Ops
  <2>2. CASE Execute(o)
    BY <2>2 DEF Execute, Placed
  <2>3. CASE Admit(o)
    <3>1. /\ pc[o] = "admit" /\ pc'[o] # "idle" /\ goal' = goal
          /\ \A q \in Ops \ {o} : pc'[q] = pc[q] /\ (q \in inflight' => q \in inflight)
      BY <2>3 DEF Admit, Over, Goto, TypeOK
    <3>2. inflight' \subseteq Ops
      BY <2>3 DEF Admit, TypeOK
    <3> QED
      BY <3>1, <3>2 DEF Placed, TypeOK, Ops
  <2>4. CASE \/ o \in Puts /\ (Upload(o) \/ Admission(o) \/ StoreCommit(o))
             \/ o \in Resets /\ Check(o)
             \/ Load(o) \/ TakeTicket(o) \/ Released(o)
    <3>1. UNCHANGED <<goal, inflight>> /\ \A q \in Ops \ {o} : pc'[q] = pc[q]
      BY <2>4
      DEF Upload, Admission, StoreCommit, Check, Load, TakeTicket, Released, Over, Goto, TypeOK
    <3>2. pc'[o] # "idle" /\ (o \in Resets => pc[o] # "idle")
      BY <2>4, OpsGcAssumption
      DEF Upload, Admission, StoreCommit, Check, Load, TakeTicket, Released, Over, Goto, TypeOK
    <3> QED
      BY <3>1, <3>2 DEF Placed, TypeOK, Ops
  <2> QED
    BY <2>1, <2>2, <2>3, <2>4 DEF WriterStep
<1> SUFFICES TypeOK' /\ Busy'
  BY <1>a
<1>1. CASE o \in Puts /\ Upload(o)
  <2>1. PayloadOf[o] \in Paths
    BY <1>1 DEF Paths, Payloads
  <2>2. objects' \in [Paths -> Objects \cup {None}] /\ versions' \in [Paths -> Nat]
    BY <1>1, <2>1, PutTypes DEF Upload
  <2> QED
    BY <1>1, <2>1, <2>2, SMT DEF Upload, Goto, TypeOK, Busy, workers, Labels
<1>2. CASE o \in Puts /\ StoreCommit(o)
  <2>1. objects' \in [Paths -> Objects \cup {None}] /\ versions' \in [Paths -> Nat]
    BY <1>2, PutTypes DEF StoreCommit, Paths, Commits
  <2> QED
    BY <1>2, <2>1 DEF StoreCommit, Goto, TypeOK, Busy, workers, Labels
<1>3. CASE o \in Resets /\ \E c \in Commits : BeginReset(o, c)
  <2>1. PICK c \in Commits : BeginReset(o, c)
    BY <1>3
  <2> QED
    BY <1>3, <2>1, SMT DEF BeginReset, Goto, TypeOK, Busy, store, workers, Labels
<1>4. CASE Admission(o) \/ Check(o)
  BY <1>4, SMT DEF Admission, Check, Over, Goto, TypeOK, Busy, store, workers, Labels
<1>5. CASE Load(o)
  BY <1>5 DEF Load, Goto, TypeOK, Busy, store, workers, Labels
<1>6. CASE TakeTicket(o)
  BY <1>6, GcBoundsAssumption, SMT DEF TakeTicket, Goto, TypeOK, Busy, store, workers, Labels
<1>7. CASE Admit(o)
  BY <1>7, SMT DEF Admit, Over, Release, Goto, TypeOK, Busy, store, workers, Labels
<1>8. CASE Execute(o)
  <2>1. o \notin Puts => goal[o] \in Commits
    BY <1>8 DEF Execute, Placed, Ops
  <2>2. ref' \in RefValues
    BY <1>8, <2>1, SMT DEF Execute, TypeOK, RefValues, Commits
  <2> QED
    BY <1>8, <2>2 DEF Execute, TypeOK, Busy, workers
<1>9. CASE Released(o)
  BY <1>9, GcBoundsAssumption, SMT
  DEF Released, Over, Release, Goto, TypeOK, Busy, store, workers, Labels
<1> QED
  BY <1>1, <1>2, <1>3, <1>4, <1>5, <1>6, <1>7, <1>8, <1>9 DEF WriterStep

\* The cursors that a step leaves behind.
LEMMA RunsTypes ==
    ASSUME Types, NEW w \in Workers, NEW phase, Runs(w, phase)
    PROVE  cursor[w] \in Cursors
BY DEF Types, Busy, Runs

\* The steps of the workers keep the types.
LEMMA WorkerTypes ==
    ASSUME Types, NEW w \in Workers, CollectorStep(w)
    PROVE  Types'
<1> USE DEF Types
<1>a. UNCHANGED <<pc, goal, inflight>>
  BY DEF CollectorStep, WorkerStep, StartGc, CloseAdmission, Save, Refused, Drain, Discover, Mark,
         Scan, Sweep, Cleanup, Restore, Resume, AbandonIncomplete, AbandonGc, GivesUp,
         CrashWorker, writers
<1> SUFFICES TypeOK' /\ Busy'
  BY <1>a DEF Placed
<1>1. CASE StartGc(w)
  <2>1. NewCursor(epochs + 1) \in Cursors
    BY <1>1, GcBoundsAssumption, SMT DEF StartGc, NewCursor, Cursors, Epochs, Phases, TypeOK
  <2>2. epochs + 1 \in Epochs /\ epochs' \in 0 .. MaxEpochs
    BY <1>1, GcBoundsAssumption, SMT DEF StartGc, Epochs, TypeOK
  <2>3. /\ cursor' = [cursor EXCEPT ![w] = NewCursor(epochs + 1)]
        /\ task' = [task EXCEPT ![w] = "open"]
    BY <1>1 DEF StartGc, Do
  <2>4. Busy'
    BY <2>1, <2>3 DEF TypeOK, Busy
  <2> QED
    BY <1>1, <2>1, <2>2, <2>3, <2>4 DEF StartGc, TypeOK, store, writers
<1>2. CASE CloseAdmission(w)
  <2>1. cursor[w] \in Cursors /\ cursor[w].epoch \in Epochs
    BY <1>2 DEF CloseAdmission, Busy, Cursors
  <2> QED
    BY <1>2, <2>1, GcBoundsAssumption, SMT
    DEF CloseAdmission, SetCoordinator, Do, TypeOK, Busy, store, writers
<1>3. CASE Save(w)
  BY <1>3 DEF Save, Do, TypeOK, Busy, store, writers
<1>4. CASE Drain(w)
  <2>1. [cursor[w] EXCEPT !.drained = TRUE] \in Cursors
    BY <1>4, RunsTypes, CursorTypes DEF Drain
  <2> QED
    BY <1>4, <2>1, PageTypes DEF Drain, TypeOK, store
<1>5. CASE Discover(w)
  <2>1. {ref.target, ref.previous} \ {None} \in SUBSET Commits /\ "mark" \in Phases
    BY DEF TypeOK, RefValues, Phases
  <2>2. [cursor[w] EXCEPT !.commits = {ref.target, ref.previous} \ {None},
                          !.phase = "mark"] \in Cursors
    BY <1>5, <2>1, RunsTypes, CursorTypes DEF Discover
  <2> QED
    BY <1>5, <2>2, PageTypes DEF Discover, TypeOK, store, writers
<1>6. CASE Mark(w)
  <2> DEFINE closure == UNION {Ancestors(c) : c \in cursor[w].commits}
  <2>1. closure \in SUBSET Commits /\ "scan" \in Phases
    BY DEF Ancestors, Phases
  <2>2. Runs(w, "mark") /\ Page(w, [cursor[w] EXCEPT !.commits = closure, !.phase = "scan"])
    BY <1>6 DEF Mark
  <2> HIDE DEF closure
  <2>3. [cursor[w] EXCEPT !.commits = closure, !.phase = "scan"] \in Cursors
    BY <2>1, <2>2, RunsTypes, CursorTypes
  <2> QED
    BY <1>6, <2>2, <2>3, PageTypes DEF Mark, TypeOK, store, writers
<1>7. CASE Scan(w)
  <2> DEFINE old == {q \in Paths : /\ objects[q] # None
                                   /\ objects[q].modified <= cursor[w].cutoff
                                   /\ ~Marked(cursor[w], q, objects[q].version)}
             found == {[path |-> p, version |-> objects[p].version] : p \in old}
  <2>1. found \in SUBSET [path : Paths, version : Nat] /\ "sweep" \in Phases
    BY SMT DEF TypeOK, Objects, Phases
  <2>2. Runs(w, "scan") /\ Page(w, [cursor[w] EXCEPT !.candidates = found, !.phase = "sweep"])
    BY <1>7 DEF Scan
  <2> HIDE DEF found
  <2>3. [cursor[w] EXCEPT !.candidates = found, !.phase = "sweep"] \in Cursors
    BY <2>1, <2>2, RunsTypes, CursorTypes
  <2> QED
    BY <1>7, <2>2, <2>3, PageTypes DEF Scan, TypeOK, store, writers
<1>8. CASE Sweep(w)
  <2>1. cursor[w] \in Cursors
    BY <1>8, RunsTypes DEF Sweep
  <2>2. CASE \E d \in cursor[w].candidates : Delete(w, d)
    <3>1. PICK d \in cursor[w].candidates : Delete(w, d)
      BY <2>2
    <3> DEFINE k == [cursor[w] EXCEPT !.candidates = @ \ {d}]
    <3>2. k \in Cursors
      BY <2>1 DEF Cursors
    <3>3. cursor' = [cursor EXCEPT ![w] = k]
      BY <3>1 DEF Delete
    <3> HIDE DEF k
    <3>4. objects' \in [Paths -> Objects \cup {None}]
      BY <3>1 DEF Delete, TypeOK
    <3>5. task' = [task EXCEPT ![w] = "save"] /\ UNCHANGED <<active, seen, checkpoint>>
      BY <3>1 DEF Delete, Do
    <3>6. UNCHANGED <<versions, ref, writers, coordinator, clock, epochs, faults>>
      BY <1>8 DEF Sweep
    <3>7. Busy'
      BY <3>2, <3>3, <3>5 DEF TypeOK, Busy
    <3> QED
      BY <3>2, <3>3, <3>4, <3>5, <3>6, <3>7 DEF TypeOK, writers
  <2>3. CASE Page(w, [cursor[w] EXCEPT !.phase = "cleanup"]) /\ UNCHANGED objects
    <3>1. [cursor[w] EXCEPT !.phase = "cleanup"] \in Cursors
      BY <2>1, CursorTypes DEF Phases
    <3> QED
      BY <1>8, <2>3, <3>1, PageTypes DEF Sweep, TypeOK, writers
  <2> QED
    BY <1>8, <2>2, <2>3 DEF Sweep
<1>9. CASE Cleanup(w)
  <2>1. [cursor[w] EXCEPT !.phase = "complete"] \in Cursors
    BY <1>9, RunsTypes, CursorTypes DEF Cleanup, Phases
  <2> QED
    BY <1>9, <2>1, SMT DEF Cleanup, SetCoordinator, Stops, Do, TypeOK, Busy, store, writers
<1>10. CASE Restore(w)
  BY <1>10 DEF Restore, TypeOK, Busy, store, writers
<1>11. CASE Resume(w)
  BY <1>11 DEF Resume, Do, TypeOK, Busy, store, writers
<1>12. CASE AbandonGc(w) \/ AbandonIncomplete(w)
  BY <1>12, GcBoundsAssumption, SMT
  DEF AbandonGc, AbandonIncomplete, GivesUp, SetCoordinator, TypeOK, Busy, store, writers
<1>13. CASE CrashWorker(w)
  BY <1>13, GcBoundsAssumption, SMT DEF CrashWorker, Do, TypeOK, Busy, store, writers
<1>14. CASE Refused(w)
  BY <1>14 DEF Refused, Stops, Do, TypeOK, Busy, store, writers
<1> QED
  BY <1>1, <1>2, <1>3, <1>4, <1>5, <1>6, <1>7, <1>8, <1>9, <1>10, <1>11, <1>12, <1>13, <1>14
  DEF CollectorStep, WorkerStep

LEMMA TypesStep == Types /\ [Next]_vars => Types'
<1> SUFFICES ASSUME Types, [Next]_vars PROVE Types'
  OBVIOUS
<1>1. CASE Tick
  BY <1>1, GcBoundsAssumption, SMT DEF Tick, Types, TypeOK, Busy, Placed, store, writers, workers
<1>2. CASE UNCHANGED vars
  BY <1>2 DEF vars, Types, TypeOK, Busy, Placed, store, writers, workers
<1> QED
  BY <1>1, <1>2, WriterTypes, WorkerTypes, Steps

-----------------------------------------------------------------------------
(* Tickets *)

\* A worker about to close admission is alone with its epoch.
Alone(w) ==
    LET e == cursor[w].epoch
    IN  /\ ~cursor[w].drained
        /\ coordinator.epoch # e /\ checkpoint[e] = None
        /\ \A v \in Workers \ {w} : cursor[v] # None => cursor[v].epoch # e

\* Epochs are numbered in order, and none is in force twice.
EpochInv ==
    /\ \A k \in Held : k.epoch <= epochs
    /\ \A e \in Epochs : checkpoint[e] # None => checkpoint[e].epoch = e
    /\ coordinator.epoch # None => coordinator.epoch <= epochs
    /\ \A w \in Workers : task[w] = "open" => Alone(w)

\* A write that was admitted holds its ticket until it expires; once the tickets
\* of the epoch in force are drained, the admitted writes are expired.
TicketInv ==
    /\ \A o \in Ops : pc[o] \in {"admit", "sent"} => o \in tickets \/ expires[o] <= clock
    /\ \A k \in Held : k.drained /\ k.epoch = coordinator.epoch =>
           \A o \in Ops : pc[o] = "sent" => expires[o] <= clock

\* A step of worker w touches its own cursor, and may save it.
Moves(w) ==
    /\ \A v \in Workers \ {w} : cursor'[v] = cursor[v] /\ task'[v] = task[v]
    /\ \/ checkpoint' = checkpoint
       \/ /\ cursor'[w] \in Cursors
          /\ checkpoint' = [checkpoint EXCEPT ![cursor'[w].epoch] = cursor'[w]]

LEMMA HeldAfter ==
    ASSUME Types, NEW w \in Workers, Moves(w)
    PROVE  \A k \in Held' : k \in Held \/ (k = cursor'[w] /\ k # None)
<1> SUFFICES ASSUME NEW k \in Held' PROVE k \in Held \/ (k = cursor'[w] /\ k # None)
  OBVIOUS
<1>1. k # None
  BY DEF Held
<1>2. ASSUME NEW v \in Workers, k = cursor'[v] PROVE k \in Held \/ k = cursor'[w]
  BY <1>1, <1>2 DEF Held, Moves
<1>3. ASSUME NEW e \in Epochs, k = checkpoint'[e] PROVE k \in Held \/ k = cursor'[w]
  BY <1>1, <1>3 DEF Held, Moves, Types, TypeOK
<1> QED
  BY <1>1, <1>2, <1>3 DEF Held

\* Its cursor, or the one in force, is what a worker goes on with.
LEMMA WorkerEpochs ==
    ASSUME Types, EpochInv, NEW w \in Workers, Moves(w), task'[w] # "open",
           \/ cursor'[w] = None
           \/ /\ cursor'[w] \in Cursors
              /\ \/ cursor[w] # None /\ cursor'[w].epoch = cursor[w].epoch
                 \/ cursor'[w].epoch = coordinator.epoch,
           \/ coordinator'.epoch \in {coordinator.epoch, None}
           \/ cursor[w] # None /\ coordinator'.epoch = cursor[w].epoch,
           epochs' = epochs
    PROVE  EpochInv'
<1>1. cursor[w] # None => cursor[w] \in Held /\ cursor[w] \in Cursors /\ cursor[w].epoch \in Epochs
  BY DEF Held, Types, TypeOK, Cursors
<1>2. coordinator.epoch \in Epochs \cup {None}
  BY DEF Types, TypeOK
<1>3. cursor'[w] # None => cursor'[w].epoch \in Epochs /\ cursor'[w].epoch <= epochs
  BY <1>1, <1>2, NoneGcAssumption DEF EpochInv, Cursors
<1>4. \A k \in Held' : k.epoch <= epochs'
  BY <1>3, HeldAfter DEF EpochInv
<1>5. \A e \in Epochs : checkpoint'[e] # None => checkpoint'[e].epoch = e
  BY <1>3 DEF EpochInv, Moves, Types, TypeOK
<1>6. coordinator'.epoch # None => coordinator'.epoch <= epochs'
  BY <1>1, <1>2 DEF EpochInv
<1>7. ASSUME NEW v \in Workers, task'[v] = "open" PROVE Alone(v)'
  <2>1. v # w /\ task[v] = "open" /\ cursor'[v] = cursor[v] /\ cursor[v] \in Cursors
    BY <1>7 DEF Moves, Types, Busy
  <2>2. Alone(v) /\ cursor[v].epoch \in Epochs
    BY <2>1 DEF EpochInv, Cursors
  <2>3. cursor[w] # None => cursor[w].epoch # cursor[v].epoch
    BY <2>1, <2>2 DEF Alone
  <2>4. cursor'[w] # None => cursor'[w].epoch # cursor[v].epoch
    BY <2>2, <2>3 DEF Alone
  <2>5. coordinator'.epoch # cursor[v].epoch
    BY <1>1, <2>2, <2>3, NoneGcAssumption DEF Alone
  <2>6. checkpoint'[cursor[v].epoch] = None
    BY <1>3, <2>2, <2>4, NoneGcAssumption DEF Alone, Moves, Types, TypeOK
  <2>7. \A u \in Workers \ {v} : cursor'[u] # None => cursor'[u].epoch # cursor[v].epoch
    BY <2>1, <2>2, <2>4 DEF Alone, Moves
  <2> QED
    BY <2>1, <2>2, <2>5, <2>6, <2>7 DEF Alone
<1> QED
  BY <1>4, <1>5, <1>6, <1>7 DEF EpochInv

\* No cursor but one that comes from a drained one is drained.
LEMMA WorkerTickets ==
    ASSUME Types, TicketInv,
           \A k \in Held' : \E j \in Held : j.epoch = k.epoch /\ (k.drained => j.drained),
           coordinator'.epoch \in {coordinator.epoch, None},
           UNCHANGED <<pc, tickets, expires, clock>>
    PROVE  TicketInv'
<1>1. \A o \in Ops : pc'[o] \in {"admit", "sent"} => o \in tickets' \/ expires'[o] <= clock'
  BY DEF TicketInv
<1>2. ASSUME NEW k \in Held', k.drained, k.epoch = coordinator'.epoch,
             NEW o \in Ops, pc'[o] = "sent"
      PROVE  expires'[o] <= clock'
  <2>1. PICK j \in Held : j.epoch = k.epoch /\ j.drained
    BY <1>2
  <2>2. j.epoch \in Epochs
    BY SMT DEF Held, Types, TypeOK, Cursors
  <2>3. j.epoch = coordinator.epoch
    BY <1>2, <2>1, <2>2, NoneGcAssumption
  <2> QED
    BY <1>2, <2>1, <2>3 DEF TicketInv
<1> QED
  BY <1>1, <1>2 DEF TicketInv

\* A page of worker w.
LEMMA PageMoves ==
    ASSUME Types, NEW w \in Workers, NEW phase, Runs(w, phase), NEW k \in Cursors,
           k.epoch = cursor[w].epoch, Page(w, k)
    PROVE  /\ Moves(w) /\ cursor'[w] = k /\ task'[w] = "run"
           /\ cursor[w] \in Held /\ cursor[w] \in Cursors
<1>1. cursor' = [cursor EXCEPT ![w] = k] /\ task' = task /\ task[w] = "run"
      /\ checkpoint' = [checkpoint EXCEPT ![k.epoch] = k]
  BY DEF Page, Runs
<1>2. cursor[w] \in Cursors
  BY RunsTypes
<1>3. cursor'[w] = k
  BY <1>1 DEF Types, TypeOK
<1> QED
  BY <1>1, <1>2, <1>3, NoneGcAssumption DEF Moves, Held, Types, TypeOK

\* The pages that do not drain.
LEMMA PageTickets ==
    ASSUME Types, EpochInv, TicketInv, NEW w \in Workers, NEW phase, Runs(w, phase),
           NEW k \in Cursors, k.epoch = cursor[w].epoch, k.drained = cursor[w].drained,
           Page(w, k), UNCHANGED <<coordinator, epochs, pc, tickets, expires, clock>>
    PROVE  EpochInv' /\ TicketInv'
<1>1. /\ Moves(w) /\ cursor'[w] = k /\ task'[w] = "run"
      /\ cursor[w] \in Held /\ cursor[w] \in Cursors
  BY PageMoves
<1>2. EpochInv'
  BY <1>1, WorkerEpochs, NoneGcAssumption
<1>3. \A j \in Held' : \E i \in Held : i.epoch = j.epoch /\ (j.drained => i.drained)
  BY <1>1, HeldAfter
<1> QED
  BY <1>2, <1>3, WorkerTickets

\* What start_gc and the end of an epoch do to the tickets.
LEMMA GcTickets ==
    ASSUME Types, EpochInv, TicketInv, NEW w \in Workers,
           CollectorStep(w)
    PROVE  EpochInv' /\ TicketInv'
<1>1. /\ cursor \in [Workers -> Cursors \cup {None}]
      /\ task \in [Workers -> {"idle", "open", "save", "run"}]
      /\ checkpoint \in [Epochs -> Cursors \cup {None}]
      /\ cursor[w] # None => cursor[w] \in Held
      /\ \A k \in Held : k \in Cursors /\ k.epoch \in Epochs /\ k.epoch <= epochs
  BY SMT DEF Types, TypeOK, Held, EpochInv, Cursors
<1>2. ASSUME Moves(w), task'[w] # "open", cursor'[w] \in {None, cursor[w]},
             coordinator'.epoch \in {coordinator.epoch, None}, epochs' = epochs,
             UNCHANGED <<pc, tickets, expires, clock>>
      PROVE  EpochInv' /\ TicketInv'
  <2>1. EpochInv'
    BY <1>1, <1>2, WorkerEpochs
  <2>2. \A j \in Held' : \E i \in Held : i.epoch = j.epoch /\ (j.drained => i.drained)
    BY <1>1, <1>2, HeldAfter
  <2> QED
    BY <1>2, <2>1, <2>2, WorkerTickets
<1>3. CASE StartGc(w)
  <2> DEFINE k == NewCursor(epochs + 1)
  <2>1. k \in Cursors /\ k.epoch = epochs + 1 /\ k.drained = FALSE
    BY <1>3, GcBoundsAssumption, SMT DEF StartGc, NewCursor, Cursors, Epochs, Phases, Types, TypeOK
  <2>2. /\ cursor' = [cursor EXCEPT ![w] = k] /\ task' = [task EXCEPT ![w] = "open"]
        /\ checkpoint' = checkpoint /\ coordinator' = coordinator /\ epochs' = epochs + 1
        /\ coordinator.epoch = None
        /\ UNCHANGED <<pc, tickets, expires, clock>>
    BY <1>3 DEF StartGc, Do, writers
  <2> HIDE DEF k
  <2>3. Moves(w) /\ cursor'[w] = k /\ epochs \in Nat
    BY <1>1, <2>2, SMT DEF Moves, Types, TypeOK
  <2>4. \A j \in Held' : j \in Held \/ j = k
    BY <2>3, HeldAfter
  <2>5. \A j \in Held : j.epoch # epochs + 1
    BY <1>1, <2>3, SMT DEF Epochs
  <2>6. checkpoint[epochs + 1] = None
    <3>1. epochs + 1 \in Epochs
      BY <2>1 DEF Cursors
    <3> QED
      BY <2>5, <3>1 DEF Held, EpochInv
  <2>7. \A v \in Workers \ {w} : task[v] = "open" => cursor[v] \in Cursors /\ cursor[v] \in Held
    BY <1>1, NoneGcAssumption DEF Types, Busy, Held
  <2>8. \A j \in Held' : j.epoch <= epochs'
    BY <1>1, <2>1, <2>2, <2>3, <2>4, SMT DEF Epochs
  <2>9. Alone(w)'
    <3>1. \A v \in Workers \ {w} : cursor'[v] # None => cursor'[v].epoch # epochs + 1
      BY <1>1, <2>2, <2>5 DEF Held
    <3> QED
      BY <2>1, <2>2, <2>3, <2>6, <3>1, NoneGcAssumption DEF Alone, Cursors
  <2>10. ASSUME NEW v \in Workers \ {w}, task[v] = "open" PROVE Alone(v)'
    <3>1. Alone(v) /\ cursor'[v] = cursor[v] /\ cursor[v].epoch # epochs + 1
      BY <1>1, <2>2, <2>5, <2>7, <2>10 DEF EpochInv
    <3> QED
      BY <1>1, <2>1, <2>2, <2>3, <3>1 DEF Alone
  <2>11. EpochInv'
    BY <1>1, <2>2, <2>8, <2>9, <2>10 DEF EpochInv
  <2>12. TicketInv'
    BY <2>1, <2>2, <2>4, NoneGcAssumption DEF TicketInv, Cursors
  <2> QED
    BY <2>11, <2>12
<1>4. CASE CloseAdmission(w)
  <2>1. /\ cursor[w] \in Cursors /\ Alone(w) /\ task[w] = "open"
        /\ checkpoint' = checkpoint /\ epochs' = epochs /\ UNCHANGED <<pc, tickets, expires, clock>>
        /\ coordinator'.epoch \in {coordinator.epoch, cursor[w].epoch}
        /\ \/ task' = [task EXCEPT ![w] = "save"] /\ cursor' = cursor
           \/ /\ task' = [task EXCEPT ![w] = "idle"]
              /\ cursor' = [cursor EXCEPT ![w] = None]
    BY <1>4, SMT DEF CloseAdmission, SetCoordinator, Do, Types, Busy, EpochInv, writers
  <2>2. Moves(w) /\ task'[w] # "open" /\ cursor'[w] \in {None, cursor[w]}
    BY <1>1, <2>1 DEF Moves
  <2>3. EpochInv'
    BY <1>1, <2>1, <2>2, WorkerEpochs, NoneGcAssumption
  <2>4. ASSUME NEW k \in Held', k.drained, k.epoch = cursor[w].epoch PROVE FALSE
    <3>1. k \in Held
      BY <1>1, <2>2, HeldAfter
    <3>2. \A v \in Workers : cursor[v] # k
      BY <1>1, <2>1, <2>4, <3>1 DEF Alone, Held
    <3>3. \A e \in Epochs : checkpoint[e] # k
      BY <1>1, <2>1, <2>4, <3>1, SMT DEF Alone, EpochInv, Held
    <3> QED
      BY <3>1, <3>2, <3>3 DEF Held
  <2>5. TicketInv'
    <3>1. \A k \in Held' : k \in Held
      BY <1>1, <2>2, HeldAfter
    <3> QED
      BY <2>1, <2>4, <3>1 DEF TicketInv
  <2> QED
    BY <2>3, <2>5
<1>5. CASE Save(w)
  <2>1. /\ cursor[w] \in Cursors /\ cursor' = cursor
        /\ checkpoint' = [checkpoint EXCEPT ![cursor[w].epoch] = cursor[w]]
        /\ task' \in {[task EXCEPT ![w] = "idle"], [task EXCEPT ![w] = "run"]}
        /\ UNCHANGED <<coordinator, epochs, pc, tickets, expires, clock>>
    BY <1>5 DEF Save, Do, Types, Busy, writers
  <2> QED
    BY <1>1, <1>2, <2>1 DEF Moves
<1>6. CASE CrashWorker(w)
  <2>1. /\ cursor' = [cursor EXCEPT ![w] = None] /\ task' = [task EXCEPT ![w] = "idle"]
        /\ UNCHANGED <<checkpoint, coordinator, epochs, pc, tickets, expires, clock>>
    BY <1>6 DEF CrashWorker, Do, writers
  <2> QED
    BY <1>1, <1>2, <2>1 DEF Moves
<1>7. CASE Restore(w) \/ Refused(w)
  <2>1. /\ \A v \in Workers \ {w} : cursor'[v] = cursor[v] /\ task'[v] = task[v]
        /\ cursor'[w] \in {None, cursor[w]} /\ task'[w] # "open"
        /\ UNCHANGED <<coordinator, checkpoint, epochs, pc, tickets, expires, clock>>
    BY <1>1, <1>7 DEF Restore, Refused, Stops, Do, writers
  <2> QED
    BY <1>1, <1>2, <2>1 DEF Moves
<1>15. CASE AbandonGc(w) \/ AbandonIncomplete(w)
  <2>1. /\ coordinator'.epoch = None
        /\ UNCHANGED <<cursor, task, checkpoint, epochs, pc, tickets, expires, clock>>
    <3>1. GivesUp(w)
      BY <1>15 DEF AbandonGc, AbandonIncomplete
    <3> QED
      BY <3>1 DEF GivesUp, SetCoordinator, writers
  <2>2. Held' = Held /\ \A k \in Held : k.epoch # None
    <3>1. Held' = Held
      BY <2>1 DEF Held
    <3>2. \A k \in Held : k.epoch # None
      BY <1>1, NoneGcAssumption
    <3> QED
      BY <3>1, <3>2
  <2>3. ASSUME NEW v \in Workers, task[v] = "open" PROVE Alone(v)'
    <3>1. Alone(v) /\ cursor[v] \in Cursors /\ cursor[v].epoch # None
      BY <2>3, NoneGcAssumption DEF EpochInv, Types, Busy, Cursors
    <3> QED
      BY <2>1, <3>1 DEF Alone
  <2>4. EpochInv'
    BY <2>1, <2>2, <2>3 DEF EpochInv
  <2>5. TicketInv'
    BY <2>1, <2>2 DEF TicketInv
  <2> QED
    BY <2>4, <2>5
<1>8. CASE Drain(w)
  <2> DEFINE k == [cursor[w] EXCEPT !.drained = TRUE]
  <2>1. cursor[w] \in Cursors
    BY <1>8, RunsTypes DEF Drain
  <2>2. k \in Cursors /\ k.epoch = cursor[w].epoch
    BY <2>1 DEF Cursors
  <2>3. /\ Runs(w, "discover") /\ Page(w, k) /\ tickets' = {}
        /\ \A o \in tickets : expires[o] <= clock
        /\ UNCHANGED <<coordinator, epochs, pc, expires, clock>>
    BY <1>8 DEF Drain
  <2> HIDE DEF k
  <2>4. /\ Moves(w) /\ cursor'[w] = k /\ task'[w] = "run" /\ cursor[w] # None
    BY <2>1, <2>2, <2>3, PageMoves, NoneGcAssumption
  <2>5. EpochInv'
    BY <2>2, <2>3, <2>4, WorkerEpochs
  <2>6. \A o \in Ops : pc[o] \in {"admit", "sent"} => expires[o] <= clock
    BY <2>3 DEF TicketInv
  <2> QED
    BY <2>3, <2>5, <2>6 DEF TicketInv
<1>9. CASE Discover(w)
  <2> DEFINE k == [cursor[w] EXCEPT !.commits = {ref.target, ref.previous} \ {None},
                                    !.phase = "mark"]
  <2>1. cursor[w] \in Cursors
    BY <1>9, RunsTypes DEF Discover
  <2>2. k \in Cursors /\ k.epoch = cursor[w].epoch /\ k.drained = cursor[w].drained
    BY <2>1 DEF Cursors, Phases, Types, TypeOK, RefValues
  <2>3. /\ Runs(w, "discover") /\ Page(w, k)
        /\ UNCHANGED <<coordinator, epochs, pc, tickets, expires, clock>>
    BY <1>9 DEF Discover, writers
  <2> HIDE DEF k
  <2> QED
    BY <2>2, <2>3, PageTickets
<1>10. CASE Mark(w)
  <2> DEFINE closure == UNION {Ancestors(c) : c \in cursor[w].commits}
             k == [cursor[w] EXCEPT !.commits = closure, !.phase = "scan"]
  <2>1. cursor[w] \in Cursors /\ closure \in SUBSET Commits
    BY <1>10, RunsTypes DEF Mark, Ancestors
  <2>2. /\ Runs(w, "mark") /\ Page(w, k)
        /\ UNCHANGED <<coordinator, epochs, pc, tickets, expires, clock>>
    BY <1>10 DEF Mark, writers
  <2> HIDE DEF closure
  <2>3. k \in Cursors /\ k.epoch = cursor[w].epoch /\ k.drained = cursor[w].drained
    BY <2>1 DEF Cursors, Phases
  <2> HIDE DEF k
  <2> QED
    BY <2>2, <2>3, PageTickets
<1>11. CASE Scan(w)
  <2> DEFINE old == {q \in Paths : /\ objects[q] # None
                                   /\ objects[q].modified <= cursor[w].cutoff
                                   /\ ~Marked(cursor[w], q, objects[q].version)}
             found == {[path |-> p, version |-> objects[p].version] : p \in old}
             k == [cursor[w] EXCEPT !.candidates = found, !.phase = "sweep"]
  <2>1. cursor[w] \in Cursors /\ found \in SUBSET [path : Paths, version : Nat]
    BY <1>11, RunsTypes, SMT DEF Scan, Types, TypeOK, Objects
  <2>2. /\ Runs(w, "scan") /\ Page(w, k)
        /\ UNCHANGED <<coordinator, epochs, pc, tickets, expires, clock>>
    BY <1>11 DEF Scan, writers
  <2> HIDE DEF found
  <2>3. k \in Cursors /\ k.epoch = cursor[w].epoch /\ k.drained = cursor[w].drained
    BY <2>1 DEF Cursors, Phases
  <2> HIDE DEF k
  <2> QED
    BY <2>2, <2>3, PageTickets
<1>12. CASE Sweep(w)
  <2>1. cursor[w] \in Cursors /\ Runs(w, "sweep")
        /\ UNCHANGED <<coordinator, epochs, pc, tickets, expires, clock>>
    BY <1>12, RunsTypes DEF Sweep, writers
  <2>2. ASSUME NEW d \in cursor[w].candidates, Delete(w, d) PROVE EpochInv' /\ TicketInv'
    <3> DEFINE k == [cursor[w] EXCEPT !.candidates = @ \ {d}]
    <3>1. k \in Cursors /\ k.epoch = cursor[w].epoch /\ k.drained = cursor[w].drained
      BY <2>1 DEF Cursors
    <3>2. cursor' = [cursor EXCEPT ![w] = k]
      BY <2>2 DEF Delete
    <3>3. task' = [task EXCEPT ![w] = "save"] /\ checkpoint' = checkpoint
      BY <2>2 DEF Delete, Do
    <3> HIDE DEF k
    <3>4. Moves(w) /\ cursor'[w] = k /\ task'[w] # "open" /\ cursor[w] # None
      BY <1>1, <2>1, <3>2, <3>3, NoneGcAssumption DEF Moves
    <3>5. EpochInv'
      BY <2>1, <3>1, <3>4, WorkerEpochs
    <3>6. \A j \in Held' : \E i \in Held : i.epoch = j.epoch /\ (j.drained => i.drained)
      BY <1>1, <3>1, <3>4, HeldAfter
    <3> QED
      BY <2>1, <3>5, <3>6, WorkerTickets
  <2>3. ASSUME Page(w, [cursor[w] EXCEPT !.phase = "cleanup"]) PROVE EpochInv' /\ TicketInv'
    <3> DEFINE k == [cursor[w] EXCEPT !.phase = "cleanup"]
    <3>1. k \in Cursors /\ k.epoch = cursor[w].epoch /\ k.drained = cursor[w].drained
      BY <2>1 DEF Cursors, Phases
    <3>2. Page(w, k)
      BY <2>3
    <3> HIDE DEF k
    <3> QED
      BY <2>1, <3>1, <3>2, PageTickets
  <2> QED
    BY <1>12, <2>2, <2>3 DEF Sweep
<1>16. CASE Cleanup(w) /\ coordinator.epoch \notin {None, active[w]}
  <2>1. /\ cursor' = [cursor EXCEPT ![w] = None] /\ task' = [task EXCEPT ![w] = "idle"]
        /\ UNCHANGED <<checkpoint, coordinator, epochs, pc, tickets, expires, clock>>
    BY <1>16 DEF Cleanup, Stops, Do, writers
  <2> QED
    BY <1>1, <1>2, <2>1 DEF Moves
<1>13. CASE Cleanup(w) /\ coordinator.epoch \in {None, active[w]}
  <2> DEFINE k == [cursor[w] EXCEPT !.phase = "complete"]
  <2>1. cursor[w] \in Cursors
    BY <1>13, RunsTypes DEF Cleanup
  <2>2. k \in Cursors /\ k.epoch = cursor[w].epoch /\ k.drained = cursor[w].drained
    BY <2>1 DEF Cursors, Phases
  <2>3. cursor' = [cursor EXCEPT ![w] = k]
    BY <1>13 DEF Cleanup
  <2>4. /\ task' = [task EXCEPT ![w] = "save"] /\ checkpoint' = checkpoint
        /\ coordinator'.epoch = None /\ UNCHANGED <<epochs, pc, tickets, expires, clock>>
    BY <1>13, SMT DEF Cleanup, SetCoordinator, Do, writers
  <2> HIDE DEF k
  <2>5. Moves(w) /\ cursor'[w] = k /\ task'[w] # "open" /\ cursor[w] # None
    BY <1>1, <2>1, <2>3, <2>4, NoneGcAssumption DEF Moves
  <2>6. EpochInv'
    BY <2>2, <2>4, <2>5, WorkerEpochs
  <2>7. \A j \in Held' : \E i \in Held : i.epoch = j.epoch /\ (j.drained => i.drained)
    BY <1>1, <2>2, <2>5, HeldAfter
  <2> QED
    BY <2>4, <2>6, <2>7, WorkerTickets
<1>14. CASE Resume(w)
  <2> DEFINE e == coordinator.epoch
  <2>1. e \in Epochs /\ checkpoint[e] \in Cursors /\ checkpoint[e] \in Held
    BY <1>1, <1>14 DEF Resume, Held, Types, TypeOK
  <2>2. checkpoint[e].epoch = e
    BY <1>14, <2>1 DEF Resume, EpochInv
  <2>3. /\ cursor' = [cursor EXCEPT ![w] = checkpoint[e]] /\ task' = [task EXCEPT ![w] = "run"]
        /\ UNCHANGED <<coordinator, checkpoint, epochs, pc, tickets, expires, clock>>
    BY <1>14 DEF Resume, Do, writers
  <2>4. Moves(w) /\ cursor'[w] = checkpoint[e] /\ task'[w] # "open"
    BY <1>1, <2>3 DEF Moves
  <2>5. EpochInv'
    BY <2>1, <2>2, <2>3, <2>4, WorkerEpochs
  <2>6. \A j \in Held' : \E i \in Held : i.epoch = j.epoch /\ (j.drained => i.drained)
    BY <2>1, <2>4, HeldAfter
  <2> QED
    BY <2>3, <2>5, <2>6, WorkerTickets
<1> QED
  BY <1>3, <1>4, <1>5, <1>6, <1>7, <1>8, <1>9, <1>10, <1>11, <1>12, <1>13, <1>14, <1>15, <1>16
  DEF CollectorStep, WorkerStep

\* The writers: a ticket is taken before admission is looked at, and kept until
\* the operation is over.
LEMMA WriterTickets ==
    ASSUME Types, EpochInv, TicketInv, NEW o \in Ops, WriterStep(o)
    PROVE  EpochInv' /\ TicketInv'
<1>1. /\ UNCHANGED <<coordinator, checkpoint, cursor, task, epochs, clock>>
      /\ \A q \in Ops \ {o} : /\ pc'[q] = pc[q] /\ expires'[q] = expires[q]
                              /\ q \in tickets => q \in tickets'
  BY DEF WriterStep, Upload, StoreCommit, BeginReset, Admission, Check, Load, TakeTicket, Admit,
         Execute, Released, Over, Release, Goto, store, workers, Types, TypeOK
<1>2. EpochInv' /\ Held' = Held
  BY <1>1, SMT DEF EpochInv, Held, Alone
<1>3. pc'[o] \in {"admit", "sent"} => o \in tickets' \/ expires'[o] <= clock
  <2>1. CASE TakeTicket(o)
    BY <2>1 DEF TakeTicket
  <2>2. CASE Admit(o)
    BY <2>2 DEF Admit, Over, Goto, TicketInv, Types, TypeOK
  <2>3. CASE Execute(o)
    BY <2>3 DEF Execute, TicketInv
  <2> QED
    BY <2>1, <2>2, <2>3
    DEF WriterStep, Upload, StoreCommit, BeginReset, Admission, Check, Load, Released, Over,
        Goto, Types, TypeOK
<1>4. pc'[o] = "sent" =>
         coordinator.epoch = None \/ (pc[o] = "sent" /\ expires'[o] = expires[o])
  <2>1. CASE Admit(o)
    BY <2>1 DEF Admit, AdmissionOpen, Over, Goto, Types, TypeOK
  <2>2. CASE Execute(o)
    BY <2>2 DEF Execute
  <2> QED
    BY <2>1, <2>2
    DEF WriterStep, Upload, StoreCommit, BeginReset, Admission, Check, Load, TakeTicket, Released,
        Over, Goto, Types, TypeOK
<1>5. \A k \in Held : k.epoch # None
  BY NoneGcAssumption, SMT DEF Held, Types, TypeOK, Cursors
<1>6. \A q \in Ops : pc'[q] \in {"admit", "sent"} => q \in tickets' \/ expires'[q] <= clock'
  BY <1>1, <1>3 DEF TicketInv
<1>7. ASSUME NEW k \in Held, k.drained, k.epoch = coordinator.epoch, NEW q \in Ops, pc'[q] = "sent"
      PROVE  expires'[q] <= clock'
  BY <1>1, <1>4, <1>5, <1>7 DEF TicketInv
<1> QED
  BY <1>1, <1>2, <1>6, <1>7 DEF TicketInv

LEMMA TicketsInit == Init => EpochInv /\ TicketInv
<1> SUFFICES ASSUME Init PROVE EpochInv /\ TicketInv
  OBVIOUS
<1>1. Held = {}
  BY DEF Init, Held
<1> QED
  BY <1>1 DEF Init, EpochInv, TicketInv

LEMMA TicketsStep == Types /\ EpochInv /\ TicketInv /\ [Next]_vars => EpochInv' /\ TicketInv'
<1> SUFFICES ASSUME Types, EpochInv, TicketInv, [Next]_vars PROVE EpochInv' /\ TicketInv'
  OBVIOUS
<1>1. CASE Tick \/ UNCHANGED vars
  <2>1. /\ UNCHANGED <<coordinator, checkpoint, cursor, task, epochs, pc, tickets, expires>>
        /\ clock' \in {clock, clock + 1} /\ clock \in Nat
    BY <1>1, SMT DEF Tick, vars, store, writers, workers, Types, TypeOK
  <2>2. EpochInv' /\ Held' = Held
    BY <2>1 DEF EpochInv, Held, Alone
  <2>3. \A o \in Ops : expires[o] <= clock => expires'[o] <= clock'
    BY <2>1, SMT DEF Types, TypeOK
  <2> QED
    BY <2>1, <2>2, <2>3 DEF TicketInv
<1> QED
  BY <1>1, GcTickets, WriterTickets, Steps

\* The state of the repository, of its coordinator and of its workers is well typed.
THEOREM GcTypes == Spec => []TypeOK
<1>1. Spec => []Types
  BY TypesInit, TypesStep, PTL DEF Spec
<1> QED
  BY <1>1, PTL DEF Types

\* Once the tickets of an epoch are drained (gc_drain_publication_tickets), no ref write
\* is on its way under a ticket that has not expired (before_compare_exchange).
THEOREM MarkingWaits == Spec => []MarkingWaitsForTickets
<1>1. Types /\ TicketInv => MarkingWaitsForTickets
  <2> SUFFICES ASSUME Types, TicketInv, NEW w \in Workers, cursor[w] # None, cursor[w].drained,
                      coordinator.epoch = cursor[w].epoch, NEW o \in inflight, pc[o] = "sent"
               PROVE  expires[o] <= clock
    BY DEF MarkingWaitsForTickets
  <2> QED
    BY DEF Types, TypeOK, TicketInv, Held
<1>2. Init => Types /\ EpochInv /\ TicketInv
  BY TypesInit, TicketsInit
<1>3. Types /\ EpochInv /\ TicketInv /\ [Next]_vars => (Types /\ EpochInv /\ TicketInv)'
  BY TypesStep, TicketsStep
<1> QED
  BY <1>1, <1>2, <1>3, PTL DEF Spec
-----------------------------------------------------------------------------
(* What the collector may delete *)

\* Both sides of the last move of the branch, and what they reach.
Sides == {ref.target, ref.previous} \ {None}
Reach == {c \in Commits : \E d \in Sides : c \in Ancestors(d)}

\* The commits that have a base: once there, it is for good.
Settled == {c \in Commits : c \in Puts => base[c] # None}

Unstarted == {"idle", "admitted"}
Unbased == {"idle", "admitted", "staged", "load"}

\* Bases, goals and stored commits only name commits with bases, and a base of the ref's
\* generation is the ref.
BaseInv(o) ==
    /\ pc[o] \in Unbased => base[o] = None
    /\ pc[o] \in {"commit", "check", "ticket", "admit", "sent"} => base[o] # None
    /\ o \in inflight => base[o] # None /\ pc[o] \in {"sent", "over"}
    /\ base[o] # None => /\ base[o].target \in Settled
                         /\ base[o].previous \in Settled \cup {None}
                         /\ base[o].token <= ref.token
                         /\ base[o].token = ref.token => base[o] = ref

Based ==
    /\ \A o \in Ops : BaseInv(o)
    /\ ref.target \in Settled /\ ref.previous \in Settled \cup {None}
    /\ \A r \in Resets : pc[r] # "idle" => goal[r] \in Settled
    /\ \A p \in Puts : objects[p] # None => base[p] # None

Uploaded(p) ==
    objects[PayloadOf[p]] # None /\ objects[PayloadOf[p]].version = binding[p]

\* What put p has stored, and that it is still there during the grace period.
PutInv(p) ==
    /\ started[p] <= clock
    /\ pc[p] \in Unstarted => objects[PayloadOf[p]] = None
    /\ pc[p] \in Unbased \cup {"commit"} => objects[p] = None
    /\ objects[PayloadOf[p]] # None => started[p] <= objects[PayloadOf[p]].modified
    /\ objects[p] # None => started[p] <= objects[p].modified
    /\ clock < started[p] + Grace =>
          /\ pc[p] \in {"staged", "load", "commit", "ticket", "admit", "sent"} \/ p \in inflight =>
                Uploaded(p)
          /\ pc[p] \in {"ticket", "admit", "sent"} \/ p \in inflight => objects[p] # None

\* Put p began after the cutoff of cursor k.
Recent(p, k) == p \in Puts /\ started[p] > k.cutoff

\* What the branch reaches is recent or marked, and no candidate.
CursorInv(k) ==
    /\ k.cutoff + Grace <= clock
    /\ k.commits \subseteq Settled
    /\ k.phase = "mark" =>
          \A c \in Reach : Recent(c, k) \/ \E d \in k.commits : c \in Ancestors(d)
    /\ k.phase = "scan" => \A c \in Reach : Recent(c, k) \/ c \in k.commits
    /\ \A x \in k.candidates :
          /\ x.path \notin Reach
          /\ \A p \in Puts : x.path \in {p, PayloadOf[p]} =>
                pc[p] \notin Unstarted /\ started[p] <= k.cutoff /\ p \notin Reach

\* What both sides of the ref reach is stored.
Complete == \A c \in Reach : Stored(c)

\* What holds while resets stay with what the branch reaches, and what always does.
KeptInv ==
    /\ \A p \in Puts : PutInv(p)
    /\ \A k \in Held : CursorInv(k)
    /\ Complete
GcInv == Based /\ (ResetsKept => KeptInv)

\* Different puts upload different payloads.
Distinct == \A p, q \in Puts : PayloadOf[p] = PayloadOf[q] => p = q

\* The paths of a put.
LEMMA PathsOf ==
    ASSUME NEW p \in Puts
    PROVE  /\ p \in Ops /\ p \in Paths /\ p \in Commits /\ PayloadOf[p] \in Paths /\ p # Root
           /\ \A q \in Puts : PayloadOf[p] # q
           /\ PayloadOf[p] # Root /\ PayloadOf[p] \notin Commits
BY OpsGcAssumption DEF Ops, Paths, Payloads, Commits

-----------------------------------------------------------------------------
(* Reachability *)

LEMMA AncestorsClosed ==
    ASSUME Types, NEW c \in Commits
    PROVE  c \in Ancestors(c) /\ Ancestors(c) \in SUBSET Commits /\ Closed(Ancestors(c))
<1>1. c \in Ancestors(c) /\ Ancestors(c) \in SUBSET Commits
  BY DEF Ancestors
<1>2. ASSUME NEW q \in Ancestors(c) \cap Puts, base[q] # None
      PROVE  base[q].target \in Ancestors(c)
  <2>1. base[q].target \in Commits
    BY <1>2 DEF Types, TypeOK, Ops, RefValues
  <2>2. ASSUME NEW cs \in SUBSET Commits, c \in cs, Closed(cs) PROVE base[q].target \in cs
    BY <1>2, <2>2 DEF Ancestors, Closed
  <2> QED
    BY <2>1, <2>2 DEF Ancestors
<1> QED
  BY <1>1, <1>2 DEF Closed

LEMMA AncestorsLeast ==
    ASSUME NEW c \in Commits, NEW cs \in SUBSET Commits, c \in cs, Closed(cs)
    PROVE  Ancestors(c) \subseteq cs
BY DEF Ancestors

\* Bases outside a closed set say nothing about what its commits reach.
LEMMA AncestorsKept ==
    ASSUME Types, NEW b \in SUBSET Commits, Closed(b), NEW c \in b,
           \A q \in b \cap Puts : base'[q] = base[q]
    PROVE  Ancestors(c)' = Ancestors(c)
<1>1. c \in Ancestors(c) /\ Ancestors(c) \in SUBSET Commits /\ Closed(Ancestors(c))
  BY AncestorsClosed
<1>2. Ancestors(c) \subseteq b
  BY AncestorsLeast
<1>3. ASSUME NEW d \in Ancestors(c)' PROVE d \in Ancestors(c)
  <2>1. \A q \in Ancestors(c) \cap Puts : base'[q] # None => base'[q].target \in Ancestors(c)
    BY <1>1, <1>2 DEF Closed
  <2>2. \A cs \in SUBSET Commits :
           c \in cs /\ (\A q \in cs \cap Puts : base'[q] # None => base'[q].target \in cs) =>
              d \in cs
    BY <1>3 DEF Ancestors, Closed
  <2> QED
    BY <1>1, <2>1, <2>2
<1>4. ASSUME NEW d \in Ancestors(c) PROVE d \in Ancestors(c)'
  <2>1. ASSUME NEW cs \in SUBSET Commits, c \in cs,
               \A q \in cs \cap Puts : base'[q] # None => base'[q].target \in cs
        PROVE  d \in cs
    <3>1. cs \cap b \in SUBSET Commits /\ c \in cs \cap b
      BY <2>1
    <3>2. Closed(cs \cap b)
      BY <2>1 DEF Closed
    <3> QED
      BY <3>1, <3>2, AncestorsLeast
  <2>2. d \in Commits
    BY DEF Ancestors
  <2> QED
    BY <2>1, <2>2 DEF Ancestors, Closed
<1> QED
  BY <1>3, <1>4

\* The commits with bases are closed; the branch reaches no other.
LEMMA Basing ==
    ASSUME Types, Based
    PROVE  /\ Settled \in SUBSET Commits /\ Closed(Settled)
           /\ \A c \in Settled : Ancestors(c) \subseteq Settled
           /\ Sides \subseteq Settled /\ Reach \subseteq Settled
           /\ \A p \in Reach \cap Puts : pc[p] \notin Unbased
<1>1. Settled \in SUBSET Commits /\ Closed(Settled)
  BY DEF Settled, Closed, Based, BaseInv, Ops
<1>2. \A c \in Settled : Ancestors(c) \subseteq Settled
  BY <1>1, AncestorsLeast
<1>3. Sides \subseteq Settled /\ Reach \subseteq Settled
  BY <1>2 DEF Based, Sides, Reach
<1>4. \A p \in Reach \cap Puts : pc[p] \notin Unbased
  BY <1>3 DEF Settled, Based, BaseInv, Ops
<1> QED
  BY <1>1, <1>2, <1>3, <1>4

\* A base that is read leaves what the other commits reach as it was.
LEMMA Rebased ==
    ASSUME Types, Based, \A q \in Settled \cap Puts : base'[q] = base[q]
    PROVE  /\ \A c \in Settled : Ancestors(c)' = Ancestors(c)
           /\ Settled \subseteq Settled'
           /\ ref' = ref => Reach' = Reach
<1>1. \A c \in Settled : Ancestors(c)' = Ancestors(c)
  BY Basing, AncestorsKept
<1>2. Settled \subseteq Settled'
  BY DEF Settled
<1>3. ref' = ref => Reach' = Reach
  <2>1. Sides \subseteq Settled
    BY Basing
  <2> QED
    BY <1>1, <2>1 DEF Reach, Sides
<1> QED
  BY <1>1, <1>2, <1>3

\* A reset that went astray stays astray.
LEMMA KeptBefore ==
    ASSUME Types, Based, \A q \in Settled \cap Puts : base'[q] = base[q],
           \A r \in Resets : base[r] # None => base'[r] = base[r] /\ goal'[r] = goal[r],
           ResetsKept'
    PROVE  ResetsKept
<1> SUFFICES ASSUME NEW r \in Resets, base[r] # None
             PROVE  \E c \in {base[r].target, base[r].previous} \ {None} : goal[r] \in Ancestors(c)
  BY DEF ResetsKept
<1>1. base'[r] = base[r] /\ goal'[r] = goal[r]
  OBVIOUS
<1>2. PICK c \in {base[r].target, base[r].previous} \ {None} : goal[r] \in Ancestors(c)'
  BY <1>1 DEF ResetsKept
<1>3. c \in Settled
  BY <1>2 DEF Based, BaseInv, Ops
<1>4. Ancestors(c)' = Ancestors(c)
  BY <1>3, Rebased
<1> QED
  BY <1>2, <1>4

-----------------------------------------------------------------------------
(* Bases *)

\* A step that leaves bases, ref and writes alone only moves operations on.
LEMMA BasedKept ==
    ASSUME Types, Based, UNCHANGED <<base, ref, goal>>, inflight' \subseteq inflight,
           \A p \in Puts : objects'[p] # None => objects[p] # None \/ base[p] # None,
           \A o \in Ops : \/ pc'[o] = pc[o]
                          \/ pc[o] # "idle" /\ pc'[o] = "over"
                          \/ o \in Puts /\ pc'[o] = "over"
                          \/ o \in Puts /\ pc[o] \in Unbased /\ pc'[o] \in Unbased
                          \/ /\ pc[o] \in {"commit", "check", "ticket", "admit"}
                             /\ pc'[o] \in {"ticket", "admit", "sent"}
    PROVE  Based'
<1>1. Settled' = Settled
  BY DEF Settled
<1>2. ASSUME NEW o \in Ops PROVE BaseInv(o)'
  <2>1. BaseInv(o)
    BY DEF Based
  <2>2. /\ pc'[o] \in Unbased => pc[o] \in Unbased
        /\ pc'[o] \in {"commit", "check", "ticket", "admit", "sent"} =>
              pc[o] \in {"commit", "check", "ticket", "admit", "sent"}
        /\ o \in inflight' => o \in inflight /\ pc'[o] \in {"sent", "over"}
    BY <2>1 DEF Unbased, BaseInv
  <2> QED
    BY <1>1, <2>1, <2>2 DEF BaseInv
<1>3. ASSUME NEW r \in Resets, pc'[r] # "idle" PROVE goal'[r] \in Settled'
  <2>1. pc[r] # "idle"
    BY <1>3, OpsGcAssumption DEF Ops
  <2> QED
    BY <1>1, <2>1 DEF Based
<1>4. \A p \in Puts : objects'[p] # None => base'[p] # None
  BY DEF Based
<1> QED
  BY <1>1, <1>2, <1>3, <1>4 DEF Based

\* A stored commit has a base.
LEMMA StoredSettled ==
    ASSUME Types, Based, NEW c \in Commits, objects[c] # None
    PROVE  c \in Settled
BY DEF Based, Settled

\* The steps of an operation keep the bases.
LEMMA WriterBased ==
    ASSUME Types, Based, NEW o \in Ops, WriterStep(o)
    PROVE  Based'
<1>1. CASE o \in Puts /\ (Upload(o) \/ Admission(o) \/ StoreCommit(o))
  <2>1. UNCHANGED <<base, ref, goal, inflight>>
    BY <1>1 DEF Upload, Admission, StoreCommit, store
  <2>2. ASSUME NEW p \in Puts, objects'[p] # None PROVE objects[p] # None \/ base[p] # None
    <3>1. CASE Upload(o)
      <4>1. p # PayloadOf[o] /\ p \in Paths
        BY <1>1, PathsOf
      <4> QED
        BY <2>2, <3>1, <4>1 DEF Upload, PutImmutable, Types, TypeOK
    <3>2. CASE Admission(o)
      BY <2>2, <3>2 DEF Admission, store
    <3>3. CASE StoreCommit(o)
      <4>1. base[o] # None
        BY <3>3 DEF StoreCommit, Based, BaseInv
      <4>2. p = o \/ objects'[p] = objects[p]
        BY <3>3, PathsOf DEF StoreCommit, PutImmutable, Types, TypeOK
      <4> QED
        BY <2>2, <4>1, <4>2
    <3> QED
      BY <1>1, <3>1, <3>2, <3>3
  <2>3. \A q \in Ops : \/ pc'[q] = pc[q]
                       \/ /\ q \in Puts
                          /\ \/ pc[q] \in Unbased /\ pc'[q] \in Unbased
                             \/ pc'[q] = "over"
                             \/ pc[q] = "commit" /\ pc'[q] = "ticket"
    BY <1>1 DEF Upload, Admission, StoreCommit, Over, Goto, Unbased, Types, TypeOK
  <2> QED
    BY <2>1, <2>2, <2>3, BasedKept
<1>2. CASE Check(o) \/ TakeTicket(o) \/ Released(o)
  <2>1. UNCHANGED <<base, ref, goal, inflight, objects>>
    BY <1>2 DEF Check, TakeTicket, Released, store
  <2>2. \A q \in Ops : \/ pc'[q] = pc[q]
                       \/ pc[q] # "idle" /\ pc'[q] = "over"
                       \/ pc[q] \in {"check", "ticket"} /\ pc'[q] \in {"ticket", "admit"}
    BY <1>2 DEF Check, TakeTicket, Released, Over, Goto, Types, TypeOK
  <2> QED
    BY <2>1, <2>2, BasedKept
<1>3. ASSUME NEW c \in Commits, o \in Resets, BeginReset(o, c) PROVE Based'
  <2>1. /\ pc[o] = "idle" /\ pc' = [pc EXCEPT ![o] = "load"] /\ goal' = [goal EXCEPT ![o] = c]
        /\ objects[c] # None /\ UNCHANGED <<base, ref, inflight, objects>>
    BY <1>3 DEF BeginReset, Goto, store
  <2>2. c \in Settled /\ Settled' = Settled
    BY <2>1, StoredSettled DEF Settled
  <2>3. ASSUME NEW q \in Ops PROVE BaseInv(q)'
    <3>1. BaseInv(q)
      BY DEF Based
    <3>2. CASE q = o
      <4>1. pc'[q] = "load" /\ base[q] = None /\ q \notin inflight
        BY <2>1, <3>1, <3>2 DEF BaseInv, Unbased, Types, TypeOK
      <4> QED
        BY <2>1, <4>1 DEF BaseInv, Unbased
    <3>3. CASE q # o
      <4>1. pc'[q] = pc[q]
        BY <2>1, <3>3 DEF Types, TypeOK
      <4> QED
        BY <2>1, <2>2, <3>1, <4>1 DEF BaseInv
    <3> QED
      BY <3>2, <3>3
  <2>4. ASSUME NEW r \in Resets, pc'[r] # "idle" PROVE goal'[r] \in Settled
    BY <1>3, <2>1, <2>2, <2>4 DEF Based, Types, TypeOK, Ops
  <2> QED
    BY <2>1, <2>2, <2>3, <2>4 DEF Based
<1>4. CASE Load(o)
  <2>1. /\ pc[o] = "load" /\ base' = [base EXCEPT ![o] = ref]
        /\ UNCHANGED <<ref, goal, inflight, objects>>
        /\ pc' = [pc EXCEPT ![o] = IF o \in Puts THEN "commit" ELSE "check"]
    BY <1>4 DEF Load, Goto, store
  <2>2. \A q \in Settled \cap Puts : base'[q] = base[q]
    BY <2>1, SMT DEF Settled, Based, BaseInv, Unbased, Types, TypeOK
  <2>3. Settled \subseteq Settled'
    BY <2>1, <2>2, Rebased
  <2>4. ref.target \in Settled' /\ ref.previous \in Settled' \cup {None}
    BY <2>3 DEF Based
  <2>5. ref \in RefValues /\ ref # None /\ ref.token <= ref.token
    BY NoneGcAssumption, SMT DEF Types, TypeOK, RefValues
  <2>6. ASSUME NEW q \in Ops PROVE BaseInv(q)'
    <3>1. BaseInv(q)
      BY DEF Based
    <3>2. CASE q = o
      <4>1. base'[q] = ref /\ pc'[q] \in {"commit", "check"} /\ q \notin inflight
        BY <2>1, <3>1, <3>2 DEF BaseInv, Types, TypeOK
      <4> QED
        BY <2>1, <2>4, <2>5, <4>1 DEF BaseInv, Unbased
    <3>3. CASE q # o
      <4>1. base'[q] = base[q] /\ pc'[q] = pc[q]
        BY <2>1, <3>3 DEF Types, TypeOK
      <4> QED
        BY <2>1, <2>3, <3>1, <4>1 DEF BaseInv
    <3> QED
      BY <3>2, <3>3
  <2>7. ASSUME NEW r \in Resets, pc'[r] # "idle" PROVE goal'[r] \in Settled'
    <3>1. pc[r] # "idle"
      BY <2>1, <2>7 DEF Types, TypeOK, Ops
    <3> QED
      BY <2>1, <2>3, <3>1 DEF Based
  <2>8. \A p \in Puts : objects'[p] # None => base'[p] # None
    BY <2>1, <2>5 DEF Based, Types, TypeOK, Ops
  <2> QED
    BY <2>1, <2>4, <2>6, <2>7, <2>8 DEF Based
<1>5. CASE Admit(o)
  <2>1. pc[o] = "admit" /\ base[o] # None /\ pc'[o] \in {"sent", "over"}
    BY <1>5 DEF Admit, Over, Goto, Based, BaseInv, Types, TypeOK
  <2>2. /\ UNCHANGED <<base, ref, goal, objects>>
        /\ \A q \in Ops : q # o => pc'[q] = pc[q] /\ (q \in inflight' => q \in inflight)
        /\ o \in inflight' => o \in inflight \/ pc'[o] = "sent"
    BY <1>5 DEF Admit, Over, Goto, store, Types, TypeOK
  <2>3. Settled' = Settled
    BY <2>2 DEF Settled
  <2>4. ASSUME NEW q \in Ops PROVE BaseInv(q)'
    <3>1. BaseInv(q)
      BY DEF Based
    <3> QED
      BY <2>1, <2>2, <2>3, <3>1 DEF BaseInv, Unbased
  <2>5. ASSUME NEW r \in Resets, pc'[r] # "idle" PROVE goal'[r] \in Settled'
    <3>1. pc[r] # "idle"
      BY <2>1, <2>2, <2>5 DEF Ops
    <3> QED
      BY <2>2, <2>3, <3>1 DEF Based
  <2> QED
    BY <2>2, <2>3, <2>4, <2>5 DEF Based
<1>6. CASE Execute(o)
  <2>1. o \in inflight /\ inflight' = inflight \ {o} /\ UNCHANGED <<base, pc, goal, objects>>
    BY <1>6 DEF Execute
  <2>2. CASE ref' = ref
    BY <2>1, <2>2, BasedKept
  <2>3. CASE /\ ref.token = base[o].token
             /\ ref' = [target |-> IF o \in Puts THEN o ELSE goal[o], previous |-> ref.target,
                        token |-> ref.token + 1]
    <3> DEFINE c == IF o \in Puts THEN o ELSE goal[o]
    <3>1. base[o] # None /\ c \in Settled
      <4>1. BaseInv(o) /\ base[o] # None /\ pc[o] # "idle"
        BY <2>1 DEF Based, BaseInv
      <4> QED
        BY <4>1 DEF Based, Settled, Ops, Commits
    <3>2. Settled' = Settled /\ ref.token \in Nat
      BY <2>1 DEF Settled, Types, TypeOK, RefValues
    <3>3. ref'.target = c /\ ref'.previous = ref.target /\ ref'.token = ref.token + 1
      BY <2>3
    <3> HIDE DEF c
    <3>4. ASSUME NEW q \in Ops PROVE BaseInv(q)'
      <4>1. BaseInv(q)
        BY DEF Based
      <4>2. ASSUME base[q] # None PROVE base[q].token <= ref'.token /\ base[q].token # ref'.token
        <5>1. base[q].token \in Nat /\ base[q].token <= ref.token
          BY <4>1, <4>2, SMT DEF BaseInv, Types, TypeOK, RefValues
        <5> QED
          BY <3>2, <3>3, <5>1, SMT
      <4> QED
        BY <2>1, <3>2, <4>1, <4>2 DEF BaseInv
    <3>5. ref'.target \in Settled' /\ ref'.previous \in Settled'
      BY <3>1, <3>2, <3>3 DEF Based
    <3> QED
      BY <2>1, <3>2, <3>4, <3>5 DEF Based
  <2> QED
    BY <1>6, <2>2, <2>3 DEF Execute
<1> QED
  BY <1>1, <1>2, <1>3, <1>4, <1>5, <1>6 DEF WriterStep

\* A base and a goal, once there, stay.
LEMMA BasesKept ==
    ASSUME Types, Based, NEW o \in Ops, WriterStep(o)
    PROVE  /\ \A q \in Settled \cap Puts : base'[q] = base[q]
           /\ \A r \in Resets : base[r] # None => base'[r] = base[r] /\ goal'[r] = goal[r]
<1>1. CASE Load(o)
  <2>1. base' = [base EXCEPT ![o] = ref] /\ base[o] = None /\ goal' = goal
    BY <1>1 DEF Load, Based, BaseInv, Unbased
  <2> QED
    BY <2>1 DEF Settled, Types, TypeOK, Ops
<1>2. ASSUME NEW c \in Commits, BeginReset(o, c), o \in Resets
      PROVE  /\ \A q \in Settled \cap Puts : base'[q] = base[q]
             /\ \A r \in Resets : base[r] # None => base'[r] = base[r] /\ goal'[r] = goal[r]
  <2>1. base' = base /\ base[o] = None /\ goal' = [goal EXCEPT ![o] = c]
    BY <1>2 DEF BeginReset, Based, BaseInv, Unbased
  <2> QED
    BY <2>1 DEF Types, TypeOK
<1>3. CASE UNCHANGED <<base, goal>>
  BY <1>3
<1> QED
  BY <1>1, <1>2, <1>3
  DEF WriterStep, Upload, Admission, StoreCommit, Check, TakeTicket, Admit, Execute, Released

\* Neither does the collector touch them.
LEMMA CollectorBased ==
    ASSUME Types, Based, NEW w \in Workers, CollectorStep(w)
    PROVE  Based' /\ UNCHANGED <<base, goal>>
<1>1. UNCHANGED <<base, ref, goal, inflight, pc>>
  BY DEF CollectorStep, WorkerStep, StartGc, CloseAdmission, Save, Refused, Drain, Discover, Mark,
         Scan, Sweep, Cleanup, Restore, Resume, AbandonIncomplete, AbandonGc, GivesUp,
         CrashWorker, writers,
         store
<1>2. ASSUME NEW p \in Puts, objects'[p] # None PROVE objects[p] # None
  <2>1. CASE Sweep(w)
    <3>1. ASSUME NEW d \in cursor[w].candidates, Delete(w, d) PROVE objects[p] # None
      BY <1>2, <3>1, PathsOf DEF Delete, Types, TypeOK
    <3> QED
      BY <1>2, <2>1, <3>1 DEF Sweep
  <2> QED
    BY <1>2, <2>1
    DEF CollectorStep, WorkerStep, StartGc, CloseAdmission, Save, Refused, Drain, Discover, Mark,
        Scan, Cleanup, Restore, Resume, AbandonIncomplete, AbandonGc, GivesUp, CrashWorker, store
<1> QED
  BY <1>1, <1>2, BasedKept

-----------------------------------------------------------------------------
(* What puts have stored *)

\* A put whose objects are left alone moves on.
LEMMA PutKept ==
    ASSUME NEW q \in Puts, PutInv(q),
           objects'[q] = objects[q], objects'[PayloadOf[q]] = objects[PayloadOf[q]],
           started'[q] = started[q], binding'[q] = binding[q], clock' = clock,
           q \in inflight' => q \in inflight \/ pc[q] = "admit",
           \/ pc'[q] \in {pc[q], "over"}
           \/ <<pc[q], pc'[q]>> \in {<<"idle", "admitted">>, <<"staged", "load">>,
                                     <<"load", "commit">>, <<"ticket", "admit">>,
                                     <<"admit", "sent">>}
    PROVE  PutInv(q)'
BY DEF PutInv, Uploaded, Unstarted, Unbased

LEMMA WriterPuts ==
    ASSUME Types, Based, Distinct, \A p \in Puts : PutInv(p), NEW o \in Ops, WriterStep(o),
           NEW q \in Puts
    PROVE  PutInv(q)'
<1>1. q \in Ops /\ q \in Paths /\ PayloadOf[q] \in Paths
  BY PathsOf
<1>2. CASE o \in Puts /\ Upload(o)
  <2>1. /\ pc[o] \in Unstarted /\ clock' = clock /\ inflight' = inflight
        /\ PutImmutable(PayloadOf[o])
        /\ binding' = [binding EXCEPT ![o] = versions'[PayloadOf[o]]]
        /\ started' = [started EXCEPT ![o] = clock]
        /\ pc' = [pc EXCEPT ![o] = IF pc[o] = "idle" THEN "staged" ELSE "load"]
    BY <1>2 DEF Upload, Goto, Unstarted
  <2>2. objects[PayloadOf[o]] = None /\ objects[o] = None /\ o \notin inflight
    BY <1>2, <2>1 DEF PutInv, Unstarted, Unbased, Based, BaseInv
  <2>3. /\ versions' = [versions EXCEPT ![PayloadOf[o]] = @ + 1]
        /\ objects' = [objects EXCEPT ![PayloadOf[o]] =
                         [version |-> versions[PayloadOf[o]] + 1, modified |-> clock]]
    BY <2>1, <2>2 DEF PutImmutable
  <2>4. CASE q = o
    <3>1. objects'[q] = None /\ started'[q] = clock /\ clock \in Nat
      BY <1>1, <2>1, <2>2, <2>3, <2>4, PathsOf, SMT DEF Types, TypeOK
    <3>2. /\ objects'[PayloadOf[q]] = [version |-> versions[PayloadOf[q]] + 1, modified |-> clock]
          /\ binding'[q] = versions[PayloadOf[q]] + 1 /\ versions[PayloadOf[q]] + 1 \in Nat
      BY <1>1, <2>1, <2>3, <2>4, SMT DEF Types, TypeOK
    <3>3. objects'[PayloadOf[q]] # None /\ objects'[PayloadOf[q]].modified = clock
          /\ objects'[PayloadOf[q]].version = binding'[q]
      BY <3>1, <3>2, NoneGcAssumption, SMT DEF Objects
    <3>4. pc'[q] \in {"staged", "load"} /\ q \notin inflight'
      BY <1>1, <2>1, <2>2, <2>4 DEF Types, TypeOK
    <3> QED
      BY <2>1, <3>1, <3>3, <3>4, SMT DEF PutInv, Uploaded, Unstarted, Unbased
  <2>5. CASE q # o
    <3>1. PayloadOf[q] # PayloadOf[o] /\ q # PayloadOf[o]
      BY <1>2, <2>5, PathsOf DEF Distinct
    <3>2. /\ objects'[q] = objects[q] /\ objects'[PayloadOf[q]] = objects[PayloadOf[q]]
          /\ started'[q] = started[q] /\ binding'[q] = binding[q] /\ pc'[q] = pc[q]
      BY <1>1, <2>1, <2>3, <2>5, <3>1 DEF Types, TypeOK
    <3> QED
      BY <2>1, <3>2, PutKept
  <2> QED
    BY <2>4, <2>5
<1>3. CASE o \in Puts /\ StoreCommit(o)
  <2>1. /\ pc[o] = "commit" /\ PutImmutable(o) /\ pc' = [pc EXCEPT ![o] = "ticket"]
        /\ UNCHANGED <<started, binding, inflight, clock>>
    BY <1>3 DEF StoreCommit, Goto
  <2>2. objects[o] = None /\ o \notin inflight
    BY <1>3, <2>1 DEF PutInv, Based, BaseInv
  <2>3. objects' = [objects EXCEPT ![o] = [version |-> versions[o] + 1, modified |-> clock]]
    BY <2>1, <2>2 DEF PutImmutable
  <2>4. objects'[PayloadOf[q]] = objects[PayloadOf[q]]
    BY <1>1, <1>3, <2>3, PathsOf DEF Types, TypeOK
  <2>5. CASE q = o
    <3>1. /\ objects'[q] = [version |-> versions[q] + 1, modified |-> clock]
          /\ pc'[q] = "ticket" /\ pc[q] = "commit"
      BY <1>1, <2>1, <2>3, <2>5 DEF Types, TypeOK
    <3>2. versions[q] + 1 \in Nat /\ clock \in Nat
      BY <1>1, SMT DEF Types, TypeOK
    <3>3. objects'[q] # None /\ objects'[q].modified = clock
      BY <3>1, <3>2, NoneGcAssumption, SMT DEF Objects
    <3> QED
      BY <2>1, <2>2, <2>4, <3>1, <3>3 DEF PutInv, Uploaded, Unstarted, Unbased
  <2>6. CASE q # o
    BY <1>1, <2>1, <2>3, <2>4, <2>6, PutKept DEF Types, TypeOK
  <2> QED
    BY <2>5, <2>6
<1>4. CASE o \in Resets /\ (Check(o) \/ \E c \in Commits : BeginReset(o, c))
  <2>1. o # q
    BY <1>4, OpsGcAssumption
  <2>2. UNCHANGED <<objects, binding, inflight, clock>> /\ pc'[q] = pc[q] /\ started'[q] = started[q]
    BY <1>1, <1>4, <2>1 DEF Check, BeginReset, Over, Goto, store, Types, TypeOK
  <2> QED
    BY <2>2, PutKept
<1>5. CASE Admission(o) \/ Load(o) \/ TakeTicket(o) \/ Released(o)
  BY <1>1, <1>5, PutKept
  DEF Admission, Load, TakeTicket, Released, Over, Goto, store, Types, TypeOK
<1>6. CASE Admit(o)
  BY <1>1, <1>6, PutKept DEF Admit, Over, Goto, store, Types, TypeOK
<1>7. CASE Execute(o)
  BY <1>1, <1>7, PutKept DEF Execute
<1> QED
  BY <1>2, <1>3, <1>4, <1>5, <1>6, <1>7 DEF WriterStep

-----------------------------------------------------------------------------
(* What the branch reaches, and the cursors *)

\* The cursor loses nothing while the branch stays and no put starts again.
LEMMA CursorKept ==
    ASSUME Types, Based, NEW k \in Cursors, CursorInv(k),
           Reach' = Reach, Settled \subseteq Settled',
           \A c \in Settled : Ancestors(c)' = Ancestors(c), clock' = clock \/ clock' = clock + 1,
           \A p \in Puts : pc[p] \notin Unstarted =>
              started'[p] = started[p] /\ pc'[p] \notin Unstarted
    PROVE  CursorInv(k)'
<1>1. \A c \in Reach : Recent(c, k) => Recent(c, k)'
  BY Basing DEF Recent, Unstarted, Unbased
<1>2. k.cutoff + Grace <= clock'
  BY GcBoundsAssumption, SMT DEF CursorInv, Cursors, Types, TypeOK
<1>3. k.commits \subseteq Settled'
  BY DEF CursorInv
<1>4. k.phase = "mark" =>
         \A c \in Reach' : Recent(c, k)' \/ \E d \in k.commits : c \in Ancestors(d)'
  BY <1>1 DEF CursorInv
<1>5. k.phase = "scan" => \A c \in Reach' : Recent(c, k)' \/ c \in k.commits
  BY <1>1 DEF CursorInv
<1>6. ASSUME NEW x \in k.candidates
      PROVE  /\ x.path \notin Reach'
             /\ \A p \in Puts : x.path \in {p, PayloadOf[p]} =>
                   pc'[p] \notin Unstarted /\ started'[p] <= k.cutoff /\ p \notin Reach'
  BY <1>6 DEF CursorInv
<1> QED
  BY <1>2, <1>3, <1>4, <1>5, <1>6 DEF CursorInv

\* All operations but Execute leave what the branch reaches alone.
LEMMA Unmoved ==
    ASSUME Types, Based, Distinct, KeptInv, NEW o \in Ops, WriterStep(o), ~Execute(o)
    PROVE  Complete' /\ \A k \in Held' : CursorInv(k)'
<1>1. UNCHANGED <<ref, cursor, checkpoint, clock>>
  BY DEF WriterStep, Upload, StoreCommit, BeginReset, Admission, Check, Load, TakeTicket, Admit,
         Released, store, workers
<1>2. \A p \in Puts : pc[p] \notin Unstarted =>
         started'[p] = started[p] /\ binding'[p] = binding[p] /\ pc'[p] \notin Unstarted
  <2>1. CASE o \in Puts /\ Upload(o)
    BY <2>1 DEF Upload, Goto, Unstarted, Types, TypeOK, Ops
  <2>2. CASE \E c \in Commits : o \in Resets /\ BeginReset(o, c)
    <3>1. PICK c \in Commits : o \in Resets /\ BeginReset(o, c)
      BY <2>2
    <3>2. UNCHANGED binding /\ \A q \in Ops \ {o} : pc'[q] = pc[q] /\ started'[q] = started[q]
      BY <3>1 DEF BeginReset, Goto, Types, TypeOK
    <3> QED
      BY <3>1, <3>2, OpsGcAssumption DEF Ops
  <2>3. CASE \/ o \in Puts /\ (Admission(o) \/ StoreCommit(o))
             \/ Check(o) \/ Load(o) \/ TakeTicket(o) \/ Admit(o) \/ Released(o)
    <3>1. UNCHANGED <<started, binding>> /\ \A q \in Ops \ {o} : pc'[q] = pc[q]
      BY <2>3
      DEF Admission, StoreCommit, Check, Load, TakeTicket, Admit, Released, Over, Goto, Types,
          TypeOK
    <3>2. pc[o] \notin Unstarted => pc'[o] \notin Unstarted
      BY <2>3
      DEF Admission, StoreCommit, Check, Load, TakeTicket, Admit, Released, Over, Goto,
          Unstarted, Types, TypeOK
    <3> QED
      BY <3>1, <3>2 DEF Ops
  <2> QED
    BY <2>1, <2>2, <2>3 DEF WriterStep
<1>3. \A q \in Settled \cap Puts : base'[q] = base[q]
  BY BasesKept
<1>4. /\ \A c \in Settled : Ancestors(c)' = Ancestors(c)
      /\ Settled \subseteq Settled' /\ Reach' = Reach
  BY <1>1, <1>3, Rebased
<1>5. Held' = Held /\ Held \subseteq Cursors
  BY <1>1, SMT DEF Held, Types, TypeOK
<1>6. \A k \in Held' : CursorInv(k)'
  BY <1>1, <1>2, <1>4, <1>5, CursorKept DEF KeptInv
<1>7. \A p \in Paths : objects[p] # None => objects'[p] = objects[p]
  <2>1. CASE o \in Puts /\ (Upload(o) \/ StoreCommit(o))
    BY <2>1 DEF Upload, StoreCommit, PutImmutable, Types, TypeOK
  <2> QED
    BY <2>1
    DEF WriterStep, BeginReset, Admission, Check, Load, TakeTicket, Admit, Released, store
<1>8. ASSUME NEW c \in Reach PROVE Stored(c)'
  <2>1. Stored(c) /\ c \in Commits /\ c \in Paths
    BY DEF KeptInv, Complete, Reach, Paths
  <2>2. objects'[c] # None
    BY <1>7, <2>1 DEF Stored
  <2>3. ASSUME c \in Puts
        PROVE  objects'[PayloadOf[c]] # None /\ objects'[PayloadOf[c]].version = binding'[c]
    <3>1. PayloadOf[c] \in Paths /\ pc[c] \notin Unstarted
      BY <2>3, PathsOf, Basing DEF Unstarted, Unbased
    <3> QED
      BY <1>2, <1>7, <2>1, <2>3, <3>1 DEF Stored
  <2> QED
    BY <2>2, <2>3 DEF Stored
<1> QED
  BY <1>4, <1>6, <1>8 DEF Complete

\* The branch moves to an operation of the grace period.
LEMMA ExecuteMoves ==
    ASSUME Types, Based, ResetsKept, KeptInv, NEW o \in Ops, Execute(o)
    PROVE  Complete' /\ \A k \in Held' : CursorInv(k)'
<1>1. /\ o \in inflight /\ clock < started[o] + Grace
      /\ UNCHANGED <<objects, base, pc, started, binding, cursor, checkpoint, clock>>
  BY DEF Execute, workers
<1>2. /\ Settled' = Settled /\ Held' = Held /\ Held \subseteq Cursors
      /\ \A c \in Commits : Ancestors(c)' = Ancestors(c)
  BY <1>1, SMT DEF Settled, Held, Ancestors, Closed, Types, TypeOK
<1>3. \A c \in Reach' : c \in Reach \/ (c = o /\ o \in Puts)
  <2>1. CASE ref' = ref
    BY <1>1, <2>1 DEF Reach, Sides, Ancestors, Closed
  <2>2. CASE /\ ref.token = base[o].token
             /\ ref' = [target |-> IF o \in Puts THEN o ELSE goal[o], previous |-> ref.target,
                        token |-> ref.token + 1]
    <3>1. base[o] # None /\ base[o] = ref /\ pc[o] # "idle"
      BY <1>1, <2>2 DEF Based, BaseInv
    <3>2. ref.target \in Sides /\ ref.target \in Commits /\ Sides \subseteq Commits
      BY OpsGcAssumption DEF Sides, Types, TypeOK, RefValues, Paths
    <3>3. ref'.target = (IF o \in Puts THEN o ELSE goal[o]) /\ ref'.previous = ref.target
      BY <2>2
    <3>4. ASSUME NEW c \in Reach' PROVE c \in Reach \/ (c = o /\ o \in Puts)
      <4>1. PICK d \in {ref'.target, ref.target} : c \in Ancestors(d)'
        BY <3>3 DEF Reach, Sides
      <4>2. CASE d = ref.target
        BY <1>2, <3>2, <4>1, <4>2 DEF Reach, Ancestors
      <4>3. CASE d = ref'.target /\ o \in Puts
        <5>1. d = o /\ o \in Commits /\ base[o].target = ref.target
          BY <3>1, <3>3, <4>3, PathsOf
        <5> DEFINE a == Ancestors(ref.target)
        <5>2. ref.target \in a /\ a \in SUBSET Commits /\ Closed(a)
          BY <3>2, AncestorsClosed
        <5>3. a \subseteq Reach
          BY <3>2, <5>2 DEF Reach
        <5> HIDE DEF a
        <5>4. Closed(a \cup {o})
          BY <5>1, <5>2 DEF Closed
        <5>5. Ancestors(o) \subseteq a \cup {o}
          BY <5>1, <5>2, <5>4, AncestorsLeast
        <5>6. c \in Ancestors(o)
          BY <1>2, <4>1, <5>1
        <5> QED
          BY <4>3, <5>3, <5>5, <5>6
      <4>4. CASE d = ref'.target /\ o \notin Puts
        <5>1. o \in Resets /\ d = goal[o] /\ goal[o] \in Commits
          BY <3>1, <3>3, <4>4 DEF Ops, Types, Placed
        <5>2. PICK b \in Sides : goal[o] \in Ancestors(b)
          BY <3>1, <5>1 DEF ResetsKept, Sides
        <5>3. b \in Commits
          BY <3>2
        <5>4. Ancestors(b) \in SUBSET Commits /\ Closed(Ancestors(b))
          BY <5>3, AncestorsClosed
        <5>5. Ancestors(goal[o]) \subseteq Ancestors(b)
          BY <5>1, <5>2, <5>4, AncestorsLeast
        <5> QED
          BY <1>2, <4>1, <5>1, <5>2, <5>4, <5>5 DEF Reach
      <4> QED
        BY <4>1, <4>2, <4>3, <4>4
    <3> QED
      BY <3>4
  <2> QED
    BY <2>1, <2>2 DEF Execute
<1>4. o \in Puts => Stored(o)
  BY <1>1 DEF KeptInv, PutInv, Uploaded, Stored
<1>5. Complete'
  <2>1. \A c \in Reach' : Stored(c)
    BY <1>3, <1>4 DEF KeptInv, Complete
  <2> QED
    BY <1>1, <2>1 DEF Complete, Stored
<1>6. ASSUME NEW k \in Held PROVE CursorInv(k)'
  <2>1. k \in Cursors /\ k.cutoff \in Nat /\ k.commits \in SUBSET Commits /\ CursorInv(k)
    BY <1>2 DEF Cursors, KeptInv
  <2>2. o \in Puts => started[o] > k.cutoff
    BY <1>1, <2>1, GcBoundsAssumption, SMT DEF CursorInv, Types, TypeOK
  <2>3. k.phase = "mark" =>
           \A c \in Reach' : Recent(c, k)' \/ \E d \in k.commits : c \in Ancestors(d)'
    BY <1>1, <1>2, <1>3, <2>1, <2>2 DEF CursorInv, Recent
  <2>4. k.phase = "scan" => \A c \in Reach' : Recent(c, k)' \/ c \in k.commits
    BY <1>1, <1>3, <2>1, <2>2 DEF CursorInv, Recent
  <2>5. ASSUME NEW x \in k.candidates
        PROVE  /\ x.path \notin Reach'
               /\ \A p \in Puts : x.path \in {p, PayloadOf[p]} =>
                     pc'[p] \notin Unstarted /\ started'[p] <= k.cutoff /\ p \notin Reach'
    <3>1. \A p \in Puts : x.path \in {p, PayloadOf[p]} =>
             pc[p] \notin Unstarted /\ started[p] <= k.cutoff /\ p \notin Reach
      BY <2>1, <2>5 DEF CursorInv
    <3>2. \A p \in Puts : started[p] <= k.cutoff => ~(p = o)
      BY <2>1, <2>2, SMT DEF Types, TypeOK, Ops
    <3>3. x.path \notin Reach'
      BY <1>3, <2>1, <2>5, <3>1, <3>2 DEF CursorInv
    <3> QED
      BY <1>1, <1>3, <3>1, <3>2, <3>3
  <2> QED
    BY <1>1, <1>2, <2>1, <2>3, <2>4, <2>5 DEF CursorInv
<1> QED
  BY <1>2, <1>5, <1>6

\* What a cursor has marked and found depends on the branch and on the operations only.
LEMMA SameCursors ==
    ASSUME NEW k, CursorInv(k), UNCHANGED <<ref, base, pc, started, clock>>
    PROVE  CursorInv(k)'
<1>1. Settled' = Settled
  BY DEF Settled
<1>2. \A c : Ancestors(c)' = Ancestors(c)
  BY DEF Ancestors, Closed
<1>3. Reach' = Reach
  BY <1>2 DEF Reach, Sides
<1>4. \A c : Recent(c, k)' <=> Recent(c, k)
  BY DEF Recent
<1> QED
  BY <1>1, <1>2, <1>3, <1>4 DEF CursorInv

\* A worker that reads and marks.
LEMMA WorkerKeeps ==
    ASSUME Types, KeptInv, NEW w \in Workers, Moves(w),
           cursor'[w] # None => CursorInv(cursor'[w]),
           UNCHANGED <<objects, ref, base, pc, started, binding, inflight, clock>>
    PROVE  KeptInv'
<1>1. \A k \in Held' : CursorInv(k)
  BY HeldAfter DEF KeptInv
<1>2. \A k \in Held' : CursorInv(k)'
  BY <1>1, SameCursors
<1>3. Complete' /\ \A p \in Puts : PutInv(p)'
  BY DEF KeptInv, Complete, Stored, PutInv, Uploaded, Reach, Sides, Ancestors, Closed
<1> QED
  BY <1>2, <1>3 DEF KeptInv

\* The deletion of a candidate.
LEMMA DeleteKeeps ==
    ASSUME Types, KeptInv, NEW w \in Workers, Moves(w), cursor[w] \in Held,
           NEW d \in cursor[w].candidates,
           objects' = IF objects[d.path] # None /\ objects[d.path].version = d.version
                      THEN [objects EXCEPT ![d.path] = None]
                      ELSE objects,
           cursor'[w] # None => CursorInv(cursor'[w]),
           UNCHANGED <<ref, base, pc, started, binding, inflight, clock>>
    PROVE  KeptInv'
<1>1. \A k \in Held' : CursorInv(k)
  BY HeldAfter DEF KeptInv
<1>2. \A k \in Held' : CursorInv(k)'
  BY <1>1, SameCursors
<1>4. /\ cursor[w] \in Cursors /\ cursor[w].cutoff \in Nat /\ CursorInv(cursor[w])
      /\ d.path \in Paths /\ clock \in Nat
  BY SMT DEF Held, Types, TypeOK, Cursors, KeptInv
<1>5. \A p \in Paths :
         objects'[p] \in {objects[p], None} /\ (p # d.path => objects'[p] = objects[p])
  BY <1>4 DEF Types, TypeOK
<1>6. d.path \notin Reach /\ \A p \in Puts : d.path \in {p, PayloadOf[p]} =>
                          p \notin Reach /\ started[p] <= cursor[w].cutoff
  BY <1>4 DEF CursorInv
<1>7. Complete'
  <2>1. Reach' = Reach /\ Reach \subseteq Commits
    BY DEF Reach, Sides, Ancestors, Closed
  <2>2. \A c \in Reach :
           /\ objects'[c] = objects[c]
           /\ c \in Puts => objects'[PayloadOf[c]] = objects[PayloadOf[c]]
    BY <1>5, <1>6, <2>1, PathsOf DEF Commits, Paths
  <2> QED
    BY <2>1, <2>2 DEF KeptInv, Complete, Stored
<1>8. ASSUME NEW p \in Puts PROVE PutInv(p)'
  <2>1. p \in Paths /\ PayloadOf[p] \in Paths /\ PutInv(p) /\ started[p] \in Nat
    BY PathsOf DEF KeptInv, Types, TypeOK
  <2>2. CASE d.path \in {p, PayloadOf[p]}
    <3>1. ~(clock < started[p] + Grace)
      BY <1>4, <1>6, <2>1, <2>2, GcBoundsAssumption, SMT DEF CursorInv
    <3>2. /\ objects'[p] \in {objects[p], None}
          /\ objects'[PayloadOf[p]] \in {objects[PayloadOf[p]], None}
      BY <1>5, <2>1
    <3> QED
      BY <2>1, <3>1, <3>2 DEF PutInv
  <2>3. CASE d.path \notin {p, PayloadOf[p]}
    <3>1. objects'[p] = objects[p] /\ objects'[PayloadOf[p]] = objects[PayloadOf[p]]
      BY <1>5, <2>1, <2>3
    <3> QED
      BY <2>1, <3>1 DEF PutInv, Uploaded
  <2> QED
    BY <2>2, <2>3
<1> QED
  BY <1>2, <1>7, <1>8 DEF KeptInv

\* A cursor that marks and finds no more than another.
LEMMA Continues ==
    ASSUME NEW j, NEW k, CursorInv(j), k.cutoff = j.cutoff, k.commits = j.commits,
           k.candidates \subseteq j.candidates,
           k.phase \in {"mark", "scan"} => k.phase = j.phase
    PROVE  CursorInv(k)
BY DEF CursorInv, Recent

\* gc_discover_refs and gc_mark_commits: the roots, and all they reach.
LEMMA DiscoverMarks ==
    ASSUME Types, Based, NEW j \in Cursors, CursorInv(j)
    PROVE  /\ CursorInv([j EXCEPT !.commits = {ref.target, ref.previous} \ {None},
                                  !.phase = "mark"])
           /\ j.phase = "mark" =>
                 CursorInv([j EXCEPT !.commits = UNION {Ancestors(c) : c \in j.commits},
                                     !.phase = "scan"])
<1>1. ref.target \in Settled /\ ref.target # None /\ ref.previous \in Settled \cup {None}
  BY OpsGcAssumption DEF Based, Types, TypeOK, RefValues, Paths
<1>2. CursorInv([j EXCEPT !.commits = {ref.target, ref.previous} \ {None}, !.phase = "mark"])
  <2> DEFINE k == [j EXCEPT !.commits = {ref.target, ref.previous} \ {None}, !.phase = "mark"]
  <2>1. /\ k.commits = {ref.target, ref.previous} \ {None} /\ k.phase = "mark"
        /\ k.cutoff = j.cutoff /\ k.candidates = j.candidates
    BY DEF Cursors
  <2> HIDE DEF k
  <2>2. \A c \in Reach : \E d \in k.commits : c \in Ancestors(d)
    BY <1>1, <2>1 DEF Reach, Sides
  <2>3. CursorInv(k)
    BY <1>1, <2>1, <2>2 DEF CursorInv
  <2> QED
    BY <2>3 DEF k
<1>3. ASSUME j.phase = "mark"
      PROVE  CursorInv([j EXCEPT !.commits = UNION {Ancestors(c) : c \in j.commits},
                                 !.phase = "scan"])
  <2> DEFINE cs == UNION {Ancestors(c) : c \in j.commits}
             k == [j EXCEPT !.commits = cs, !.phase = "scan"]
  <2>1. /\ k.commits = cs /\ k.phase = "scan"
        /\ k.cutoff = j.cutoff /\ k.candidates = j.candidates
    BY DEF Cursors
  <2>2. cs \subseteq Settled
    BY Basing DEF CursorInv
  <2>3. \A c \in Reach : Recent(c, j) \/ c \in cs
    BY <1>3 DEF CursorInv
  <2> HIDE DEF cs, k
  <2>4. CursorInv(k)
    BY <2>1, <2>2, <2>3 DEF CursorInv, Recent
  <2> QED
    BY <2>4 DEF k, cs
<1> QED
  BY <1>2, <1>3

\* gc_scan_candidates: what is old and not marked is not reached.
LEMMA ScanFinds ==
    ASSUME Types, Based, KeptInv, NEW j \in Cursors, CursorInv(j), j.phase = "scan",
           NEW q \in Paths, objects[q] # None, objects[q].modified <= j.cutoff,
           ~Marked(j, q, objects[q].version)
    PROVE  /\ q \notin Reach
           /\ \A p \in Puts : q \in {p, PayloadOf[p]} =>
                 pc[p] \notin Unstarted /\ started[p] <= j.cutoff /\ p \notin Reach
<1>1. \A c \in Reach : Recent(c, j) \/ c \in j.commits
  BY DEF CursorInv
<1>3. ASSUME NEW p \in Puts, q \in {p, PayloadOf[p]}
      PROVE  pc[p] \notin Unstarted /\ started[p] <= j.cutoff /\ p \notin Reach
  <2>1. /\ PutInv(p) /\ p \in Ops /\ started[p] \in Nat
        /\ objects[q].modified \in Nat /\ j.cutoff \in Nat
    <3>1. PutInv(p)
      BY DEF KeptInv
    <3>2. p \in Ops /\ started[p] \in Nat
      BY DEF Ops, Types, TypeOK
    <3>3. objects[q].modified \in Nat
      BY DEF Types, TypeOK, Objects
    <3>4. j.cutoff \in Nat
      BY DEF Cursors
    <3> QED
      BY <3>1, <3>2, <3>3, <3>4
  <2>2. pc[p] \notin Unstarted
    BY <1>3, <2>1 DEF PutInv, Unstarted, Unbased
  <2>3. started[p] <= objects[q].modified
    BY <1>3, <2>1 DEF PutInv
  <2>4. started[p] <= j.cutoff
    BY <2>1, <2>3, SMT
  <2>5. p \notin Reach
    <3>1. SUFFICES ASSUME p \in Reach PROVE FALSE
      OBVIOUS
    <3>2. p \in j.commits
      BY <1>1, <2>1, <2>4, <3>1, SMT DEF Recent
    <3>3. objects[PayloadOf[p]].version = binding[p]
      BY <3>1 DEF KeptInv, Complete, Stored
    <3> QED
      BY <1>3, <3>2, <3>3 DEF Marked
  <2> QED
    BY <2>2, <2>4, <2>5
<1>4. q \notin Reach
  BY <1>1, <1>3 DEF Recent, Marked
<1> QED
  BY <1>3, <1>4

\* The steps of the collector.
LEMMA GcKeeps ==
    ASSUME Types, Based, KeptInv, NEW w \in Workers,
           CollectorStep(w)
    PROVE  KeptInv'
<1>1. /\ cursor \in [Workers -> Cursors \cup {None}]
      /\ task \in [Workers -> {"idle", "open", "save", "run"}]
      /\ checkpoint \in [Epochs -> Cursors \cup {None}]
      /\ cursor[w] # None => cursor[w] \in Held /\ CursorInv(cursor[w])
      /\ \A e \in Epochs : checkpoint[e] # None => CursorInv(checkpoint[e])
  BY DEF Types, TypeOK, Held, KeptInv
<1>2. CASE \/ StartGc(w) \/ CloseAdmission(w) \/ Save(w) \/ Refused(w) \/ Restore(w)
           \/ AbandonGc(w) \/ AbandonIncomplete(w) \/ Resume(w) \/ CrashWorker(w)
  <2>1. UNCHANGED <<objects, ref, base, pc, started, binding, inflight, clock>>
    BY <1>2
    DEF StartGc, CloseAdmission, Save, Refused, Restore, AbandonGc, AbandonIncomplete, GivesUp,
        Resume, CrashWorker, store, writers
  <2>2. CASE StartGc(w)
    <3> DEFINE k == NewCursor(epochs + 1)
    <3>1. CursorInv(k)
      BY <2>2, GcBoundsAssumption, SMT DEF StartGc, NewCursor, CursorInv, Types, TypeOK
    <3>2. /\ cursor' = [cursor EXCEPT ![w] = k] /\ task' = [task EXCEPT ![w] = "open"]
          /\ checkpoint' = checkpoint
      BY <2>2 DEF StartGc, Do
    <3> HIDE DEF k
    <3> QED
      BY <1>1, <2>1, <3>1, <3>2, WorkerKeeps DEF Moves
  <2>3. CASE Save(w)
    <3>1. /\ cursor[w] \in Cursors /\ cursor' = cursor
          /\ checkpoint' = [checkpoint EXCEPT ![cursor[w].epoch] = cursor[w]]
          /\ task' \in {[task EXCEPT ![w] = "idle"], [task EXCEPT ![w] = "run"]}
      BY <2>3 DEF Save, Do, Types, Busy
    <3> QED
      BY <1>1, <2>1, <3>1, WorkerKeeps DEF Moves
  <2>4. CASE Resume(w)
    <3>1. coordinator.epoch \in Epochs /\ checkpoint[coordinator.epoch] # None
      BY <2>4 DEF Resume, Types, TypeOK
    <3>2. /\ cursor' = [cursor EXCEPT ![w] = checkpoint[coordinator.epoch]]
          /\ task' = [task EXCEPT ![w] = "run"] /\ checkpoint' = checkpoint
      BY <2>4 DEF Resume, Do
    <3> QED
      BY <1>1, <2>1, <3>1, <3>2, WorkerKeeps DEF Moves
  <2>5. CASE \/ CloseAdmission(w) \/ Refused(w) \/ Restore(w) \/ AbandonGc(w)
             \/ AbandonIncomplete(w) \/ CrashWorker(w)
    <3>1. /\ checkpoint' = checkpoint
          /\ \A v \in Workers \ {w} : cursor'[v] = cursor[v] /\ task'[v] = task[v]
          /\ cursor'[w] \in {None, cursor[w]}
      BY <1>1, <2>5
      DEF CloseAdmission, Refused, Stops, Restore, AbandonGc, AbandonIncomplete, GivesUp,
          CrashWorker, Do
    <3> QED
      BY <1>1, <2>1, <3>1, WorkerKeeps DEF Moves
  <2> QED
    BY <1>2, <2>2, <2>3, <2>4, <2>5
<1>3. ASSUME NEW phase, Runs(w, phase), NEW k \in Cursors, k.epoch = cursor[w].epoch, Page(w, k),
             CursorInv(k),
             UNCHANGED <<objects, ref, base, pc, started, binding, inflight, clock>>
      PROVE  KeptInv'
  BY <1>3, PageMoves, WorkerKeeps
<1>4. ASSUME NEW phase, Runs(w, phase)
      PROVE  /\ cursor[w] \in Cursors /\ cursor[w] \in Held
             /\ CursorInv(cursor[w]) /\ cursor[w].phase = phase
  BY <1>1, <1>4, RunsTypes, NoneGcAssumption DEF Runs
<1>5. CASE Drain(w)
  <2> DEFINE k == [cursor[w] EXCEPT !.drained = TRUE]
  <2>1. Runs(w, "discover") /\ Page(w, k)
        /\ UNCHANGED <<objects, ref, base, pc, started, binding, inflight, clock>>
    BY <1>5 DEF Drain, store
  <2>2. cursor[w] \in Cursors /\ CursorInv(cursor[w])
    BY <1>4, <2>1
  <2>3. /\ k \in Cursors /\ k.epoch = cursor[w].epoch /\ k.cutoff = cursor[w].cutoff
        /\ k.commits = cursor[w].commits /\ k.candidates = cursor[w].candidates
        /\ k.phase = cursor[w].phase
    BY <2>2 DEF Cursors
  <2> HIDE DEF k
  <2>4. CursorInv(k)
    BY <2>2, <2>3, Continues
  <2> QED
    BY <1>3, <2>1, <2>3, <2>4
<1>6. CASE Discover(w)
  <2> DEFINE k == [cursor[w] EXCEPT !.commits = {ref.target, ref.previous} \ {None},
                                    !.phase = "mark"]
  <2>1. Runs(w, "discover") /\ Page(w, k)
        /\ UNCHANGED <<objects, ref, base, pc, started, binding, inflight, clock>>
    BY <1>6 DEF Discover, store, writers
  <2>2. cursor[w] \in Cursors /\ CursorInv(cursor[w])
    BY <1>4, <2>1
  <2>3. k \in Cursors /\ k.epoch = cursor[w].epoch
    BY <2>2 DEF Cursors, Phases, Types, TypeOK, RefValues
  <2>4. CursorInv(k)
    BY <2>2, DiscoverMarks
  <2> HIDE DEF k
  <2> QED
    BY <1>3, <2>1, <2>3, <2>4
<1>7. CASE Mark(w)
  <2> DEFINE closure == UNION {Ancestors(c) : c \in cursor[w].commits}
             k == [cursor[w] EXCEPT !.commits = closure, !.phase = "scan"]
  <2>1. Runs(w, "mark") /\ Page(w, k)
        /\ UNCHANGED <<objects, ref, base, pc, started, binding, inflight, clock>>
    BY <1>7 DEF Mark, store, writers
  <2>2. cursor[w] \in Cursors /\ CursorInv(cursor[w]) /\ cursor[w].phase = "mark"
    BY <1>4, <2>1
  <2>3. CursorInv(k)
    BY <2>2, DiscoverMarks
  <2>4. closure \in SUBSET Commits
    BY DEF Ancestors
  <2> HIDE DEF closure
  <2>5. k \in Cursors /\ k.epoch = cursor[w].epoch
    BY <2>2, <2>4 DEF Cursors, Phases
  <2> HIDE DEF k
  <2> QED
    BY <1>3, <2>1, <2>3, <2>5
<1>8. CASE Scan(w)
  <2> DEFINE old == {q \in Paths : /\ objects[q] # None
                                   /\ objects[q].modified <= cursor[w].cutoff
                                   /\ ~Marked(cursor[w], q, objects[q].version)}
             found == {[path |-> p, version |-> objects[p].version] : p \in old}
             k == [cursor[w] EXCEPT !.candidates = found, !.phase = "sweep"]
  <2>1. Runs(w, "scan") /\ Page(w, k)
        /\ UNCHANGED <<objects, ref, base, pc, started, binding, inflight, clock>>
    BY <1>8 DEF Scan, store, writers
  <2>2. cursor[w] \in Cursors /\ CursorInv(cursor[w]) /\ cursor[w].phase = "scan"
    BY <1>4, <2>1
  <2>3. \A x \in found :
           /\ x.path \notin Reach
           /\ \A p \in Puts : x.path \in {p, PayloadOf[p]} =>
                 pc[p] \notin Unstarted /\ started[p] <= cursor[w].cutoff /\ p \notin Reach
    BY <2>2, ScanFinds, SMT
  <2>4. found \in SUBSET [path : Paths, version : Nat]
    BY SMT DEF Types, TypeOK, Objects
  <2> HIDE DEF found
  <2>5. /\ k \in Cursors /\ k.epoch = cursor[w].epoch /\ k.cutoff = cursor[w].cutoff
        /\ k.commits = cursor[w].commits /\ k.candidates = found /\ k.phase = "sweep"
    BY <2>2, <2>4 DEF Cursors, Phases
  <2> HIDE DEF k
  <2>6. CursorInv(k)
    BY <2>2, <2>3, <2>5 DEF CursorInv
  <2> QED
    BY <1>3, <2>1, <2>5, <2>6
<1>9. CASE Sweep(w)
  <2>1. Runs(w, "sweep") /\ UNCHANGED <<ref, base, pc, started, binding, inflight, clock>>
    BY <1>9 DEF Sweep, writers
  <2>2. cursor[w] \in Cursors /\ cursor[w] \in Held /\ CursorInv(cursor[w])
    BY <1>4, <2>1
  <2>3. ASSUME NEW d \in cursor[w].candidates, Delete(w, d) PROVE KeptInv'
    <3> DEFINE k == [cursor[w] EXCEPT !.candidates = @ \ {d}]
    <3>1. /\ k \in Cursors /\ k.cutoff = cursor[w].cutoff
          /\ k.commits = cursor[w].commits /\ k.candidates \subseteq cursor[w].candidates
          /\ k.phase = cursor[w].phase
      BY <2>2 DEF Cursors
    <3>2. cursor' = [cursor EXCEPT ![w] = k]
      BY <2>3 DEF Delete
    <3>3. task' = [task EXCEPT ![w] = "save"] /\ checkpoint' = checkpoint
      BY <2>3 DEF Delete, Do
    <3> HIDE DEF k
    <3>4. Moves(w) /\ cursor'[w] = k
      BY <1>1, <3>2, <3>3 DEF Moves
    <3>5. CursorInv(k)
      BY <2>2, <3>1, Continues
    <3>6. objects' = IF objects[d.path] # None /\ objects[d.path].version = d.version
                     THEN [objects EXCEPT ![d.path] = None]
                     ELSE objects
      BY <2>3 DEF Delete
    <3> QED
      BY <2>1, <2>2, <3>4, <3>5, <3>6, DeleteKeeps
  <2>4. ASSUME Page(w, [cursor[w] EXCEPT !.phase = "cleanup"]), UNCHANGED objects PROVE KeptInv'
    <3> DEFINE k == [cursor[w] EXCEPT !.phase = "cleanup"]
    <3>1. /\ k \in Cursors /\ k.epoch = cursor[w].epoch /\ k.cutoff = cursor[w].cutoff
          /\ k.commits = cursor[w].commits /\ k.candidates = cursor[w].candidates
          /\ k.phase = "cleanup"
      BY <2>2 DEF Cursors, Phases
    <3>2. Page(w, k)
      BY <2>4
    <3> HIDE DEF k
    <3>3. CursorInv(k)
      BY <2>2, <3>1, Continues
    <3> QED
      BY <1>3, <2>1, <2>4, <3>1, <3>2, <3>3
  <2> QED
    BY <1>9, <2>3, <2>4 DEF Sweep
<1>11. CASE Cleanup(w) /\ coordinator.epoch \notin {None, active[w]}
  <2>1. /\ cursor' = [cursor EXCEPT ![w] = None] /\ task' = [task EXCEPT ![w] = "idle"]
        /\ UNCHANGED <<checkpoint, objects, ref, base, pc, started, binding, inflight, clock>>
    BY <1>11 DEF Cleanup, Stops, Do, store, writers
  <2> QED
    BY <1>1, <2>1, WorkerKeeps DEF Moves
<1>10. CASE Cleanup(w) /\ coordinator.epoch \in {None, active[w]}
  <2> DEFINE k == [cursor[w] EXCEPT !.phase = "complete"]
  <2>1. /\ Runs(w, "cleanup")
        /\ UNCHANGED <<objects, ref, base, pc, started, binding, inflight, clock>>
    BY <1>10 DEF Cleanup, store, writers
  <2>2. cursor[w] \in Cursors /\ CursorInv(cursor[w])
    BY <1>4, <2>1
  <2>3. /\ k.cutoff = cursor[w].cutoff /\ k.commits = cursor[w].commits
        /\ k.candidates = cursor[w].candidates /\ k.phase = "complete"
    BY <2>2 DEF Cursors
  <2>4. cursor' = [cursor EXCEPT ![w] = k]
    BY <1>10 DEF Cleanup
  <2>5. task' = [task EXCEPT ![w] = "save"] /\ checkpoint' = checkpoint
    BY <1>10 DEF Cleanup, Do
  <2> HIDE DEF k
  <2>6. Moves(w) /\ cursor'[w] = k
    BY <1>1, <2>4, <2>5 DEF Moves
  <2>7. CursorInv(k)
    BY <2>2, <2>3, Continues
  <2> QED
    BY <2>1, <2>6, <2>7, WorkerKeeps
<1> QED
  BY <1>2, <1>5, <1>6, <1>7, <1>8, <1>9, <1>10, <1>11
  DEF CollectorStep, WorkerStep

LEMMA GcInit == Init => GcInv
<1> SUFFICES ASSUME Init PROVE GcInv
  OBVIOUS
<1>1. /\ Types /\ Held = {} /\ Root \in Commits /\ Root \notin Puts /\ Root # None
      /\ ref.target = Root /\ ref.previous = None
  BY TypesInit, OpsGcAssumption DEF Init, Held, Commits, Paths, Ops
<1>2. Reach \subseteq {Root}
  <2>1. Closed({Root})
    BY <1>1 DEF Closed
  <2>2. Ancestors(Root) \subseteq {Root}
    BY <1>1, <2>1, AncestorsLeast
  <2> QED
    BY <1>1, <2>2 DEF Reach, Sides
<1>3. ASSUME NEW p \in Puts
      PROVE  /\ objects[p] = None /\ objects[PayloadOf[p]] = None /\ pc[p] = "idle"
             /\ p \notin inflight /\ started[p] <= clock
  <2>1. p \in Ops /\ p \in Paths /\ PayloadOf[p] \in Paths /\ p # Root /\ PayloadOf[p] # Root
    BY PathsOf
  <2> QED
    BY <2>1, SMT DEF Init
<1>4. Based
  <2>1. \A o \in Ops : BaseInv(o)
    BY DEF Init, BaseInv, Unbased
  <2> QED
    BY <1>1, <1>3, <2>1 DEF Init, Based, Settled, Ops
<1>5. \A p \in Puts : PutInv(p)
  BY <1>3 DEF PutInv
<1>6. Complete
  <2>1. objects[Root] # None
    BY <1>1, NoneGcAssumption, SMT DEF Init, Objects, Paths
  <2> QED
    BY <1>1, <1>2, <2>1 DEF Complete, Stored
<1> QED
  BY <1>1, <1>4, <1>5, <1>6 DEF GcInv, KeptInv

LEMMA GcStep == ASSUME Distinct PROVE Types /\ GcInv /\ [Next]_vars => GcInv'
<1> SUFFICES ASSUME Types, Based, ResetsKept => KeptInv, [Next]_vars PROVE GcInv'
  BY DEF GcInv
<1>1. CASE Tick \/ UNCHANGED vars
  <2>1. /\ UNCHANGED <<objects, ref, base, goal, pc, started, binding, inflight, cursor, checkpoint>>
        /\ clock' = clock \/ clock' = clock + 1
    BY <1>1 DEF Tick, vars, store, writers, workers
  <2>2. /\ Reach' = Reach /\ Settled' = Settled /\ \A c \in Settled : Ancestors(c)' = Ancestors(c)
        /\ Held' = Held /\ Held \subseteq Cursors
    BY <2>1, SMT DEF Reach, Sides, Settled, Ancestors, Closed, Held, Types, TypeOK
  <2>3. Based'
    BY <2>1, BasedKept
  <2>4. ASSUME ResetsKept' PROVE KeptInv'
    <3>1. KeptInv
      BY <2>1, <2>4 DEF ResetsKept, Ancestors, Closed
    <3>2. \A k \in Held' : CursorInv(k)'
      BY <2>1, <2>2, <3>1, CursorKept DEF KeptInv
    <3>3. ASSUME NEW p \in Puts PROVE PutInv(p)'
      <4>1. PutInv(p) /\ started[p] \in Nat /\ clock \in Nat
        BY <3>1, PathsOf, SMT DEF KeptInv, Types, TypeOK
      <4>2. started[p] <= clock => started[p] <= clock'
        BY <2>1, <4>1, SMT
      <4>3. clock' < started[p] + Grace => clock < started[p] + Grace
        BY <2>1, <4>1, GcBoundsAssumption, SMT
      <4> QED
        BY <2>1, <4>1, <4>2, <4>3 DEF PutInv, Uploaded
    <3>4. Complete'
      BY <2>1, <2>2, <3>1 DEF KeptInv, Complete, Stored
    <3> QED
      BY <3>2, <3>3, <3>4 DEF KeptInv
  <2> QED
    BY <2>3, <2>4 DEF GcInv
<1>2. ASSUME NEW o \in Ops, WriterStep(o) PROVE GcInv'
  <2>1. Based'
    BY <1>2, WriterBased
  <2>2. ASSUME ResetsKept' PROVE KeptInv'
    <3>1. ResetsKept /\ KeptInv
      BY <1>2, <2>2, BasesKept, KeptBefore
    <3>2. \A p \in Puts : PutInv(p)'
      BY <1>2, <3>1, WriterPuts DEF KeptInv
    <3>3. Complete' /\ \A k \in Held' : CursorInv(k)'
      BY <1>2, <3>1, Unmoved, ExecuteMoves
    <3> QED
      BY <3>2, <3>3 DEF KeptInv
  <2> QED
    BY <2>1, <2>2 DEF GcInv
<1>3. ASSUME NEW w \in Workers, CollectorStep(w) PROVE GcInv'
  <2>1. Based' /\ UNCHANGED <<base, goal>>
    BY <1>3, CollectorBased
  <2>2. ASSUME ResetsKept' PROVE KeptInv'
    <3>1. KeptInv
      BY <2>1, <2>2, KeptBefore
    <3> QED
      BY <1>3, <3>1, GcKeeps
  <2> QED
    BY <2>1, <2>2 DEF GcInv
<1> QED
  BY <1>1, <1>2, <1>3, Steps

\* The collector never deletes what the branch reaches (sweep_gc), for every number of
\* operations, workers and epochs, under two conditions.  Different puts upload different
\* payloads: put_immutable keeps the age of a payload that is already stored, so a put
\* could otherwise bind one that is about to be deleted.  And no reset went to a commit
\* that the branch had left behind (ClosureComplete, reset_branch).
THEOREM CollectorKeepsClosure ==
    ASSUME \A p, q \in Puts : PayloadOf[p] = PayloadOf[q] => p = q
    PROVE  Spec => []ClosureComplete
<1>1. Distinct
  BY DEF Distinct
<1>2. Init => Types /\ GcInv
  BY TypesInit, GcInit
<1>3. Types /\ GcInv /\ [Next]_vars => (Types /\ GcInv)'
  BY <1>1, TypesStep, GcStep
<1>4. GcInv => ClosureComplete
  BY DEF GcInv, KeptInv, Complete, ClosureComplete, Reach, Sides, Ancestors
<1> QED
  BY <1>2, <1>3, <1>4, PTL DEF Spec
=============================================================================
