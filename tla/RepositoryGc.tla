---------------------------- MODULE RepositoryGc ----------------------------
(***************************************************************************)
(* Garbage collection of a repository of the S3 extension beside its       *)
(* writers (extensions/s3/core/src/repository.rs, payload.rs).             *)
(*                                                                         *)
(* A writer uploads a payload, stores a commit that binds its physical     *)
(* version, takes a publication ticket, reads the collector's coordinator  *)
(* and replaces the branch ref.  A worker closes admission in the          *)
(* coordinator, waits for the tickets, marks what the ref reaches, lists   *)
(* what is old and unmarked and deletes it, page by page, each page being  *)
(* saved in a durable cursor.  Workers run in processes of their own and   *)
(* may die.  A writer that dies takes no further step: its uploads, its    *)
(* ticket and what it sent stay behind, and nothing makes a writer go on.  *)
(* A write of the coordinator or of the ref may take effect although its   *)
(* caller was told that it failed; one of the ref may also reach the store *)
(* after that.                                                             *)
(*                                                                         *)
(* A reset moves the branch to any commit that is stored, reachable or     *)
(* not; nobody asks it whether admission is open before its ticket is.     *)
(* A commit stands for itself and the nodes packed with it.                *)
(***************************************************************************)
EXTENDS Naturals, FiniteSets

CONSTANTS
    Puts,           \* operations that upload a payload and publish it
    Resets,         \* operations that move the branch to a stored commit
    PayloadOf,      \* PayloadOf[p]: the content that put p uploads
    Workers,        \* maintenance processes
    Root, None,     \* the root commit; no value
    Grace,          \* grace_millis of every epoch
    TicketTicks,    \* ticket_ttl_millis
    MaxClock, MaxEpochs, MaxFaults   \* bounds

Ops == Puts \cup Resets
Payloads == {PayloadOf[p] : p \in Puts}
Commits == Puts \cup {Root}
Paths == Payloads \cup Commits

ASSUME OpsGcAssumption ==
    /\ Puts \cap Resets = {} /\ Root \notin Ops \cup Payloads /\ None \notin Ops \cup Paths
    /\ Payloads \cap Commits = {}
ASSUME GcBoundsAssumption ==
    /\ Grace \in Nat \ {0} /\ TicketTicks \in Nat \ {0}
    /\ MaxClock \in Nat /\ MaxEpochs \in Nat /\ MaxFaults \in Nat

VARIABLES
    objects,      \* objects[p]: [version, modified] of the object at path p, or None
    versions,     \* versions[p]: how many versions path p has had
    ref,          \* the branch: [target, previous, token]
    pc,           \* where each operation is
    started,      \* started[o]: when operation o began
    binding,      \* binding[p]: the payload version put p bound
    base,         \* base[o]: the ref that operation o read
    goal,         \* goal[r]: the commit that reset r names
    tickets,      \* operations whose publication ticket is stored
    expires,      \* expires[o]: when the ticket of operation o expires
    inflight,     \* operations whose ref write may still reach the store
    coordinator,  \* [epoch, generation]; epoch None: admission is open
    checkpoint,   \* checkpoint[e]: the durable cursor of epoch e, or None
    active,       \* active[w]: active_gc_epoch of process w
    task,         \* task[w]: what worker w is doing
    cursor,       \* cursor[w]: the cursor it holds
    seen,         \* seen[w]: the coordinator generation it read
    clock, epochs, faults

writers == <<pc, started, binding, base, goal, tickets, expires, inflight>>
store == <<objects, versions, ref>>
workers == <<active, task, cursor, seen>>
vars == <<store, writers, coordinator, checkpoint, workers, clock, epochs, faults>>

Epochs == 1 .. MaxEpochs

Labels == {"idle", "admitted", "staged", "load", "commit", "check", "ticket", "admit", "sent",
           "over"}
Phases == {"discover", "mark", "scan", "sweep", "cleanup", "complete"}

\* An object of a path; the value of the ref; a GcCursor.
Objects == [version : Nat, modified : Nat]
RefValues == [target : Commits, previous : Commits \cup {None}, token : Nat]
Cursors == [epoch : Epochs, cutoff : Nat, phase : Phases, drained : BOOLEAN,
            commits : SUBSET Commits, candidates : SUBSET [path : Paths, version : Nat]]

ASSUME NoneGcAssumption == None \notin Objects \cup RefValues \cup Cursors \cup Epochs

Init ==
    /\ objects = [p \in Paths |-> IF p = Root THEN [version |-> 1, modified |-> 0] ELSE None]
    /\ versions = [p \in Paths |-> IF p = Root THEN 1 ELSE 0]
    /\ ref = [target |-> Root, previous |-> None, token |-> 0]
    /\ pc = [o \in Ops |-> "idle"]
    /\ started = [o \in Ops |-> 0]
    /\ binding = [p \in Puts |-> 0]
    /\ base = [o \in Ops |-> None]
    /\ goal = [r \in Resets |-> None]
    /\ tickets = {}
    /\ expires = [o \in Ops |-> 0]
    /\ inflight = {}
    /\ coordinator = [epoch |-> None, generation |-> 0]
    /\ checkpoint = [e \in Epochs |-> None]
    /\ active = [w \in Workers |-> None]
    /\ task = [w \in Workers |-> "idle"]
    /\ cursor = [w \in Workers |-> None]
    /\ seen = [w \in Workers |-> 0]
    /\ clock = 0 /\ epochs = 0 /\ faults = 0

-----------------------------------------------------------------------------
(* Writers *)

\* A set of commits with the bases that their publications read.
Closed(cs) == \A q \in cs \cap Puts : base[q] # None => base[q].target \in cs

\* The commits reachable from commit c: the least such set with c.
Ancestors(c) ==
    {d \in Commits : \A cs \in SUBSET Commits : c \in cs /\ Closed(cs) => d \in cs}

Goto(o, label) == pc' = [pc EXCEPT ![o] = label]

\* An operation that returned; nothing refers to its ticket any more.
Over(o) == Goto(o, "over") /\ expires' = [expires EXCEPT ![o] = 0]

\* put_immutable: equal bytes that are there already keep their version and age.
PutImmutable(p) ==
    IF objects[p] = None
    THEN /\ versions' = [versions EXCEPT ![p] = @ + 1]
         /\ objects' = [objects EXCEPT ![p] = [version |-> versions[p] + 1, modified |-> clock]]
    ELSE UNCHANGED <<versions, objects>>

\* The payload enters the object plane: at the start of a staged put, after the
\* admission check of a put_object.
Upload(p) ==
    /\ pc[p] \in {"idle", "admitted"}
    /\ PutImmutable(PayloadOf[p])
    /\ binding' = [binding EXCEPT ![p] = versions'[PayloadOf[p]]]
    /\ started' = [started EXCEPT ![p] = clock]
    /\ Goto(p, IF pc[p] = "idle" THEN "staged" ELSE "load")
    /\ UNCHANGED <<ref, base, goal, tickets, expires, inflight, coordinator, checkpoint, workers,
                   clock, epochs, faults>>

\* reset_branch: the commit it names must be stored; what it reaches is not looked at.
BeginReset(r, c) ==
    /\ pc[r] = "idle"
    /\ objects[c] # None
    /\ goal' = [goal EXCEPT ![r] = c]
    /\ started' = [started EXCEPT ![r] = clock]
    /\ Goto(r, "load")
    /\ UNCHANGED <<store, binding, base, tickets, expires, inflight, coordinator, checkpoint, workers,
                   clock, epochs, faults>>

AdmissionOpen == coordinator.epoch = None

\* require_publication_admission_open: before a put_object uploads, before a
\* session reads the ref.
Admission(p) ==
    /\ pc[p] \in {"idle", "staged"}
    /\ IF AdmissionOpen
       THEN /\ Goto(p, IF pc[p] = "idle" THEN "admitted" ELSE "load")
            /\ UNCHANGED expires
       ELSE Over(p)
    /\ UNCHANGED <<store, started, binding, base, goal, tickets, inflight, coordinator, checkpoint,
                   workers, clock, epochs, faults>>

\* A reset that does not expect this head is refused, and changes nothing.
Load(o) ==
    /\ pc[o] = "load"
    /\ base' = [base EXCEPT ![o] = ref]
    /\ Goto(o, IF o \in Puts THEN "commit" ELSE "check")
    /\ UNCHANGED <<store, started, binding, goal, tickets, expires, inflight, coordinator, checkpoint,
                   workers, clock, epochs, faults>>

StoreCommit(p) ==
    /\ pc[p] = "commit"
    /\ PutImmutable(p)
    /\ Goto(p, "ticket")
    /\ UNCHANGED <<ref, started, binding, base, goal, tickets, expires, inflight, coordinator,
                   checkpoint, workers, clock, epochs, faults>>

\* move_target reads the commit again.
Check(r) ==
    /\ pc[r] = "check"
    /\ IF objects[goal[r]] # None THEN Goto(r, "ticket") /\ UNCHANGED expires ELSE Over(r)
    /\ UNCHANGED <<store, started, binding, base, goal, tickets, inflight, coordinator, checkpoint,
                   workers, clock, epochs, faults>>

\* before_compare_exchange: the ticket is stored before the coordinator is read.
TakeTicket(o) ==
    /\ pc[o] = "ticket" /\ clock + TicketTicks <= MaxClock
    /\ tickets' = tickets \cup {o}
    /\ expires' = [expires EXCEPT ![o] = clock + TicketTicks]
    /\ Goto(o, "admit")
    /\ UNCHANGED <<store, started, binding, base, goal, inflight, coordinator, checkpoint, workers,
                   clock, epochs, faults>>

Release(o) == tickets' = tickets \ {o}

Admit(o) ==
    /\ pc[o] = "admit"
    /\ IF AdmissionOpen
       THEN /\ inflight' = inflight \cup {o}
            /\ Goto(o, "sent")
            /\ UNCHANGED <<tickets, expires>>
       ELSE /\ Release(o)
            /\ Over(o)
            /\ UNCHANGED inflight
    /\ UNCHANGED <<store, started, binding, base, goal, coordinator, checkpoint, workers,
                   clock, epochs, faults>>

\* The store executes the conditional write of the ref.  No operation stays
\* unpublished for as long as the grace period.
Execute(o) ==
    /\ o \in inflight
    /\ clock < started[o] + Grace
    /\ inflight' = inflight \ {o}
    /\ ref' = IF ref.token = base[o].token
              THEN [target |-> IF o \in Puts THEN o ELSE goal[o], previous |-> ref.target,
                    token |-> ref.token + 1]
              ELSE ref
    /\ UNCHANGED <<objects, versions, pc, started, binding, base, goal, tickets, expires, coordinator,
                   checkpoint, workers, clock, epochs, faults>>

\* after_compare_exchange, which runs on an error too: the write may still be
\* on its way when its ticket is released.
Released(o) ==
    /\ pc[o] = "sent"
    /\ \/ o \notin inflight /\ UNCHANGED faults
       \/ o \in inflight /\ faults < MaxFaults /\ faults' = faults + 1
    /\ Release(o)
    /\ Over(o)
    /\ UNCHANGED <<store, started, binding, base, goal, inflight, coordinator, checkpoint,
                   workers, clock, epochs>>

-----------------------------------------------------------------------------
(* The collector *)

Do(w, label) == task' = [task EXCEPT ![w] = label]

\* Mutants: the epoch before this one; a cutoff one tick inside the grace period.
NewCursorBefore(e) ==
    [epoch |-> e - 1, cutoff |-> clock - Grace, phase |-> "discover", drained |-> FALSE,
     commits |-> {}, candidates |-> {}]
NewCursorEager(e) ==
    [epoch |-> e, cutoff |-> (clock - Grace) + 1, phase |-> "discover", drained |-> FALSE,
     commits |-> {}, candidates |-> {}]

NewCursor(e) ==
    [epoch |-> e, cutoff |-> clock - Grace, phase |-> "discover", drained |-> FALSE,
     commits |-> {}, candidates |-> {}]

\* start_gc: the process claims the epoch, then reads the coordinator.
StartGc(w) ==
    /\ task[w] = "idle" /\ active[w] = None
    /\ epochs < MaxEpochs /\ clock >= Grace
    /\ epochs' = epochs + 1
    /\ coordinator.epoch = None
    /\ active' = [active EXCEPT ![w] = epochs + 1]
    /\ cursor' = [cursor EXCEPT ![w] = NewCursor(epochs + 1)]
    /\ seen' = [seen EXCEPT ![w] = coordinator.generation]
    /\ Do(w, "open")
    /\ UNCHANGED <<store, writers, coordinator, checkpoint, clock, faults>>

SetCoordinator(epoch) ==
    coordinator' = [epoch |-> epoch, generation |-> coordinator.generation + 1]

\* publish_gc_coordinator(Some(epoch)); an error, even of a write that took
\* effect, makes the process forget the epoch.
CloseAdmission(w) ==
    /\ task[w] = "open"
    /\ \/ /\ coordinator.generation = seen[w]
          /\ SetCoordinator(cursor[w].epoch)
          /\ \/ Do(w, "save") /\ UNCHANGED <<active, cursor, faults>>
             \/ /\ faults < MaxFaults /\ faults' = faults + 1
                /\ Do(w, "idle")
                /\ active' = [active EXCEPT ![w] = None]
                /\ cursor' = [cursor EXCEPT ![w] = None]
       \/ /\ coordinator.generation # seen[w]
          /\ Do(w, "idle")
          /\ active' = [active EXCEPT ![w] = None]
          /\ cursor' = [cursor EXCEPT ![w] = None]
          /\ UNCHANGED <<coordinator, faults>>
    /\ UNCHANGED <<store, writers, checkpoint, seen, clock, epochs>>

\* persist_gc_cursor, after a page that wrote.
Save(w) ==
    /\ task[w] = "save"
    /\ checkpoint' = [checkpoint EXCEPT ![cursor[w].epoch] = cursor[w]]
    /\ Do(w, IF cursor[w].phase = "complete" THEN "idle" ELSE "run")
    /\ UNCHANGED <<store, writers, coordinator, active, cursor, seen, clock, epochs, faults>>

\* A call that ends in an error.
Stops(w) == Do(w, "idle") /\ cursor' = [cursor EXCEPT ![w] = None]

\* validate_gc_cursor, at the start of every page: it passes, or the call is refused.
Runs(w, phase) ==
    /\ task[w] = "run" /\ active[w] = cursor[w].epoch
    /\ cursor[w].phase = phase

Refused(w) ==
    /\ task[w] = "run" /\ active[w] # cursor[w].epoch
    /\ Stops(w)
    /\ UNCHANGED <<store, writers, coordinator, checkpoint, active, seen, clock, epochs, faults>>

\* A page that only reads, and its persist_gc_cursor.
Page(w, next) ==
    /\ cursor' = [cursor EXCEPT ![w] = next]
    /\ checkpoint' = [checkpoint EXCEPT ![next.epoch] = next]
    /\ UNCHANGED <<active, task, seen>>

\* Mutant: unexpired tickets are drained too.
DrainAll(w) ==
    /\ Runs(w, "discover") /\ ~cursor[w].drained
    /\ tickets' = {}
    /\ Page(w, [cursor[w] EXCEPT !.drained = TRUE])
    /\ UNCHANGED <<store, pc, started, binding, base, goal, expires, inflight, coordinator, clock,
                   epochs, faults>>

\* gc_drain_publication_tickets: unexpired tickets hold the epoch back.
Drain(w) ==
    /\ Runs(w, "discover") /\ ~cursor[w].drained
    /\ \A o \in tickets : expires[o] <= clock
    /\ tickets' = {}
    /\ Page(w, [cursor[w] EXCEPT !.drained = TRUE])
    /\ UNCHANGED <<store, pc, started, binding, base, goal, expires, inflight, coordinator, clock,
                   epochs, faults>>

\* gc_discover_refs: both sides of the last move of the branch are roots.
Discover(w) ==
    /\ Runs(w, "discover") /\ cursor[w].drained
    /\ Page(w, [cursor[w] EXCEPT !.commits = {ref.target, ref.previous} \ {None},
                                 !.phase = "mark"])
    /\ UNCHANGED <<store, writers, coordinator, clock, epochs, faults>>

\* gc_mark_commits and gc_mark_nodes: the closure of the roots.
Mark(w) ==
    /\ Runs(w, "mark")
    /\ LET closure == UNION {Ancestors(c) : c \in cursor[w].commits}
       IN  /\ \A c \in closure : objects[c] # None
           /\ Page(w, [cursor[w] EXCEPT !.commits = closure, !.phase = "scan"])
    /\ UNCHANGED <<store, writers, coordinator, clock, epochs, faults>>

Marked(c, p, version) ==
    \/ p \in c.commits
    \/ \E q \in c.commits \cap Puts : PayloadOf[q] = p /\ binding[q] = version

\* gc_scan_candidates: versions at least as old as the cutoff and not marked.
Scan(w) ==
    /\ Runs(w, "scan")
    /\ Page(w, [cursor[w] EXCEPT
                  !.candidates = {[path |-> p, version |-> objects[p].version] :
                                    p \in {q \in Paths : /\ objects[q] # None
                                                         /\ objects[q].modified <= cursor[w].cutoff
                                                         /\ ~Marked(cursor[w], q, objects[q].version)}},
                  !.phase = "sweep"])
    /\ UNCHANGED <<store, writers, coordinator, clock, epochs, faults>>

\* delete_exact of one candidate in a versioned bucket: a version that is gone already is
\* passed over (NotFound).
Delete(w, d) ==
    /\ objects' = IF objects[d.path] # None /\ objects[d.path].version = d.version
                  THEN [objects EXCEPT ![d.path] = None]
                  ELSE objects
    /\ cursor' = [cursor EXCEPT ![w].candidates = @ \ {d}]
    /\ Do(w, "save")
    /\ UNCHANGED <<active, seen, checkpoint>>

\* sweep_gc.
Sweep(w) ==
    /\ Runs(w, "sweep")
    /\ \/ \E d \in cursor[w].candidates : Delete(w, d)
       \/ /\ cursor[w].candidates = {}
          /\ Page(w, [cursor[w] EXCEPT !.phase = "cleanup"])
          /\ UNCHANGED objects
    /\ UNCHANGED <<versions, ref, writers, coordinator, clock, epochs, faults>>

\* gc_cleanup: a process releases no epoch but its own.
Cleanup(w) ==
    /\ Runs(w, "cleanup")
    /\ IF coordinator.epoch \in {None, active[w]}
       THEN /\ SetCoordinator(None)
            /\ active' = [active EXCEPT ![w] = None]
            /\ cursor' = [cursor EXCEPT ![w].phase = "complete"]
            /\ Do(w, "save")
       ELSE Stops(w) /\ UNCHANGED <<coordinator, active>>
    /\ UNCHANGED <<store, writers, checkpoint, seen, clock, epochs, faults>>

-----------------------------------------------------------------------------
(* Restarts *)

CrashWorker(w) ==
    /\ faults < MaxFaults /\ faults' = faults + 1
    /\ active' = [active EXCEPT ![w] = None]
    /\ cursor' = [cursor EXCEPT ![w] = None]
    /\ Do(w, "idle")
    /\ UNCHANGED <<store, writers, coordinator, checkpoint, seen, clock, epochs>>

\* restore_gc_state, whenever a handle is opened in the process.
Restore(w) ==
    /\ task[w] = "idle" /\ coordinator.epoch # None
    /\ active[w] # coordinator.epoch
    /\ active' = [active EXCEPT ![w] = coordinator.epoch]
    /\ UNCHANGED <<store, writers, coordinator, checkpoint, task, cursor, seen, clock, epochs,
                   faults>>

\* resume_gc.
Resume(w) ==
    /\ task[w] = "idle" /\ coordinator.epoch # None
    /\ active[w] = coordinator.epoch
    /\ checkpoint[coordinator.epoch] # None
    /\ cursor' = [cursor EXCEPT ![w] = checkpoint[coordinator.epoch]]
    /\ Do(w, "run")
    /\ UNCHANGED <<store, writers, coordinator, checkpoint, active, seen, clock, epochs, faults>>

\* abandon_gc up to its last step: a process gives up no epoch but its own.
GivesUp(w) ==
    /\ active[w] # None
    /\ coordinator.epoch \in {None, active[w]}
    /\ SetCoordinator(None)
    /\ UNCHANGED <<store, writers, checkpoint, task, cursor, seen, clock, epochs>>

\* abandon_gc called by an operator, whatever the workers of the epoch are doing: pages go
\* on until the process forgets the epoch, which it never does when the answer to the
\* write is lost.  Counted with the faults.
AbandonGc(w) ==
    /\ GivesUp(w)
    /\ faults < MaxFaults /\ faults' = faults + 1
    /\ active' \in {active, [active EXCEPT ![w] = None]}

Incomplete == coordinator.epoch # None /\ checkpoint[coordinator.epoch] = None

\* Mutant: only the process forgets the epoch.
AbandonLocally(w) ==
    /\ Incomplete /\ active[w] = coordinator.epoch
    /\ active' = [active EXCEPT ![w] = None]
    /\ UNCHANGED <<store, writers, coordinator, checkpoint, task, cursor, seen, clock, epochs,
                   faults>>

\* abandon_incomplete_gc: an epoch without a durable cursor.
AbandonIncomplete(w) ==
    /\ Incomplete /\ GivesUp(w)
    /\ active' = [active EXCEPT ![w] = None]
    /\ UNCHANGED faults

Tick ==
    /\ clock < MaxClock
    /\ clock' = clock + 1
    /\ UNCHANGED <<store, writers, coordinator, checkpoint, workers, epochs, faults>>

WorkerStep(w) ==
    \/ CloseAdmission(w) \/ Save(w) \/ Refused(w) \/ Drain(w) \/ Discover(w) \/ Mark(w)
    \/ Scan(w) \/ Sweep(w) \/ Cleanup(w) \/ Restore(w) \/ Resume(w) \/ AbandonIncomplete(w)

Next ==
    \/ \E p \in Puts : Upload(p) \/ Admission(p) \/ StoreCommit(p)
    \/ \E r \in Resets : Check(r) \/ \E c \in Commits : BeginReset(r, c)
    \/ \E o \in Ops : \/ Load(o) \/ TakeTicket(o) \/ Admit(o)
                      \/ Execute(o) \/ Released(o)
    \/ \E w \in Workers : StartGc(w) \/ WorkerStep(w) \/ CrashWorker(w) \/ AbandonGc(w)
    \/ Tick

Spec == Init /\ [][Next]_vars

FairSpec ==
    Spec /\ WF_vars(Tick) /\ \A w \in Workers : WF_vars(WorkerStep(w))

-----------------------------------------------------------------------------
(* Properties *)

TypeOK ==
    /\ objects \in [Paths -> Objects \cup {None}] /\ versions \in [Paths -> Nat]
    /\ ref \in RefValues
    /\ pc \in [Ops -> Labels] /\ started \in [Ops -> Nat] /\ binding \in [Puts -> Nat]
    /\ base \in [Ops -> RefValues \cup {None}] /\ goal \in [Resets -> Commits \cup {None}]
    /\ expires \in [Ops -> Nat]
    /\ tickets \subseteq Ops /\ inflight \subseteq Ops
    /\ coordinator \in [epoch : Epochs \cup {None}, generation : Nat]
    /\ checkpoint \in [Epochs -> Cursors \cup {None}]
    /\ active \in [Workers -> Epochs \cup {None}]
    /\ task \in [Workers -> {"idle", "open", "save", "run"}]
    /\ cursor \in [Workers -> Cursors \cup {None}] /\ seen \in [Workers -> Nat]
    /\ clock \in 0 .. MaxClock /\ epochs \in 0 .. MaxEpochs /\ faults \in 0 .. MaxFaults

\* Commit c is stored, and so is the payload version that it bound.
Stored(c) ==
    /\ objects[c] # None
    /\ c \in Puts => /\ objects[PayloadOf[c]] # None
                     /\ objects[PayloadOf[c]].version = binding[c]

\* No reset goes to a commit that neither side of the ref it read reaches.
ResetsKept ==
    \A r \in Resets : base[r] # None =>
        \E c \in {base[r].target, base[r].previous} \ {None} : goal[r] \in Ancestors(c)

\* The collector never deletes what the branch reaches (sweep_gc): every commit behind
\* either side of the ref is stored with its payload, unless a reset went to a commit that
\* the branch had left behind (reset_branch), which an epoch may delete between the last
\* read of it and the write of the ref.
ClosureComplete ==
    ResetsKept =>
        \A d \in {ref.target, ref.previous} \ {None} : \A c \in Ancestors(d) : Stored(c)

\* The same wherever resets go, which this collector does not promise.
ClosureAlways == \A c \in Ancestors(ref.target) : Stored(c)

\* Once the tickets of an epoch are drained, no ref write is on its way under a ticket
\* that has not expired (before_compare_exchange against gc_drain_publication_tickets).
MarkingWaitsForTickets ==
    \A w \in Workers :
        cursor[w] # None /\ cursor[w].drained /\ coordinator.epoch = cursor[w].epoch =>
            \A o \in inflight : pc[o] = "sent" => expires[o] <= clock

\* Admission is reopened after every epoch, whoever dies and whenever
\* (gc_cleanup, resume_gc, abandon_incomplete_gc).
AdmissionReopens == ~AdmissionOpen ~> AdmissionOpen
=============================================================================
