-------------------------- MODULE BranchPublication --------------------------
(***************************************************************************)
(* Publication to one branch of a repository of the S3 extension           *)
(* (extensions/s3/core: authority.rs, publication.rs, repository.rs).      *)
(*                                                                         *)
(* Two control objects are changed by conditional writes only: the lease   *)
(* of the branch and its ref.  A handle (a Repository value of some        *)
(* process) caches a permit, validates it against the lease, reads the     *)
(* ref and replaces it.  A takeover installs a pending lease of the next   *)
(* generation, writes that generation into the ref (the barrier) and only  *)
(* then activates the lease.                                               *)
(*                                                                         *)
(* The response of a conditional write may be lost, the request may reach  *)
(* the store after its caller gave up, or be delivered twice; a process    *)
(* may die with its request under way.  Commits and journal events are     *)
(* immutable and written before the ref: the ref's value carries its whole *)
(* journal, the event appended last being the current one.  An operation   *)
(* is looked up in the journal within a window of generations and age.     *)
(***************************************************************************)
EXTENDS Naturals, Sequences, FiniteSets

CONSTANTS
    Handles,        \* repository handles
    WriterOf,       \* WriterOf[h]: the writer identity the handle is opened with
    Puts, Sessions, \* caller-stable operation ids: single puts, commit sessions
    Elsewhere,      \* operations that other branches or an import committed
    Kinds,          \* the calls that clients make
    None,
    LeaseTicks,     \* authority_lease_millis
    RetainGenerations, RetainTicks, \* IdempotencyRetention: max_generations, max_age_millis
    MaxClock, MaxCalls, MaxFaults   \* bounds

Ops == Puts \cup Sessions

ASSUME HandlesAssumption == WriterOf \in [Handles -> {WriterOf[h] : h \in Handles}]
ASSUME OpsAssumption == None \notin Ops \cup Handles /\ Puts \cap Sessions = {}
ASSUME KindsAssumption ==
    Kinds \subseteq {"open", "init", "create", "put", "begin", "resume", "session", "reset",
                     "delete", "takeover", "renew"}
ASSUME PublicationBoundsAssumption ==
    /\ LeaseTicks \in Nat \ {0} /\ RetainGenerations \in Nat \ {0} /\ RetainTicks \in Nat
    /\ MaxClock \in Nat /\ MaxCalls \in Nat /\ MaxFaults \in Nat

\* AuthorityStamp, AuthorityLease, PublicationEvent, RefValue and CommitSessionManifest.
\* An identifier is the operation id of a caller or one of those that options.ids hands
\* out.  A commit is the sequence of the operations it is made of.
Writers == {WriterOf[h] : h \in Handles}
Nonces == Handles \X Nat
OpIds == Ops \cup Nonces \cup Elsewhere
Imported == {<<e>> : e \in Elsewhere}
Stamps == [generation : Nat \ {0}, writer : Writers, nonce : Nonces]
Leases == [generation : Nat \ {0}, writer : Writers, nonce : Nonces,
           state : {"active", "pending"}, expires : Nat]
Events == [op : OpIds, target : Seq(OpIds), authority : Stamps, at : Nat]
RefValues == [log : Seq(Events) \ {<<>>}, tombstone : BOOLEAN]
Manifests == [base : Seq(OpIds), authority : Stamps]

ASSUME NoneAssumption == None \notin Leases \cup RefValues \cup Stamps \cup Manifests
\* No identifier handed out is also the operation id of a caller.
ASSUME NoncesAssumption == Ops \cap Nonces = {} /\ Ops \cap Elsewhere = {}

VARIABLES
    store,      \* store[x]: [token, value] of control object x; token 0: absent
    requests,   \* conditional writes sent and not yet spent
    commits,    \* the commits the object store holds
    clock,
    mode,       \* mode[h]: "closed", "read" or "write"
    permit,     \* permit[h]: the cached permit [lease, token], or None
    fenced,     \* handles whose branch is in fenced_scopes
    pc, call,   \* the foreground call of a handle, and its locals
    sent,       \* sent[<<h, t>>]: the request task t of h waits for
    session,    \* session[s]: the manifest [base, authority] of session s, or None
    acked,      \* operations a client holds a receipt for
    calls, faults

vars == <<store, requests, commits, clock, mode, permit, fenced, pc, call, sent, session, acked,
          calls, faults>>
local == <<mode, permit, fenced>>

Tasks == Handles \X {"call", "renew"}
Awaited == {sent[t] : t \in Tasks}
lease == store["lease"]
ref == store["ref"]

NoCall == [kind |-> None, id |-> None, op |-> None, now |-> 0, stamp |-> None,
           manifest |-> None, seen |-> None]

Init ==
    /\ store = [x \in {"lease", "ref"} |-> [token |-> 0, value |-> None]]
    /\ requests = {}
    /\ commits = Imported
    /\ clock = 0
    /\ mode = [h \in Handles |-> "closed"]
    /\ permit = [h \in Handles |-> None]
    /\ fenced = {}
    /\ pc = [h \in Handles |-> "idle"]
    /\ call = [h \in Handles |-> NoCall]
    /\ sent = [t \in Tasks |-> None]
    /\ session = [s \in Sessions |-> None]
    /\ acked = {}
    /\ calls = 0
    /\ faults = 0

-----------------------------------------------------------------------------
(* Leases, refs and the journal *)

Stamp(l) == [generation |-> l.generation, writer |-> l.writer, nonce |-> l.nonce]

Lease(generation, h, nonce, state, now) ==
    [generation |-> generation, writer |-> WriterOf[h], nonce |-> nonce, state |-> state,
     expires |-> now + LeaseTicks]

\* The identifiers options.ids hands out: no two calls share one.
Fresh(h) == <<h, calls>>

NewCall(h, kind, op) ==
    [NoCall EXCEPT !.kind = kind, !.id = Fresh(h), !.op = op, !.now = clock]

Exists(r) == r.token # 0
Live(r) == Exists(r) /\ ~r.value.tombstone
LastEvent(r) == r.value.log[Len(r.value.log)]
Target(r) == LastEvent(r).target
Authority(r) == LastEvent(r).authority
Log(r) == IF Exists(r) THEN r.value.log ELSE <<>>

Event(op, target, authority, now) ==
    [op |-> op, target |-> target, authority |-> authority, at |-> now]

\* The RefValue that follows r; the ref generation is the length of its journal.
RefValue(r, event, tombstone) ==
    [log |-> Append(Log(r), event), tombstone |-> tombstone]

\* The journal holds operation op.
Applied(op, r) == \E i \in 1 .. Len(Log(r)) : Log(r)[i].op = op

\* IdempotencyRetention::contains: the event of generation i, published at the
\* time at, is in the window of a ref of this generation.
Retained(generation, now, i, at) ==
    /\ i <= generation /\ generation <= i + RetainGenerations
    /\ at <= now /\ now <= at + RetainTicks

\* SegmentedOperationIndex::lookup.  It refuses a clock behind the current event,
\* compares that event, and then takes from the journal behind it one event of the
\* operation, which it answers with only when the window contains it.
LookupFails(r, now) == ~Live(r) \/ now < LastEvent(r).at

Kept(r, now, i) == Retained(Len(Log(r)), now, i, Log(r)[i].at)

Lapsed(op, r, now) == \E i \in 1 .. Len(Log(r)) : Log(r)[i].op = op /\ ~Kept(r, now, i)

Finds(op, r, now) ==
    /\ ~LookupFails(r, now)
    /\ \E i \in 1 .. Len(Log(r)) : Log(r)[i].op = op /\ Kept(r, now, i)

\* Mutant: only the current event is compared.
MissesCurrent(op, r, now) ==
    /\ ~LookupFails(r, now)
    /\ ~(LastEvent(r).op = op /\ Kept(r, now, Len(Log(r))))

Misses(op, r, now) ==
    /\ ~LookupFails(r, now)
    /\ ~(LastEvent(r).op = op /\ Kept(r, now, Len(Log(r))))
    /\ ~Applied(op, r) \/ Lapsed(op, r, now)

\* ShardWriterAuthority::validate_active.
ValidActive(stamp, now) ==
    /\ Exists(lease)
    /\ Stamp(lease.value) = stamp
    /\ lease.value.expires > now
    /\ lease.value.state = "active"

-----------------------------------------------------------------------------
(* Control flow of a handle *)

Goto(h, label) == pc' = [pc EXCEPT ![h] = label]
Keep(h, field, v) == call' = [call EXCEPT ![h][field] = v]

\* The call returns, with a receipt or an error.
Return(h) == Goto(h, "idle") /\ call' = [call EXCEPT ![h] = NoCall]

Install(h, p) ==
    /\ permit' = [permit EXCEPT ![h] = p]
    /\ fenced' = fenced \ {h}

\* Mutant: the permit is kept.
FenceKeepsPermit(h) ==
    /\ fenced' = fenced \cup {h}
    /\ UNCHANGED permit

Fence(h) ==
    /\ permit' = [permit EXCEPT ![h] = None]
    /\ fenced' = fenced \cup {h}

\* MutableControlStore::compare_exchange: the request leaves the process.
Send(h, task, object, expected, value) ==
    LET r == [from |-> <<h, task>>, object |-> object, expected |-> expected, value |-> value]
    IN  /\ requests' = requests \cup {r}
        /\ sent' = [sent EXCEPT ![<<h, task>>] = r]

\* The steps of each call, after its permit is validated and after it is reconciled.
AfterValidate(kind) ==
    CASE kind = "put" -> "reconcile"
      [] kind = "session" -> "load"
      [] kind = "begin" -> "load"
      [] kind = "resume" -> "load"
      [] kind = "reset" -> "load"
      [] kind = "delete" -> "publish"
      [] kind = "create" -> "recheck"

FirstStep(kind) ==
    CASE kind = "session" -> "reconcile"
      [] kind = "delete" -> "load"
      [] OTHER -> "permit"

Call(h, kind, op) ==
    /\ pc[h] = "idle" /\ calls < MaxCalls
    /\ kind \in Kinds \cap {"create", "put", "begin", "resume", "session", "reset", "delete"}
    /\ CASE kind = "put" -> op \in Puts
         [] kind = "begin" ->
               op \in Sessions /\ session[op] = None /\ \A g \in Handles : call[g].op # op
         [] kind \in {"resume", "session"} -> op \in Sessions /\ session[op] # None
         [] OTHER -> op = Fresh(h)
    /\ mode[h] = "write"
    /\ calls' = calls + 1
    /\ call' = [call EXCEPT ![h] = [NewCall(h, kind, op) EXCEPT
                    !.manifest = IF kind \in {"resume", "session"} THEN session[op] ELSE None]]
    /\ Goto(h, FirstStep(kind))
    /\ UNCHANGED <<store, requests, commits, clock, local, sent, session, acked, faults>>

\* ShardWriterAuthority::acquire, up to its conditional write.
SendAcquire(h, now, nonce) ==
    \/ /\ ~Exists(lease)
       /\ Send(h, "call", "lease", 0, Lease(1, h, nonce, "active", now))
    \/ /\ Exists(lease)
       /\ lease.value.writer = WriterOf[h]
       /\ lease.value.state = "active"
       /\ lease.value.expires > now
       /\ Send(h, "call", "lease", lease.token,
               [lease.value EXCEPT !.expires = now + LeaseTicks])

Refused(h, now) ==
    /\ Exists(lease)
    /\ \/ lease.value.writer # WriterOf[h]
       \/ lease.value.state # "active"
       \/ lease.value.expires <= now

Renewing(h) == sent[<<h, "renew">>] # None

\* active_scope_permit, under the renewal mutex up to the end of Validate.
Permit(h) ==
    /\ pc[h] = "permit"
    /\ ~Renewing(h)
    /\ \/ /\ h \in fenced
          /\ Return(h)
          /\ UNCHANGED <<requests, sent, permit, fenced>>
       \/ /\ h \notin fenced /\ permit[h] # None
          /\ permit[h].lease.expires > call[h].now
          /\ Keep(h, "stamp", Stamp(permit[h].lease))
          /\ Goto(h, "validate")
          /\ UNCHANGED <<requests, sent, permit, fenced>>
       \/ /\ h \notin fenced
          /\ \/ permit[h] # None /\ permit[h].lease.expires <= call[h].now
             \/ permit[h] = None /\ Refused(h, call[h].now)
          /\ Fence(h)
          /\ Return(h)
          /\ UNCHANGED <<requests, sent>>
       \/ /\ h \notin fenced /\ permit[h] = None
          /\ SendAcquire(h, call[h].now, call[h].id)
          /\ Goto(h, "acquire")
          /\ UNCHANGED <<call, permit, fenced>>
    /\ UNCHANGED <<store, commits, clock, mode, session, acked, calls, faults>>

Validate(h) ==
    /\ pc[h] = "validate"
    /\ \/ /\ ValidActive(call[h].stamp, call[h].now)
          /\ IF call[h].kind = "session" /\ call[h].stamp # call[h].manifest.authority
             THEN Return(h)
             ELSE Goto(h, AfterValidate(call[h].kind)) /\ UNCHANGED call
          /\ UNCHANGED <<permit, fenced>>
       \/ /\ ~ValidActive(call[h].stamp, call[h].now)
          /\ Fence(h)
          /\ Return(h)
    /\ UNCHANGED <<store, requests, commits, clock, mode, sent, session, acked, calls, faults>>

\* reconcile_operation: an operation already in the journal is answered from it.
Reconcile(h) ==
    /\ pc[h] = "reconcile"
    /\ \/ /\ LookupFails(ref, call[h].now)
          /\ Return(h) /\ UNCHANGED acked
       \/ /\ Finds(call[h].op, ref, call[h].now)
          /\ acked' = acked \cup {call[h].op}
          /\ Return(h)
       \/ /\ Misses(call[h].op, ref, call[h].now)
          /\ Goto(h, IF call[h].kind = "session" THEN "permit" ELSE "load")
          /\ UNCHANGED <<call, acked>>
    /\ UNCHANGED <<store, requests, commits, clock, local, sent, session, calls, faults>>

\* The ref is read; a session requires its base commit to be the head still,
\* and is resumed only by the writer that began it, under its present authority.
BaseMoved(h) ==
    /\ call[h].kind \in {"resume", "session"}
    /\ Target(ref) # call[h].manifest.base

OtherWriter(h) ==
    /\ call[h].kind = "resume"
    /\ call[h].manifest.authority.writer # WriterOf[h]

Load(h) ==
    /\ pc[h] = "load"
    /\ \/ /\ ~Live(ref) \/ BaseMoved(h) \/ OtherWriter(h)
          /\ Return(h) /\ UNCHANGED session
       \/ /\ Live(ref) /\ call[h].kind \in {"begin", "resume"}
          /\ ~BaseMoved(h) /\ ~OtherWriter(h)
          /\ session' = [session EXCEPT ![call[h].op] =
                            [base |-> Target(ref), authority |-> call[h].stamp]]
          /\ Return(h)
       \/ /\ Live(ref) /\ call[h].kind \notin {"begin", "resume"}
          /\ ~BaseMoved(h)
          /\ Keep(h, "seen", ref)
          /\ Goto(h, IF call[h].kind = "delete" THEN "permit" ELSE "publish")
          /\ UNCHANGED session
    /\ UNCHANGED <<store, requests, commits, clock, local, sent, acked, calls, faults>>

\* The targets a call may give the branch: its commit on top of the head it
\* read, the head itself, or any commit the store holds.
NewTargets(h) ==
    LET seen == call[h].seen
    IN  CASE call[h].kind \in {"put", "session"} -> {Append(Target(seen), call[h].op)}
          [] call[h].kind = "delete" -> {Target(seen)}
          [] call[h].kind = "reset" -> commits

\* store_and_publish, move_target and delete: validate once more, compare the
\* authority of the ref that was read, store the commit and the event, send
\* the ref.
Publish(h) ==
    /\ pc[h] = "publish"
    /\ LET seen == call[h].seen
           stamp == call[h].stamp
       IN  \/ /\ ~ValidActive(stamp, call[h].now) \/ Authority(seen) # stamp
              /\ Return(h) /\ UNCHANGED <<requests, sent, commits>>
           \/ /\ ValidActive(stamp, call[h].now) /\ Authority(seen) = stamp
              /\ \E target \in NewTargets(h) :
                    /\ commits' = commits \cup {target}
                    /\ Send(h, "call", "ref", seen.token,
                            RefValue(seen, Event(call[h].op, target, stamp, call[h].now),
                                     call[h].kind = "delete"))
              /\ Goto(h, "published") /\ UNCHANGED call
    /\ UNCHANGED <<store, clock, local, session, acked, calls, faults>>

\* create, at the empty commit it stores, and create_at_target, at a commit the
\* store holds: validate, then read the ref, then send it.
Recheck(h) ==
    /\ pc[h] = "recheck"
    /\ IF ValidActive(call[h].stamp, call[h].now)
       THEN Goto(h, "create") /\ UNCHANGED call
       ELSE Return(h)
    /\ UNCHANGED <<store, requests, commits, clock, local, sent, session, acked, calls, faults>>

Create(h) ==
    /\ pc[h] = "create"
    /\ \/ /\ call[h].kind = "create" /\ Live(ref)
          /\ Return(h) /\ UNCHANGED <<requests, sent, commits>>
       \/ /\ call[h].kind = "create" => ~Live(ref)
          /\ LET base == IF call[h].kind = "init" THEN [token |-> 0, value |-> None] ELSE ref
             IN  \E target \in IF call[h].kind = "init" THEN {<<>>} ELSE commits :
                    /\ commits' = commits \cup {target}
                    /\ Send(h, "call", "ref", base.token,
                            RefValue(base, Event(call[h].op, target, call[h].stamp, call[h].now),
                                     FALSE))
          /\ Goto(h, "published") /\ UNCHANGED call
    /\ UNCHANGED <<store, clock, local, session, acked, calls, faults>>

-----------------------------------------------------------------------------
(* Opening a handle *)

\* open: the branch permit is acquired before the handle is returned.
Open(h) ==
    /\ "open" \in Kinds /\ mode[h] = "closed" /\ pc[h] = "idle" /\ calls < MaxCalls
    /\ Exists(ref)
    /\ calls' = calls + 1
    /\ SendAcquire(h, clock, Fresh(h))
    /\ call' = [call EXCEPT ![h] = NewCall(h, "open", None)]
    /\ Goto(h, "acquire")
    /\ UNCHANGED <<store, commits, clock, local, session, acked, faults>>

OpenReadOnly(h) ==
    /\ "takeover" \in Kinds /\ mode[h] = "closed" /\ pc[h] = "idle"
    /\ Exists(ref)
    /\ mode' = [mode EXCEPT ![h] = "read"]
    /\ UNCHANGED <<store, requests, commits, clock, permit, fenced, pc, call, sent, session, acked,
                   calls, faults>>

\* initialize: an existing branch is opened as it is, without a permit.
Initialize(h) ==
    /\ "init" \in Kinds /\ mode[h] = "closed" /\ pc[h] = "idle" /\ calls < MaxCalls
    /\ calls' = calls + 1
    /\ \/ /\ Live(ref)
          /\ mode' = [mode EXCEPT ![h] = "write"]
          /\ UNCHANGED <<requests, sent, pc, call>>
       \/ /\ ~Live(ref)
          /\ SendAcquire(h, clock, Fresh(h))
          /\ call' = [call EXCEPT ![h] = NewCall(h, "init", Fresh(h))]
          /\ Goto(h, "acquire")
          /\ UNCHANGED mode
    /\ UNCHANGED <<store, commits, clock, permit, fenced, session, acked, faults>>

-----------------------------------------------------------------------------
(* Renewal and takeover *)

\* renew_shard_authorities, run by a background task under the renewal mutex.
Renew(h) ==
    /\ "renew" \in Kinds /\ mode[h] = "write" /\ calls < MaxCalls
    /\ permit[h] # None /\ ~Renewing(h) /\ pc[h] \notin {"acquire", "validate"}
    /\ calls' = calls + 1
    /\ \/ /\ permit[h].lease.expires <= clock
          /\ Fence(h)
          /\ UNCHANGED <<requests, sent>>
       \/ /\ permit[h].lease.expires > clock
          /\ Send(h, "renew", "lease", permit[h].token,
                  [permit[h].lease EXCEPT !.expires = clock + LeaseTicks])
          /\ UNCHANGED <<permit, fenced>>
    /\ UNCHANGED <<store, commits, clock, mode, pc, call, session, acked, faults>>

\* begin_takeover: the operator declares the writer and generation to replace,
\* or repeats the declaration of a takeover that is pending already.
BeginTakeover(h) ==
    /\ "takeover" \in Kinds /\ mode[h] = "read" /\ pc[h] = "idle" /\ calls < MaxCalls
    /\ Exists(lease)
    /\ calls' = calls + 1
    /\ \/ /\ lease.value.state = "pending" /\ lease.value.writer = WriterOf[h]
          /\ call' = [call EXCEPT ![h] =
                [NewCall(h, "takeover", Fresh(h)) EXCEPT
                    !.seen = [lease |-> lease.value, token |-> lease.token]]]
          /\ Goto(h, "barrier")
          /\ UNCHANGED <<requests, sent>>
       \/ /\ Send(h, "call", "lease", lease.token,
                  Lease(lease.value.generation + 1, h, Fresh(h), "pending", clock))
          /\ call' = [call EXCEPT ![h] = NewCall(h, "takeover", Fresh(h))]
          /\ Goto(h, "pending")
    /\ UNCHANGED <<store, commits, clock, local, session, acked, faults>>

\* Mutant: the lease is activated without a barrier in the ref.
BarrierSkipped(h) ==
    /\ pc[h] = "barrier"
    /\ Goto(h, "activate")
    /\ UNCHANGED <<store, requests, commits, clock, local, call, sent, session, acked, calls, faults>>

\* Mutant: whatever generation the ref carries.
BarrierUnchecked(h) ==
    /\ pc[h] = "barrier"
    /\ LET stamp == Stamp(call[h].seen.lease)
       IN  \/ /\ ~Live(ref)
              /\ Return(h) /\ UNCHANGED <<requests, sent>>
           \/ /\ Live(ref)
              /\ Send(h, "call", "ref", ref.token,
                      RefValue(ref, Event(call[h].op, Target(ref), stamp, call[h].now), FALSE))
              /\ Goto(h, "barred") /\ UNCHANGED call
    /\ UNCHANGED <<store, commits, clock, local, session, acked, calls, faults>>

\* publish_takeover_barrier: the same target under the pending authority.
Barrier(h) ==
    /\ pc[h] = "barrier"
    /\ LET stamp == Stamp(call[h].seen.lease)
           passes == Live(ref) /\ stamp.generation = Authority(ref).generation + 1
       IN  \/ /\ ~passes
              /\ Return(h) /\ UNCHANGED <<requests, sent>>
           \/ /\ passes
              /\ Send(h, "call", "ref", ref.token,
                      RefValue(ref, Event(call[h].op, Target(ref), stamp, call[h].now), FALSE))
              /\ Goto(h, "barred") /\ UNCHANGED call
    /\ UNCHANGED <<store, commits, clock, local, session, acked, calls, faults>>

\* activate_after_barrier.
Activate(h) ==
    /\ pc[h] = "activate"
    /\ Send(h, "call", "lease", call[h].seen.token,
            [call[h].seen.lease EXCEPT !.state = "active", !.expires = call[h].now + LeaseTicks])
    /\ Goto(h, "active")
    /\ UNCHANGED <<store, commits, clock, local, call, session, acked, calls, faults>>

-----------------------------------------------------------------------------
(* Conditional writes at the store, and what their callers make of them *)

\* The object after the store has executed request r.
Executed(r) ==
    IF store[r.object].token = r.expected
    THEN [token |-> r.expected + 1, value |-> r.value]
    ELSE store[r.object]

\* cas_lease and cas_ref succeed when the object holds the bytes that were
\* sent, whoever's answer says so.
Succeeded(h, object) ==
    LET held == [lease |-> object.value, token |-> object.token]
    IN  CASE pc[h] = "acquire" ->
               /\ Install(h, held)
               /\ mode' = [mode EXCEPT ![h] = IF call[h].kind = "open" THEN "write" ELSE @]
               /\ IF call[h].kind = "open"
                  THEN Return(h)
                  ELSE /\ Keep(h, "stamp", Stamp(held.lease))
                       /\ Goto(h, IF call[h].kind = "init" THEN "recheck" ELSE "validate")
               /\ UNCHANGED acked
          [] pc[h] = "published" ->
               /\ mode' = [mode EXCEPT ![h] = IF call[h].kind = "init" THEN "write" ELSE @]
               /\ acked' = acked \cup ({call[h].op} \cap Ops)
               /\ Return(h)
               /\ UNCHANGED <<permit, fenced>>
          [] pc[h] = "pending" ->
               /\ Keep(h, "seen", held)
               /\ Goto(h, "barrier")
               /\ UNCHANGED <<local, acked>>
          [] pc[h] = "barred" ->
               /\ Goto(h, "activate")
               /\ UNCHANGED <<local, call, acked>>
          [] pc[h] = "active" ->
               /\ Install(h, held)
               /\ mode' = [mode EXCEPT ![h] = "write"]
               /\ Return(h)
               /\ UNCHANGED acked

\* The object holds something else: the write lost, or its fate is unknown.
\* A failed acquisition of an open handle fences it.
Failed(h, unknown) ==
    /\ UNCHANGED <<mode, acked>>
    /\ IF unknown /\ pc[h] = "published" /\ call[h].kind = "session"
       THEN Goto(h, "settle") /\ UNCHANGED <<call, permit, fenced>>
       ELSE /\ Return(h)
            /\ IF pc[h] = "acquire" /\ mode[h] = "write"
               THEN Fence(h)
               ELSE UNCHANGED <<permit, fenced>>

Conclude(h, object, unknown) ==
    IF object.value = sent[<<h, "call">>].value
    THEN Succeeded(h, object)
    ELSE Failed(h, unknown)

ConcludeRenewal(h, object) ==
    /\ IF object.value = sent[<<h, "renew">>].value
       THEN Install(h, [lease |-> object.value, token |-> object.token])
       ELSE Fence(h)
    /\ UNCHANGED <<mode, pc, call, acked>>

\* The store executes the request of a waiting task and the answer arrives.
Answered(h, task) ==
    LET r == sent[<<h, task>>]
    IN  /\ r # None /\ r \in requests
        /\ store' = [store EXCEPT ![r.object] = Executed(r)]
        /\ requests' = requests \ {r}
        /\ IF task = "call" THEN Conclude(h, Executed(r), FALSE)
                            ELSE ConcludeRenewal(h, Executed(r))
        /\ sent' = [sent EXCEPT ![<<h, task>>] = None]
        /\ UNCHANGED <<commits, clock, session, calls, faults>>

\* The task gets an error instead and loads the object; the request is still
\* on its way.
Lost(h, task) ==
    LET r == sent[<<h, task>>]
    IN  /\ r # None /\ faults < MaxFaults
        /\ faults' = faults + 1
        /\ IF task = "call" THEN Conclude(h, store[r.object], TRUE)
                            ELSE ConcludeRenewal(h, store[r.object])
        /\ sent' = [sent EXCEPT ![<<h, task>>] = None]
        /\ UNCHANGED <<store, requests, commits, clock, session, calls>>

\* A request executes without its caller noticing: the caller is gone, or will
\* send it again.
Unnoticed(r) ==
    /\ store' = [store EXCEPT ![r.object] = Executed(r)]
    /\ IF r \in Awaited
       THEN faults < MaxFaults /\ faults' = faults + 1 /\ UNCHANGED requests
       ELSE requests' = requests \ {r} /\ UNCHANGED faults
    /\ UNCHANGED <<commits, clock, local, pc, call, sent, session, acked, calls>>

\* Mutant: the ref is live, so the commit is taken to be in it.
SettleUnread(h) ==
    /\ pc[h] = "settle"
    /\ IF Live(ref)
       THEN acked' = acked \cup {call[h].op} /\ UNCHANGED <<permit, fenced>>
       ELSE Fence(h) /\ UNCHANGED acked
    /\ Return(h)
    /\ UNCHANGED <<store, requests, commits, clock, mode, sent, session, calls, faults>>

\* publish_commit_session reconciles an unknown outcome before it fences.
Settle(h) ==
    /\ pc[h] = "settle"
    /\ \/ /\ LookupFails(ref, call[h].now)
          /\ UNCHANGED <<acked, permit, fenced>>
       \/ /\ Finds(call[h].op, ref, call[h].now)
          /\ acked' = acked \cup {call[h].op}
          /\ UNCHANGED <<permit, fenced>>
       \/ /\ Misses(call[h].op, ref, call[h].now)
          /\ Fence(h)
          /\ UNCHANGED acked
    /\ Return(h)
    /\ UNCHANGED <<store, requests, commits, clock, mode, sent, session, calls, faults>>

-----------------------------------------------------------------------------
(* The environment *)

Tick ==
    /\ clock < MaxClock
    /\ clock' = clock + 1
    /\ UNCHANGED <<store, requests, commits, local, pc, call, sent, session, acked, calls, faults>>

\* The process of a handle dies; what it sent may still arrive.
Crash(h) ==
    /\ faults < MaxFaults /\ faults' = faults + 1
    /\ mode' = [mode EXCEPT ![h] = "closed"]
    /\ permit' = [permit EXCEPT ![h] = None]
    /\ fenced' = fenced \ {h}
    /\ Return(h)
    /\ sent' = [t \in Tasks |-> IF t[1] = h THEN None ELSE sent[t]]
    /\ UNCHANGED <<store, requests, commits, clock, session, acked, calls>>

HandleStep(h) ==
    \/ Permit(h) \/ Validate(h) \/ Reconcile(h) \/ Load(h) \/ Publish(h)
    \/ Recheck(h) \/ Create(h) \/ Barrier(h) \/ Activate(h) \/ Settle(h)
    \/ \E task \in {"call", "renew"} : Answered(h, task)

HandleStart(h) ==
    \/ \E kind \in Kinds, op \in Ops \cup {Fresh(h)} : Call(h, kind, op)
    \/ Open(h) \/ OpenReadOnly(h) \/ Initialize(h) \/ Renew(h) \/ BeginTakeover(h)

Next ==
    \/ \E h \in Handles :
          \/ HandleStep(h) \/ HandleStart(h) \/ Crash(h)
          \/ \E task \in {"call", "renew"} : Lost(h, task)
    \/ \E r \in requests : Unnoticed(r)
    \/ Tick

Spec == Init /\ [][Next]_vars

-----------------------------------------------------------------------------
(* Properties *)

TypeOK ==
    /\ \A x \in {"lease", "ref"} :
          store[x].token \in Nat /\ (store[x].token = 0 <=> store[x].value = None)
    /\ Exists(ref) => Len(ref.value.log) = ref.token
    /\ mode \in [Handles -> {"closed", "read", "write"}]
    /\ fenced \subseteq Handles /\ acked \subseteq Ops
    /\ \A h \in fenced : permit[h] = None
    /\ clock \in 0 .. MaxClock /\ calls \in 0 .. MaxCalls /\ faults \in 0 .. MaxFaults

\* Writer fencing (publish_takeover_barrier, activate_after_barrier): while a
\* lease is active the ref carries its authority, so no request of an earlier
\* writer, however late it arrives, has changed the branch since.
ActiveLeaseOwnsRef ==
    Exists(lease) /\ lease.value.state = "active" /\ Exists(ref) =>
        Authority(ref) = Stamp(lease.value)

\* A receipt is never given for an operation the journal does not hold
\* (cas_ref, reconcile_operation), and the journal never loses it.
AckedIsPublished == \A op \in acked : Applied(op, ref)

\* A commit session is published again only when one of its earlier publications has
\* left the retention window of the ref it is published on: within the window it is
\* published at most once, however often its publication is repeated after unknown
\* outcomes and wherever the branch is reset (publish_commit_session).
SessionOnce ==
    \A i, j \in 1 .. Len(Log(ref)) :
        i < j /\ Log(ref)[j].op \in Sessions /\ Log(ref)[i].op = Log(ref)[j].op =>
            \E k \in 1 .. (j - 1) :
                /\ Log(ref)[k].op = Log(ref)[j].op
                /\ ~Retained(j - 1, Log(ref)[j].at, k, Log(ref)[k].at)

Branch == INSTANCE BranchLog WITH
    log <- Log(ref), deleted <- Exists(ref) /\ ref.value.tombstone, receipts <- acked

\* However requests are lost, repeated or delayed, whoever crashes or takes over, the
\* branch is one journal that only grows: every commit is on top of the head it had
\* when cas_ref replaced it, no event names a commit that was not stored before it, no
\* event but the barrier of a takeover changes the authority, and that by one
\* generation (publish_takeover_barrier).
BranchContract == Branch!Spec
=============================================================================
