------------------------- MODULE BranchSessionProofs -------------------------
(***************************************************************************)
(* The third inductive invariant of BranchPublication, on top of the       *)
(* first: the journal, the manifests and the requests on their way agree   *)
(* on which commit sessions are published, so that none is published a     *)
(* second time within the retention window.                                *)
(***************************************************************************)
EXTENDS BranchJournalProofs

\* Zenon is tried on every leaf; the leaves that need arithmetic or the extensionality
\* of functions and records cite SMT.
USE Zenon

LastSent(r) == r.value.log[Len(r.value.log)]

\* Operation op is in the journal of f, and whichever of its events a lookup at the time
\* now takes is in the window.
Repeats(op, f, now) == Applied(op, f) /\ ~Lapsed(op, f, now)

\* A session has one base: its manifest is written once, and resumed on the same base.
Begun ==
    /\ \A g, h \in Handles :
          /\ call[g].op \in Sessions /\ call[g].op = call[h].op
          /\ call[g].kind = "begin" /\ call[h].kind = "begin"
          => g = h
    /\ \A h \in Handles :
          call[h].op \in Sessions =>
             IF call[h].kind = "begin"
             THEN session[call[h].op] = None
             ELSE /\ session[call[h].op] # None
                  /\ call[h].manifest.base = session[call[h].op].base

BasesKept ==
    \A t \in Sessions : session[t] # None =>
        session'[t] # None /\ session'[t].base = session[t].base

\* What a request that can still succeed adds to the journal of f.
OnceRequest(f, sessions, r) ==
    /\ r.object = "ref" /\ r.expected = f.token
    /\ LastSent(r).op \in Sessions
    => /\ ~Repeats(LastSent(r).op, f, LastSent(r).at)
       /\ sessions[LastSent(r).op] # None
       /\ LastSent(r).target = Append(sessions[LastSent(r).op].base, LastSent(r).op)

\* The operation id of a call, and the writer of the leases it deals with.
OwnCall(p, c, s, w) ==
    /\ p # "idle" =>
          /\ c.kind = "put" => c.op \in Puts
          /\ c.kind \in {"begin", "resume", "session"} => c.op \in Sessions
          /\ c.kind \in {"create", "reset", "delete", "init", "takeover"} => c.op \in Nonces
          /\ c.stamp \in Stamps => c.stamp.writer = w
    /\ p \in {"barrier", "barred", "activate"} => c.seen.lease.writer = w
    /\ s # None /\ s \in LeaseRequests => s.value.writer = w

OwnPermit(m, n, w) ==
    /\ m # None => m.lease.writer = w
    /\ n # None => n.value.writer = w

\* A session's publication, from its reconciliation to its conditional write:
\* if the session has been published meanwhile, its commit is the head or the
\* branch has gone to another writer.
OnceCall(f, p, c, w) ==
    p # "idle" /\ c.kind = "session" =>
        /\ p \in {"permit", "acquire", "validate", "load"} /\ Repeats(c.op, f, c.now) =>
              Target(f) = Append(c.manifest.base, c.op) \/ Authority(f).writer # w
        /\ p = "publish" =>
              /\ Target(c.seen) = c.manifest.base
              /\ Authority(c.seen) = c.stamp => ~Repeats(c.op, c.seen, c.now)

Retried(f, p, c) ==
    /\ p \in {"permit", "acquire", "validate", "load"}
    /\ c.kind = "session" /\ Repeats(c.op, f, c.now)

\* No request that can still succeed is of writer w.
NoneOf(f, pending, w) ==
    \A r \in pending :
        r.object = "ref" /\ r.expected = f.token => LastSent(r).authority.writer # w

OnceHandle(f, pending, h, p, c, m, s, n) ==
    /\ OwnCall(p, c, s, WriterOf[h])
    /\ OwnPermit(m, n, WriterOf[h])
    /\ OnceCall(f, p, c, WriterOf[h])
    /\ Retried(f, p, c) => NoneOf(f, pending, WriterOf[h])

Once ==
    /\ SessionOnce
    /\ \A r \in requests : OnceRequest(ref, session, r)
    /\ \A h \in Handles :
          OnceHandle(ref, requests, h, pc[h], call[h], permit[h], sent[<<h, "call">>],
                     sent[<<h, "renew">>])

Distinct == \A g, h \in Handles : WriterOf[g] = WriterOf[h] => g = h

-----------------------------------------------------------------------------
(* The sessions and their bases. *)

\* The call of handle h goes on, or is of no session.
Continues(h) ==
    /\ \A g \in Handles \ {h} : call'[g] = call[g]
    /\ \/ call'[h].op \notin Sessions
       \/ /\ call'[h].op = call[h].op /\ call'[h].kind = call[h].kind
          /\ call'[h].manifest = call[h].manifest

LEMMA ContinuesBegun ==
    ASSUME Begun, NEW h \in Handles, Continues(h), UNCHANGED session
    PROVE  Begun'
<1>1. ASSUME NEW g \in Handles, call'[g].op \in Sessions
      PROVE  /\ call'[g].op = call[g].op /\ call'[g].kind = call[g].kind
             /\ call'[g].manifest = call[g].manifest
  BY <1>1 DEF Continues
<1> QED
  BY <1>1 DEF Begun

LEMMA UnchangedBegun ==
    ASSUME Begun, UNCHANGED <<call, session>>
    PROVE  Begun'
BY DEF Begun

LEMMA NoneNoSession == None \notin Sessions
BY OpsAssumption DEF Ops

LEMMA ReturnContinues ==
    ASSUME Journal, NEW h \in Handles, Return(h)
    PROVE  Continues(h)
<1>1. call \in [Handles -> Calls \cup {NoCall}] /\ call' = [call EXCEPT ![h] = NoCall]
  BY DEF Journal, Types, Return
<1>2. call'[h] = NoCall /\ \A g \in Handles \ {h} : call'[g] = call[g]
  BY <1>1
<1>3. NoCall.op \notin Sessions
  BY NoneNoSession DEF NoCall
<1> QED
  BY <1>2, <1>3 DEF Continues

LEMMA KeepContinues ==
    ASSUME Journal, NEW h \in Handles, NEW field \in {"stamp", "seen"}, NEW v,
           Keep(h, field, v)
    PROVE  Continues(h)
<1> DEFINE c == [call[h] EXCEPT ![field] = v]
<1>1. /\ call \in [Handles -> Calls \cup {NoCall}] /\ call' = [call EXCEPT ![h] = c]
  BY DEF Journal, Types, Keep
<1>2. call[h] \in Calls \cup {NoCall}
  BY <1>1
<1>3. c.op = call[h].op /\ c.kind = call[h].kind /\ c.manifest = call[h].manifest
  BY <1>2 DEF Calls, NoCall
<1> HIDE DEF c
<1>4. call'[h] = c /\ \A g \in Handles \ {h} : call'[g] = call[g]
  BY <1>1
<1> QED
  BY <1>3, <1>4 DEF Continues

LEMMA StartContinues ==
    ASSUME Journal, NEW h \in Handles, NEW c, call' = [call EXCEPT ![h] = c],
           c.op \notin Sessions
    PROVE  Continues(h)
<1>1. call \in [Handles -> Calls \cup {NoCall}]
  BY DEF Journal, Types
<1>2. call'[h] = c /\ \A g \in Handles \ {h} : call'[g] = call[g]
  BY <1>1
<1> QED
  BY <1>2 DEF Continues

LEMMA NewCallFields ==
    ASSUME NEW h, NEW kind, NEW op
    PROVE  LET c == NewCall(h, kind, op) IN
           /\ c.kind = kind /\ c.op = op /\ c.stamp = None
           /\ \A m : /\ [c EXCEPT !.manifest = m].kind = kind
                     /\ [c EXCEPT !.manifest = m].op = op
                     /\ [c EXCEPT !.manifest = m].stamp = None
                     /\ [c EXCEPT !.manifest = m].manifest = m
           /\ \A x : /\ [c EXCEPT !.seen = x].kind = kind
                     /\ [c EXCEPT !.seen = x].op = op
                     /\ [c EXCEPT !.seen = x].stamp = None
                     /\ [c EXCEPT !.seen = x].seen = x
BY DEF NewCall, NoCall

\* Loading the head writes a manifest: the first of its session, or one on the same base.
LEMMA LoadBases ==
    ASSUME Journal, Begun, NEW h \in Handles, pc[h] = "load", Live(ref), ~BaseMoved(h),
           call[h].kind \in {"begin", "resume"},
           session' = [session EXCEPT ![call[h].op] =
                          [base |-> Target(ref), authority |-> call[h].stamp]]
    PROVE  /\ BasesKept
           /\ \A t \in Sessions : t # call[h].op => session'[t] = session[t]
<1> DEFINE m == [base |-> Target(ref), authority |-> call[h].stamp]
           op == call[h].op
<1>1. session \in [Sessions -> Manifests \cup {None}]
  BY DEF Journal, Types, Rest
<1>2. m.base = Target(ref) /\ session' = [session EXCEPT ![op] = m]
  OBVIOUS
<1>3. m # None
  <2>1. /\ CallOK(ref, "load", call[h], sent[<<h, "call">>])
        /\ Exists(ref) => ref \in HeldRefs
    BY Facts
  <2>2. Target(ref) \in Seq(OpIds) /\ call[h].stamp \in Stamps
    BY <2>1, TargetTyped DEF CallOK, Live
  <2>3. m \in Manifests
    BY <2>2 DEF Manifests
  <2> QED
    BY <2>3, NoneAssumption
<1> HIDE DEF m
<1>4. \A t \in Sessions : session'[t] = IF t = op THEN m ELSE session[t]
  BY <1>1, <1>2
<1>5. op \in Sessions /\ session[op] # None => m.base = session[op].base
  BY <1>2 DEF Begun, BaseMoved
<1> QED
  BY <1>3, <1>4, <1>5 DEF BasesKept

LEMMA LoadBegun ==
    ASSUME Journal, Begun, NEW h \in Handles, Load(h)
    PROVE  Begun' /\ BasesKept
<1>1. CASE Return(h) /\ UNCHANGED session
  BY <1>1, ReturnContinues, ContinuesBegun DEF BasesKept
<1>2. CASE Keep(h, "seen", ref) /\ UNCHANGED session
  BY <1>2, KeepContinues, ContinuesBegun DEF BasesKept
<1>3. CASE /\ Live(ref) /\ ~BaseMoved(h) /\ call[h].kind \in {"begin", "resume"}
           /\ session' = [session EXCEPT ![call[h].op] =
                            [base |-> Target(ref), authority |-> call[h].stamp]]
           /\ Return(h)
  <2>1. pc[h] = "load"
    BY DEF Load
  <2>2. /\ BasesKept
        /\ \A t \in Sessions : t # call[h].op => session'[t] = session[t]
    BY <1>3, <2>1, LoadBases
  <2>3. Continues(h) /\ call'[h] = NoCall
    <3>1. call \in [Handles -> Calls \cup {NoCall}] /\ call' = [call EXCEPT ![h] = NoCall]
      BY <1>3 DEF Journal, Types, Return
    <3> QED
      BY <1>3, <3>1, ReturnContinues
  <2>4. call'[h].op \notin Sessions
    <3>1. NoCall.op = None
      BY DEF NoCall
    <3> QED
      BY <2>3, <3>1, NoneNoSession
  <2>5. ASSUME NEW g \in Handles, call'[g].op \in Sessions
        PROVE  g # h /\ call'[g] = call[g]
    BY <2>3, <2>4, <2>5 DEF Continues
  <2>6. ASSUME NEW g \in Handles, call'[g].op \in Sessions
        PROVE  IF call'[g].kind = "begin"
               THEN session'[call'[g].op] = None
               ELSE /\ session'[call'[g].op] # None
                    /\ call'[g].manifest.base = session'[call'[g].op].base
    <3>1. g # h /\ call'[g] = call[g] /\ call[g].op \in Sessions
      BY <2>5, <2>6
    <3>2. CASE call[g].kind = "begin"
      <4>1. session[call[g].op] = None
        BY <3>1, <3>2 DEF Begun
      <4>2. call[g].op # call[h].op
        <5>1. CASE call[h].kind = "begin"
          BY <3>1, <3>2, <5>1 DEF Begun
        <5>2. CASE call[h].kind # "begin"
          BY <3>1, <4>1, <5>2 DEF Begun
        <5> QED
          BY <5>1, <5>2
      <4> QED
        BY <2>2, <3>1, <3>2, <4>1, <4>2
    <3>3. CASE call[g].kind # "begin"
      <4>1. session[call[g].op] # None /\ call[g].manifest.base = session[call[g].op].base
        BY <3>1, <3>3 DEF Begun
      <4> QED
        BY <2>2, <3>1, <3>3, <4>1 DEF BasesKept
    <3> QED
      BY <3>2, <3>3
  <2>7. ASSUME NEW f \in Handles, NEW g \in Handles, call'[f].op \in Sessions,
               call'[f].op = call'[g].op, call'[f].kind = "begin", call'[g].kind = "begin"
        PROVE  f = g
    BY <2>5, <2>7 DEF Begun
  <2> QED
    BY <2>2, <2>6, <2>7 DEF Begun
<1> QED
  BY <1>1, <1>2, <1>3 DEF Load

LEMMA CallBegun ==
    ASSUME Journal, Begun, NEW h \in Handles, NEW kind \in Kinds,
           NEW op \in Ops \cup {Fresh(h)}, Call(h, kind, op)
    PROVE  Begun'
<1> DEFINE m == IF kind \in {"resume", "session"} THEN session[op] ELSE None
           c == [NewCall(h, kind, op) EXCEPT !.manifest = m]
<1>1. /\ UNCHANGED session /\ call' = [call EXCEPT ![h] = c]
      /\ call \in [Handles -> Calls \cup {NoCall}] /\ Fresh(h) \notin Ops
  BY Facts, FreshTyped DEF Call, Journal, Types
<1>2. kind \in {"create", "put", "begin", "resume", "session", "reset", "delete"}
  BY DEF Call
<1>3. /\ kind = "put" => op \in Puts
      /\ kind = "begin" =>
            op \in Sessions /\ session[op] = None /\ \A g \in Handles : call[g].op # op
      /\ kind \in {"resume", "session"} => op \in Sessions /\ session[op] # None
      /\ kind \in {"create", "reset", "delete"} => op = Fresh(h)
  BY <1>2 DEF Call
<1>4. c.kind = kind /\ c.op = op /\ c.manifest = m
  BY NewCallFields, SMT
<1>5. kind \in {"resume", "session"} => m = session[op]
  OBVIOUS
<1> HIDE DEF c, m
<1>6. call'[h] = c /\ \A g \in Handles \ {h} : call'[g] = call[g]
  BY <1>1
<1>7. op \in Sessions => kind \in {"begin", "resume", "session"}
  BY <1>1, <1>2, <1>3, OpsAssumption DEF Ops
<1>8. ASSUME NEW g \in Handles, call'[g].op \in Sessions
      PROVE  IF call'[g].kind = "begin"
             THEN session'[call'[g].op] = None
             ELSE /\ session'[call'[g].op] # None
                  /\ call'[g].manifest.base = session'[call'[g].op].base
  <2>1. CASE g = h
    BY <1>1, <1>3, <1>4, <1>5, <1>6, <1>7, <1>8, <2>1
  <2>2. CASE g # h
    BY <1>1, <1>6, <1>8, <2>2 DEF Begun
  <2> QED
    BY <2>1, <2>2
<1>9. ASSUME NEW f \in Handles, NEW g \in Handles, call'[f].op \in Sessions,
             call'[f].op = call'[g].op, call'[f].kind = "begin", call'[g].kind = "begin",
             f # g
      PROVE  FALSE
  <2>1. CASE f = h
    BY <1>3, <1>4, <1>6, <1>9, <2>1
  <2>2. CASE g = h
    BY <1>3, <1>4, <1>6, <1>9, <2>2
  <2>3. CASE f # h /\ g # h
    BY <1>6, <1>9, <2>3 DEF Begun
  <2> QED
    BY <2>1, <2>2, <2>3
<1> QED
  BY <1>8, <1>9 DEF Begun

LEMMA ConcludeBegun ==
    ASSUME Journal, Begun, UNCHANGED session, NEW h \in Handles,
           NEW task \in {"call", "renew"}, sent[<<h, task>>] # None,
           NEW object, NEW unknown,
           IF task = "call" THEN Conclude(h, object, unknown) ELSE ConcludeRenewal(h, object)
    PROVE  Begun'
<1>1. CASE task = "renew"
  <2>1. UNCHANGED call
    BY <1>1 DEF ConcludeRenewal
  <2> QED
    BY <2>1, UnchangedBegun
<1>2. CASE task = "call" /\ Failed(h, unknown)
  BY <1>2, ReturnContinues, ContinuesBegun, UnchangedBegun DEF Failed
<1>3. CASE task = "call" /\ Succeeded(h, object)
  <2>1. pc[h] \in {"acquire", "published", "pending", "barred", "active"}
    <3>1. CallOK(ref, pc[h], call[h], sent[<<h, "call">>]) /\ sent[<<h, "call">>] # None
      BY <1>3, Facts
    <3> QED
      BY <3>1 DEF CallOK
  <2>2. \/ Return(h) \/ UNCHANGED call
        \/ \E v : Keep(h, "stamp", v) \/ Keep(h, "seen", v)
    BY <1>3, <2>1 DEF Succeeded
  <2> QED
    BY <2>2, ReturnContinues, KeepContinues, ContinuesBegun, UnchangedBegun
<1> QED
  BY <1>1, <1>2, <1>3 DEF Conclude

LEMMA StepBegun ==
    ASSUME Journal, Begun, NEW h \in Handles, HandleStep(h)
    PROVE  Begun'
<1>1. CASE Load(h)
  BY <1>1, LoadBegun
<1>2. CASE Permit(h)
  <2>1. UNCHANGED session /\ (Return(h) \/ UNCHANGED call \/ \E v : Keep(h, "stamp", v))
    BY <1>2 DEF Permit
  <2> QED
    BY <2>1, ReturnContinues, KeepContinues, ContinuesBegun, UnchangedBegun
<1>3. CASE Validate(h) \/ Reconcile(h) \/ Publish(h) \/ Recheck(h) \/ Create(h) \/ Barrier(h)
  <2>1. UNCHANGED session /\ (Return(h) \/ UNCHANGED call)
    BY <1>3 DEF Validate, Reconcile, Publish, Recheck, Create, Barrier
  <2> QED
    BY <2>1, ReturnContinues, ContinuesBegun, UnchangedBegun
<1>4. CASE Activate(h) \/ Settle(h)
  <2>1. UNCHANGED session /\ (Return(h) \/ UNCHANGED call)
    BY <1>4 DEF Activate, Settle
  <2> QED
    BY <2>1, ReturnContinues, ContinuesBegun, UnchangedBegun
<1>5. ASSUME NEW task \in {"call", "renew"}, Answered(h, task) PROVE Begun'
  BY <1>5, ConcludeBegun DEF Answered
<1> QED
  BY <1>1, <1>2, <1>3, <1>4, <1>5 DEF HandleStep

LEMMA StartBegun ==
    ASSUME Journal, Begun, NEW h \in Handles, HandleStart(h)
    PROVE  Begun'
<1>1. ASSUME NEW kind \in Kinds, NEW op \in Ops \cup {Fresh(h)}, Call(h, kind, op)
      PROVE  Begun'
  BY <1>1, CallBegun
<1>2. None \notin Sessions /\ Fresh(h) \notin Sessions
  BY Facts, FreshTyped, NoneNoSession DEF Ops
<1>3. CASE Open(h) \/ Initialize(h)
  <2>1. /\ UNCHANGED session
        /\ \/ UNCHANGED call
           \/ \E kind, op : /\ op \in {None, Fresh(h)}
                            /\ call' = [call EXCEPT ![h] = NewCall(h, kind, op)]
    BY <1>3 DEF Open, Initialize
  <2>2. ASSUME NEW kind, NEW op, op \in {None, Fresh(h)},
               call' = [call EXCEPT ![h] = NewCall(h, kind, op)]
        PROVE  Begun'
    <3>1. NewCall(h, kind, op).op = op
      BY NewCallFields, SMT
    <3>2. NewCall(h, kind, op).op \notin Sessions
      BY <1>2, <2>2, <3>1
    <3> QED
      BY <2>1, <2>2, <3>2, StartContinues, ContinuesBegun
  <2> QED
    BY <2>1, <2>2, UnchangedBegun
<1>4. CASE BeginTakeover(h)
  <2>1. PICK c : call' = [call EXCEPT ![h] = c] /\ c.op = Fresh(h)
    <3>1. NewCall(h, "takeover", Fresh(h)).op = Fresh(h)
      BY NewCallFields, SMT
    <3>2. \A x : [NewCall(h, "takeover", Fresh(h)) EXCEPT !.seen = x].op = Fresh(h)
      BY NewCallFields, SMT
    <3> QED
      BY <1>4, <3>1, <3>2 DEF BeginTakeover
  <2>2. UNCHANGED session
    BY <1>4 DEF BeginTakeover
  <2> QED
    BY <1>2, <2>1, <2>2, StartContinues, ContinuesBegun
<1>5. CASE OpenReadOnly(h) \/ Renew(h)
  BY <1>5, UnchangedBegun DEF OpenReadOnly, Renew
<1> QED
  BY <1>1, <1>3, <1>4, <1>5 DEF HandleStart

LEMMA NextBegun ==
    ASSUME Journal, Begun, [Next]_vars
    PROVE  Begun'
<1>1. CASE Tick \/ UNCHANGED vars
  BY <1>1, UnchangedBegun DEF Tick, vars
<1>2. ASSUME NEW h \in Handles, NEW task \in {"call", "renew"}, Lost(h, task) PROVE Begun'
  BY <1>2, ConcludeBegun DEF Lost
<1>3. ASSUME NEW r \in requests, Unnoticed(r) PROVE Begun'
  BY <1>3, UnchangedBegun DEF Unnoticed
<1>4. ASSUME NEW h \in Handles, Crash(h) PROVE Begun'
  BY <1>4, ReturnContinues, ContinuesBegun DEF Crash
<1> QED
  BY <1>1, <1>2, <1>3, <1>4, StepBegun, StartBegun DEF Next

LEMMA InitBegun ==
    ASSUME Init
    PROVE  Begun
<1>1. \A h \in Handles : call[h].op \notin Sessions
  BY NoneNoSession DEF Init, NoCall
<1> QED
  BY <1>1 DEF Begun

-----------------------------------------------------------------------------
(* Steps that leave the store alone. *)

LEMMA LocalOnce ==
    ASSUME Once, Distinct, NEW h \in Handles, UNCHANGED store, Others(h),
           BasesKept,
           OwnCall(pc'[h], call'[h], sent'[<<h, "call">>], WriterOf[h]),
           OwnPermit(permit'[h], sent'[<<h, "renew">>], WriterOf[h]),
           OnceCall(ref, pc'[h], call'[h], WriterOf[h]),
           \A r \in requests' :
              \/ r \in requests
              \/ /\ OnceRequest(ref, session, r)
                 /\ r.object = "ref" => LastSent(r).authority.writer = WriterOf[h],
           Retried(ref, pc'[h], call'[h]) =>
              /\ Retried(ref, pc[h], call[h])
              /\ \A r \in requests' : r \in requests \/ r.object = "lease"
    PROVE  Once'
<1>1. ref' = ref
  BY DEF ref
<1>2. SessionOnce'
  BY <1>1 DEF Once, SessionOnce
<1>3. \A r \in requests' : OnceRequest(ref', session', r)
  <2>1. \A r \in requests' : OnceRequest(ref, session, r)
    BY DEF Once
  <2> QED
    BY <1>1, <2>1 DEF OnceRequest, BasesKept
<1>4. ASSUME NEW g \in Handles
      PROVE  OnceHandle(ref', requests', g, pc'[g], call'[g], permit'[g],
                        sent'[<<g, "call">>], sent'[<<g, "renew">>])
  <2>1. OnceHandle(ref, requests, g, pc[g], call[g], permit[g], sent[<<g, "call">>],
                   sent[<<g, "renew">>])
    BY DEF Once
  <2>2. CASE g = h
    <3>1. Retried(ref, pc'[h], call'[h]) => NoneOf(ref, requests', WriterOf[h])
      BY <2>1, <2>2 DEF OnceHandle, NoneOf
    <3> QED
      BY <1>1, <2>2, <3>1 DEF OnceHandle
  <2>3. CASE g # h
    <3>1. /\ pc'[g] = pc[g] /\ call'[g] = call[g] /\ permit'[g] = permit[g]
          /\ sent'[<<g, "call">>] = sent[<<g, "call">>]
          /\ sent'[<<g, "renew">>] = sent[<<g, "renew">>]
      BY <2>3 DEF Others, Frame
    <3>2. WriterOf[g] # WriterOf[h]
      BY <2>3 DEF Distinct
    <3>3. NoneOf(ref, requests, WriterOf[g]) => NoneOf(ref, requests', WriterOf[g])
      BY <3>2 DEF NoneOf
    <3> QED
      BY <1>1, <2>1, <3>1, <3>3 DEF OnceHandle
  <2> QED
    BY <2>2, <2>3
<1>5. \A g \in Handles :
         OnceHandle(ref, requests, g, pc[g], call[g], permit[g], sent[<<g, "call">>],
                    sent[<<g, "renew">>])'
  BY <1>4
<1> QED
  BY <1>2, <1>3, <1>5 DEF Once

LEMMA OnceFacts ==
    ASSUME Once, NEW h \in Handles
    PROVE  /\ OwnCall(pc[h], call[h], sent[<<h, "call">>], WriterOf[h])
           /\ OwnPermit(permit[h], sent[<<h, "renew">>], WriterOf[h])
           /\ OnceCall(ref, pc[h], call[h], WriterOf[h])
           /\ Retried(ref, pc[h], call[h]) => NoneOf(ref, requests, WriterOf[h])
BY DEF Once, OnceHandle

LEMMA QuietOnce ==
    ASSUME Journal, Begun, Once, Distinct, NEW h \in Handles,
           UNCHANGED <<store, requests, sent>>,
           BasesKept,
           Touched(pc, pc', h), Touched(call, call', h), Touched(permit, permit', h),
           permit'[h] \in {permit[h], None},
           OwnCall(pc'[h], call'[h], sent[<<h, "call">>], WriterOf[h]),
           OnceCall(ref, pc'[h], call'[h], WriterOf[h]),
           Retried(ref, pc'[h], call'[h]) => Retried(ref, pc[h], call[h])
    PROVE  Once'
<1>1. Others(h)
  BY Facts, StepOthers
<1>2. OwnPermit(permit[h], sent[<<h, "renew">>], WriterOf[h])
  BY OnceFacts
<1>3. OwnPermit(permit'[h], sent'[<<h, "renew">>], WriterOf[h])
  BY <1>2 DEF OwnPermit
<1> QED
  BY <1>1, <1>3, LocalOnce

LEMMA ReturnOnce ==
    ASSUME Journal, Begun, Once, Distinct, NEW h \in Handles, Return(h),
           UNCHANGED <<store, requests, sent>>, UNCHANGED permit \/ Fence(h),
           BasesKept
    PROVE  Once'
<1>1. /\ pc \in [Handles -> Labels] /\ permit \in [Handles -> Permits \cup {None}]
  BY Facts DEF Types, Rest
<1>2. /\ pc' = [pc EXCEPT ![h] = "idle"] /\ call' = [call EXCEPT ![h] = NoCall]
      /\ permit' = permit \/ permit' = [permit EXCEPT ![h] = None]
  BY DEF Return, Goto, Fence
<1>3. pc'[h] = "idle" /\ permit'[h] \in {permit[h], None}
  BY <1>1, <1>2
<1>4. Touched(pc, pc', h) /\ Touched(call, call', h) /\ Touched(permit, permit', h)
  BY <1>2 DEF Touched
<1>5. OwnCall("idle", call'[h], sent[<<h, "call">>], WriterOf[h])
  BY OnceFacts DEF OwnCall
<1>6. OnceCall(ref, "idle", call'[h], WriterOf[h]) /\ ~Retried(ref, "idle", call'[h])
  BY DEF OnceCall, Retried
<1> QED
  BY <1>3, <1>4, <1>5, <1>6, QuietOnce

LEMMA KeptSessions ==
    ASSUME UNCHANGED session
    PROVE  BasesKept
BY DEF BasesKept

LEMMA MoveOnce ==
    ASSUME Journal, Begun, Once, Distinct, NEW h \in Handles, NEW label \in Labels, Goto(h, label),
           UNCHANGED <<store, requests, sent, permit, session>>, Touched(call, call', h),
           OwnCall(label, call'[h], sent[<<h, "call">>], WriterOf[h]),
           OnceCall(ref, label, call'[h], WriterOf[h]),
           Retried(ref, label, call'[h]) => Retried(ref, pc[h], call[h])
    PROVE  Once'
<1>1. pc \in [Handles -> Labels] /\ pc' = [pc EXCEPT ![h] = label]
  BY DEF Journal, Types, Goto
<1>2. pc'[h] = label
  BY <1>1
<1>3. Touched(pc, pc', h) /\ Touched(permit, permit', h)
  BY <1>1 DEF Touched
<1>4. BasesKept
  BY KeptSessions
<1> QED
  BY <1>2, <1>3, <1>4, QuietOnce

LEMMA SendOnce ==
    ASSUME Journal, Begun, Once, Distinct, NEW h \in Handles, NEW label \in Labels, Goto(h, label),
           NEW r, sent' = [sent EXCEPT ![<<h, "call">>] = r], requests' = requests \cup {r},
           UNCHANGED <<store, permit, session>>, Touched(call, call', h),
           OwnCall(label, call'[h], r, WriterOf[h]),
           OnceCall(ref, label, call'[h], WriterOf[h]),
           Retried(ref, label, call'[h]) => Retried(ref, pc[h], call[h]) /\ r.object = "lease",
           OnceRequest(ref, session, r),
           r.object = "ref" => LastSent(r).authority.writer = WriterOf[h]
    PROVE  Once'
<1>1. /\ Types /\ pc \in [Handles -> Labels]
      /\ sent \in [Tasks -> LeaseRequests \cup RefRequests \cup {None}]
      /\ <<h, "call">> \in Tasks
  BY DEF Journal, Types, Tasks
<1>2. pc' = [pc EXCEPT ![h] = label]
  BY DEF Goto
<1>3. sent'[<<h, "call">>] = r /\ pc'[h] = label
  BY <1>1, <1>2
<1>4. Touched(pc, pc', h) /\ Touched(permit, permit', h)
  BY <1>2 DEF Touched
<1>5. Others(h) /\ sent'[<<h, "renew">>] = sent[<<h, "renew">>]
  BY <1>1, <1>2, <1>4, StepOthers
<1>6. OwnPermit(permit'[h], sent'[<<h, "renew">>], WriterOf[h])
  BY <1>5, OnceFacts
<1>7. BasesKept
  BY KeptSessions
<1>8. \A q \in requests' : q \in requests \/ q = r
  OBVIOUS
<1> QED
  BY <1>3, <1>5, <1>6, <1>7, <1>8, LocalOnce

-----------------------------------------------------------------------------
(* Sessions, action by action. *)

LEMMA NotSession ==
    ASSUME NEW f, NEW p, NEW c, NEW w, c.kind # "session"
    PROVE  OnceCall(f, p, c, w) /\ ~Retried(f, p, c)
BY DEF OnceCall, Retried

\* Between the reconciliation and the reading of the head nothing is gained or lost.
LEMMA Underway ==
    ASSUME NEW f, NEW w, NEW p \in {"permit", "acquire", "validate", "load"},
           NEW q \in {"permit", "acquire", "validate", "load"}, NEW c, NEW d,
           d.kind = c.kind, d.op = c.op, d.manifest = c.manifest,
           d.now = c.now, OnceCall(f, p, c, w)
    PROVE  OnceCall(f, q, d, w) /\ (Retried(f, q, d) => Retried(f, p, c))
BY DEF OnceCall, Retried

LEMMA AcquireOnce ==
    ASSUME Journal, Begun, Once, Distinct, NEW h \in Handles, NEW now \in Nat, NEW nonce \in Nonces,
           SendAcquire(h, now, nonce), Goto(h, "acquire"),
           UNCHANGED <<store, permit, session>>, Touched(call, call', h),
           OwnCall("acquire", call'[h], None, WriterOf[h]),
           OnceCall(ref, "acquire", call'[h], WriterOf[h]),
           Retried(ref, "acquire", call'[h]) => Retried(ref, pc[h], call[h])
    PROVE  Once'
<1>1. Exists(lease) => lease.value \in Leases
  BY Facts
<1>2. ASSUME NEW expected, NEW v, Send(h, "call", "lease", expected, v),
             v.writer = WriterOf[h]
      PROVE  Once'
  <2> DEFINE r == [from |-> <<h, "call">>, object |-> "lease", expected |-> expected,
                   value |-> v]
  <2>1. r.object = "lease" /\ r.value = v
    OBVIOUS
  <2>2. sent' = [sent EXCEPT ![<<h, "call">>] = r] /\ requests' = requests \cup {r}
    BY <1>2 DEF Send
  <2> HIDE DEF r
  <2>3. OnceRequest(ref, session, r)
    BY <2>1 DEF OnceRequest
  <2>4. OwnCall("acquire", call'[h], r, WriterOf[h])
    BY <1>2, <2>1 DEF OwnCall
  <2> QED
    BY <2>1, <2>2, <2>3, <2>4, SendOnce DEF Labels
<1>3. CASE Send(h, "call", "lease", 0, Lease(1, h, nonce, "active", now))
  <2>1. Lease(1, h, nonce, "active", now).writer = WriterOf[h]
    BY DEF Lease
  <2> QED
    BY <1>2, <1>3, <2>1
<1>4. CASE /\ Exists(lease) /\ lease.value.writer = WriterOf[h]
           /\ Send(h, "call", "lease", lease.token,
                   [lease.value EXCEPT !.expires = now + LeaseTicks])
  <2>1. [lease.value EXCEPT !.expires = now + LeaseTicks].writer = WriterOf[h]
    BY <1>1, <1>4 DEF Leases
  <2> QED
    BY <1>2, <1>4, <2>1
<1> QED
  BY <1>3, <1>4 DEF SendAcquire

LEMMA PermitOnce ==
    ASSUME Journal, Begun, Once, Distinct, NEW h \in Handles, Permit(h)
    PROVE  Once'
<1>1. UNCHANGED <<store, session>> /\ pc[h] = "permit"
  BY DEF Permit
<1>2. BasesKept
  BY <1>1, KeptSessions
<1>3. /\ Types /\ Rest /\ CallOK(ref, pc[h], call[h], sent[<<h, "call">>])
      /\ OwnCall("permit", call[h], sent[<<h, "call">>], WriterOf[h])
      /\ OwnPermit(permit[h], sent[<<h, "renew">>], WriterOf[h])
      /\ OnceCall(ref, "permit", call[h], WriterOf[h])
  BY <1>1, Facts, OnceFacts
<1>4. call[h] \in Calls /\ call[h].id \in Nonces /\ call[h].now \in Nat
  BY <1>1, <1>3 DEF CallOK, Calls
<1>5. CASE Return(h) /\ UNCHANGED <<requests, sent, permit, fenced>>
  BY <1>1, <1>2, <1>5, ReturnOnce
<1>6. CASE /\ permit[h] # None
           /\ Keep(h, "stamp", Stamp(permit[h].lease))
           /\ Goto(h, "validate")
           /\ UNCHANGED <<requests, sent, permit, fenced>>
  <2> DEFINE a == Stamp(permit[h].lease)
  <2>1. a \in Stamps /\ a.writer = WriterOf[h]
    <3>1. permit[h].lease \in Leases /\ permit[h].lease.writer = WriterOf[h]
      BY <1>3, <1>6 DEF Rest, Permits, OwnPermit
    <3> QED
      BY <3>1, StampTyped DEF Stamp
  <2>2. Keep(h, "stamp", a)
    BY <1>6
  <2> HIDE DEF a
  <2>4. /\ call'[h].kind = call[h].kind /\ call'[h].op = call[h].op
        /\ call'[h].stamp = a /\ call'[h].manifest = call[h].manifest
        /\ call'[h].now = call[h].now
    BY <1>3, <1>4, <2>1, <2>2, StampKept
  <2>5. /\ OnceCall(ref, "validate", call'[h], WriterOf[h])
        /\ Retried(ref, "validate", call'[h]) => Retried(ref, pc[h], call[h])
    BY <1>1, <1>3, <2>4 DEF OnceCall, Retried
  <2>6. OwnCall("validate", call'[h], sent[<<h, "call">>], WriterOf[h])
    BY <1>3, <2>1, <2>4 DEF OwnCall
  <2>7. Touched(call, call', h)
    BY <2>2, KeepTouched
  <2> QED
    BY <1>1, <1>6, <2>5, <2>6, <2>7, MoveOnce DEF Labels
<1>7. CASE Fence(h) /\ Return(h) /\ UNCHANGED <<requests, sent>>
  BY <1>1, <1>2, <1>7, ReturnOnce
<1>8. CASE /\ SendAcquire(h, call[h].now, call[h].id)
           /\ Goto(h, "acquire")
           /\ UNCHANGED <<call, permit, fenced>>
  <2>1. /\ OnceCall(ref, "acquire", call'[h], WriterOf[h])
        /\ Retried(ref, "acquire", call'[h]) => Retried(ref, pc[h], call[h])
    BY <1>1, <1>3, <1>8, Underway, SMT
  <2>2. OwnCall("acquire", call'[h], None, WriterOf[h])
    BY <1>3, <1>8 DEF OwnCall
  <2> QED
    BY <1>1, <1>4, <1>8, <2>1, <2>2, AcquireOnce DEF Touched
<1> QED
  BY <1>5, <1>6, <1>7, <1>8 DEF Permit

LEMMA ValidateOnce ==
    ASSUME Journal, Begun, Once, Distinct, NEW h \in Handles, Validate(h)
    PROVE  Once'
<1>1. UNCHANGED <<store, requests, sent, session>> /\ pc[h] = "validate"
  BY DEF Validate
<1>2. BasesKept
  BY <1>1, KeptSessions
<1>3. /\ CallOK(ref, "validate", call[h], sent[<<h, "call">>])
      /\ OwnCall("validate", call[h], sent[<<h, "call">>], WriterOf[h])
      /\ OnceCall(ref, "validate", call[h], WriterOf[h])
  BY <1>1, Facts, OnceFacts
<1>4. CASE Return(h) /\ UNCHANGED <<permit, fenced>>
  BY <1>1, <1>2, <1>4, ReturnOnce
<1>5. CASE /\ Goto(h, AfterValidate(call[h].kind)) /\ UNCHANGED call
           /\ UNCHANGED <<permit, fenced>>
  <2> DEFINE label == AfterValidate(call[h].kind)
  <2>1. call[h].kind \in OpKinds
    BY <1>3 DEF CallOK
  <2>2. /\ label \in {"reconcile", "load", "publish", "recheck"}
        /\ call[h].kind = "session" => label = "load"
    BY <2>1 DEF AfterValidate, OpKinds
  <2> HIDE DEF label
  <2>3. OwnCall(label, call'[h], sent[<<h, "call">>], WriterOf[h])
    BY <1>3, <1>5, <2>2 DEF OwnCall
  <2>4. /\ OnceCall(ref, label, call'[h], WriterOf[h])
        /\ Retried(ref, label, call'[h]) => Retried(ref, pc[h], call[h])
    BY <1>1, <1>3, <1>5, <2>2 DEF OnceCall, Retried
  <2>5. Goto(h, label) /\ label \in Labels /\ Touched(call, call', h)
    BY <1>5, <2>2 DEF label, Labels, Touched
  <2> QED
    BY <1>1, <1>5, <2>3, <2>4, <2>5, MoveOnce
<1>6. CASE Fence(h) /\ Return(h)
  BY <1>1, <1>2, <1>6, ReturnOnce
<1> QED
  BY <1>4, <1>5, <1>6 DEF Validate

LEMMA ReconcileOnce ==
    ASSUME Journal, Begun, Once, Distinct, NEW h \in Handles, Reconcile(h)
    PROVE  Once'
<1>1. UNCHANGED <<store, requests, sent, permit, session>> /\ pc[h] = "reconcile"
  BY DEF Reconcile, local
<1>2. BasesKept
  BY <1>1, KeptSessions
<1>3. OwnCall("reconcile", call[h], sent[<<h, "call">>], WriterOf[h])
  BY <1>1, OnceFacts
<1>4. CASE Return(h)
  BY <1>1, <1>2, <1>4, ReturnOnce
<1>5. CASE /\ Misses(call[h].op, ref, call[h].now)
           /\ Goto(h, IF call[h].kind = "session" THEN "permit" ELSE "load")
           /\ UNCHANGED call
  <2> DEFINE label == IF call[h].kind = "session" THEN "permit" ELSE "load"
  <2>1. label \in {"permit", "load"}
    OBVIOUS
  <2>2. Goto(h, label)
    BY <1>5
  <2> HIDE DEF label
  <2>3. OwnCall(label, call'[h], sent[<<h, "call">>], WriterOf[h])
    BY <1>3, <1>5, <2>1 DEF OwnCall
  <2>4. ~Repeats(call[h].op, ref, call[h].now)
    BY <1>5 DEF Misses, Repeats
  <2>5. OnceCall(ref, label, call'[h], WriterOf[h]) /\ ~Retried(ref, label, call'[h])
    BY <1>5, <2>1, <2>4 DEF OnceCall, Retried
  <2> QED
    BY <1>1, <1>5, <2>1, <2>2, <2>3, <2>5, MoveOnce DEF Labels, Touched
<1> QED
  BY <1>4, <1>5 DEF Reconcile

\* A commit is not on top of itself.
LEMMA Grows ==
    ASSUME NEW target \in Seq(OpIds), NEW op \in OpIds
    PROVE  Append(target, op) # target
<1>1. Len(target) \in Nat /\ Len(Append(target, op)) = Len(target) + 1
  BY SMT
<1>2. Len(target) # Len(target) + 1
  BY <1>1, SMT
<1> QED
  BY <1>1, <1>2

LEMMA LoadOnce ==
    ASSUME Journal, Begun, Once, Distinct, NEW h \in Handles, Load(h)
    PROVE  Once'
<1>1. UNCHANGED <<store, requests, sent, permit>> /\ pc[h] = "load"
  BY DEF Load, local
<1>2. /\ Types /\ Rest /\ CallOK(ref, "load", call[h], sent[<<h, "call">>])
      /\ Exists(ref) => ref \in HeldRefs
      /\ OwnCall("load", call[h], sent[<<h, "call">>], WriterOf[h])
      /\ OnceCall(ref, "load", call[h], WriterOf[h])
  BY <1>1, Facts, OnceFacts
<1>3. call[h] \in Calls
  BY <1>2 DEF CallOK
<1>4. CASE Return(h) /\ UNCHANGED session
  <2>1. BasesKept
    BY <1>4, KeptSessions
  <2> QED
    BY <1>1, <1>4, <2>1, ReturnOnce
<1>5. CASE /\ Live(ref)
           /\ session' = [session EXCEPT ![call[h].op] =
                            [base |-> Target(ref), authority |-> call[h].stamp]]
           /\ Return(h)
  BY <1>1, <1>5, LoadBegun, ReturnOnce
<1>6. CASE /\ Live(ref) /\ ~BaseMoved(h)
           /\ Keep(h, "seen", ref)
           /\ Goto(h, IF call[h].kind = "delete" THEN "permit" ELSE "publish")
           /\ UNCHANGED session
  <2> DEFINE label == IF call[h].kind = "delete" THEN "permit" ELSE "publish"
  <2>1. ref \in HeldRefs
    BY <1>2, <1>6 DEF Live
  <2>3. /\ call'[h].kind = call[h].kind /\ call'[h].op = call[h].op
        /\ call'[h].stamp = call[h].stamp /\ call'[h].seen = ref
        /\ call'[h].manifest = call[h].manifest /\ call'[h].now = call[h].now
    BY <1>2, <1>3, <1>6, <2>1, SeenKept
  <2>4. OwnCall(label, call'[h], sent[<<h, "call">>], WriterOf[h])
    BY <1>2, <2>3 DEF OwnCall
  <2>5. ASSUME call[h].kind = "session" PROVE Target(ref) = call[h].manifest.base
    BY <1>6, <2>5 DEF BaseMoved
  <2>9. ASSUME call[h].kind = "session", Authority(ref) = call[h].stamp
        PROVE  ~Repeats(call[h].op, ref, call[h].now)
    <3>1. call[h].op \in OpIds /\ Target(ref) \in Seq(OpIds) /\ Authority(ref) \in Stamps
      BY <1>2, <2>1, <2>9, TargetTyped DEF CallOK
    <3>2. Target(ref) # Append(call[h].manifest.base, call[h].op)
      BY <2>5, <2>9, <3>1, Grows
    <3>3. Authority(ref).writer = WriterOf[h]
      BY <1>2, <2>9, <3>1 DEF OwnCall
    <3> QED
      BY <1>2, <2>9, <3>2, <3>3 DEF OnceCall
  <2>6. OnceCall(ref, label, call'[h], WriterOf[h]) /\ ~Retried(ref, label, call'[h])
    BY <2>3, <2>5, <2>9 DEF OnceCall, Retried
  <2>7. Goto(h, label) /\ label \in Labels
    BY <1>6 DEF Labels
  <2>8. Touched(call, call', h)
    BY <1>6, KeepTouched
  <2> HIDE DEF label
  <2> QED
    BY <1>1, <1>6, <2>4, <2>6, <2>7, <2>8, MoveOnce
<1> QED
  BY <1>4, <1>5, <1>6 DEF Load

\* A request for the ref made from the value f that the call has read.
LEMMA RefSendOnce ==
    ASSUME Journal, Begun, Once, Distinct, NEW h \in Handles, NEW label \in {"published", "barred"},
           Goto(h, label), NEW f, f = Absent \/ SeenRef(ref, f), NEW e \in Events,
           NEW gone \in BOOLEAN, Send(h, "call", "ref", f.token, RefValue(f, e, gone)),
           UNCHANGED <<store, permit, call, session>>, pc[h] # "idle",
           label = "barred" => pc[h] = "barrier",
           e.authority.writer = WriterOf[h],
           f.token = ref.token =>
              (e.op \in Sessions =>
                  /\ ~Repeats(e.op, ref, e.at) /\ session[e.op] # None
                  /\ e.target = Append(session[e.op].base, e.op))
    PROVE  Once'
<1> DEFINE v == RefValue(f, e, gone)
           r == [from |-> <<h, "call">>, object |-> "ref", expected |-> f.token, value |-> v]
<1>1. f = Absent \/ (f \in HeldRefs /\ Len(f.value.log) = f.token)
  BY DEF SeenRef
<1>2. v.log[Len(v.log)] = e
  <2>1. v = RefValue(f, e, gone)
    OBVIOUS
  <2> HIDE DEF v
  <2> QED
    BY <1>1, <2>1, Continued, SMT
<1>3. Send(h, "call", "ref", f.token, v)
  OBVIOUS
<1> HIDE DEF v
<1>4. r.object = "ref" /\ r.expected = f.token /\ r.value = v
  OBVIOUS
<1>5. sent' = [sent EXCEPT ![<<h, "call">>] = r] /\ requests' = requests \cup {r}
  BY <1>3 DEF Send
<1> HIDE DEF r
<1>6. LastSent(r) = e
  BY <1>2, <1>4 DEF LastSent
<1>7. OnceRequest(ref, session, r)
  BY <1>4, <1>6 DEF OnceRequest
<1>8. r \notin LeaseRequests
  BY <1>4 DEF LeaseRequests
<1>9. OwnCall(pc[h], call[h], sent[<<h, "call">>], WriterOf[h])
  BY OnceFacts
<1>10. OwnCall(label, call'[h], r, WriterOf[h])
  BY <1>8, <1>9 DEF OwnCall
<1>11. OnceCall(ref, label, call'[h], WriterOf[h]) /\ ~Retried(ref, label, call'[h])
  BY DEF OnceCall, Retried
<1>12. label \in Labels /\ Touched(call, call', h)
  BY DEF Labels, Touched
<1>13. LastSent(r).authority.writer = WriterOf[h]
  BY <1>6
<1> QED
  BY <1>4, <1>5, <1>7, <1>10, <1>11, <1>12, <1>13, SendOnce

LEMMA PublishOnce ==
    ASSUME Journal, Begun, Once, Distinct, NEW h \in Handles, Publish(h)
    PROVE  Once'
<1> DEFINE seen == call[h].seen
           stamp == call[h].stamp
           op == call[h].op
<1>1. pc[h] = "publish" /\ UNCHANGED <<store, permit, session>>
  BY DEF Publish, local
<1>2. /\ CallOK(ref, "publish", call[h], sent[<<h, "call">>])
      /\ OwnCall("publish", call[h], sent[<<h, "call">>], WriterOf[h])
      /\ OnceCall(ref, "publish", call[h], WriterOf[h])
  BY <1>1, Facts, OnceFacts
<1>3. /\ op \in OpIds /\ SeenRef(ref, seen) /\ call[h].now \in Nat
      /\ call[h].kind \in {"put", "session", "reset", "delete"}
  BY <1>2 DEF CallOK, Calls
<1>4. CASE Return(h) /\ UNCHANGED <<requests, sent>>
  <2>1. BasesKept
    BY <1>1, KeptSessions
  <2> QED
    BY <1>1, <1>4, <2>1, ReturnOnce
<1>5. ASSUME ValidActive(stamp, call[h].now), Authority(seen) = stamp,
             NEW target \in NewTargets(h),
             Send(h, "call", "ref", seen.token,
                  RefValue(seen, Event(op, target, stamp, call[h].now),
                           call[h].kind = "delete")),
             Goto(h, "published"), UNCHANGED call
      PROVE  Once'
  <2> DEFINE e == Event(op, target, stamp, call[h].now)
             gone == call[h].kind = "delete"
  <2>1. stamp \in Stamps
    BY <1>5, ActiveStamp
  <2>2. seen \in HeldRefs
    BY <1>3 DEF SeenRef
  <2>3. commits \subseteq Seq(OpIds) /\ Target(seen) \in Seq(OpIds)
    BY <2>2, Facts, TargetTyped DEF Rest
  <2>4. target \in Seq(OpIds)
    BY <1>3, <1>5, <2>3, SMT DEF NewTargets
  <2>5. e \in Events
    BY <1>3, <2>1, <2>4, EventTyped
  <2>6. e.op = op /\ e.target = target /\ e.authority = stamp /\ e.at = call[h].now
    BY DEF Event
  <2>7. stamp.writer = WriterOf[h]
    BY <1>2, <2>1 DEF OwnCall
  <2>8. op \in Sessions => call[h].kind = "session"
    BY <1>2, <1>3, OpsAssumption, NoncesAssumption DEF OwnCall, Ops
  <2>9. ASSUME seen.token = ref.token, op \in Sessions
        PROVE  /\ ~Repeats(op, ref, call[h].now) /\ session[op] # None
               /\ target = Append(session[op].base, op)
    <3>1. seen = ref /\ call[h].kind = "session"
      BY <1>3, <2>8, <2>9 DEF SeenRef
    <3>2. ~Repeats(op, ref, call[h].now) /\ Target(seen) = call[h].manifest.base
      BY <1>2, <1>5, <3>1 DEF OnceCall
    <3>3. session[op] # None /\ call[h].manifest.base = session[op].base
      BY <2>9, <3>1 DEF Begun
    <3>4. target = Append(Target(seen), op)
      BY <1>5, <3>1 DEF NewTargets
    <3> QED
      BY <3>2, <3>3, <3>4
  <2>10. Send(h, "call", "ref", seen.token, RefValue(seen, e, gone)) /\ gone \in BOOLEAN
    BY <1>5
  <2> HIDE DEF e, seen, stamp, gone, op
  <2> QED
    BY <1>1, <1>3, <1>5, <2>5, <2>6, <2>7, <2>9, <2>10, RefSendOnce
<1> QED
  BY <1>4, <1>5 DEF Publish

LEMMA CreateOnce ==
    ASSUME Journal, Begun, Once, Distinct, NEW h \in Handles, Create(h)
    PROVE  Once'
<1> DEFINE base == IF call[h].kind = "init" THEN [token |-> 0, value |-> None] ELSE ref
           op == call[h].op
           stamp == call[h].stamp
<1>1. pc[h] = "create" /\ UNCHANGED <<store, permit, session>>
  BY DEF Create, local
<1>2. /\ CallOK(ref, "create", call[h], sent[<<h, "call">>]) /\ StoreOK
      /\ OwnCall("create", call[h], sent[<<h, "call">>], WriterOf[h])
  BY <1>1, Facts, OnceFacts
<1>3. /\ op \in OpIds /\ stamp \in Stamps /\ call[h].now \in Nat
      /\ call[h].kind \in {"create", "init"}
  BY <1>2 DEF CallOK, Calls
<1>4. stamp.writer = WriterOf[h] /\ op \notin Sessions
  BY <1>2, <1>3, NoncesAssumption DEF OwnCall, Ops
<1>5. CASE Return(h) /\ UNCHANGED <<requests, sent>>
  <2>1. BasesKept
    BY <1>1, KeptSessions
  <2> QED
    BY <1>1, <1>5, <2>1, ReturnOnce
<1>6. ASSUME NEW target \in IF call[h].kind = "init" THEN {<<>>} ELSE commits,
             Send(h, "call", "ref", base.token,
                  RefValue(base, Event(op, target, stamp, call[h].now), FALSE)),
             Goto(h, "published"), UNCHANGED call
      PROVE  Once'
  <2> DEFINE e == Event(op, target, stamp, call[h].now)
  <2>1. base = Absent \/ (SeenRef(ref, base) /\ base = ref)
    BY <1>2, SeenNow DEF Absent
  <2> HIDE DEF base
  <2>2. commits \subseteq Seq(OpIds)
    BY Facts DEF Rest
  <2>3. <<>> \in Seq(OpIds)
    BY SMT
  <2>4. target \in Seq(OpIds)
    BY <1>6, <2>2, <2>3
  <2>5. e \in Events
    BY <1>3, <2>4, EventTyped
  <2>6. e.op = op /\ e.target = target /\ e.authority = stamp
    BY DEF Event
  <2>9. Send(h, "call", "ref", base.token, RefValue(base, e, FALSE))
    BY <1>6
  <2> HIDE DEF e, op, stamp
  <2> QED
    BY <1>1, <1>4, <1>6, <2>1, <2>5, <2>6, <2>9, RefSendOnce
<1> QED
  BY <1>5, <1>6 DEF Create

LEMMA BarrierOnce ==
    ASSUME Journal, Begun, Once, Distinct, NEW h \in Handles, Barrier(h)
    PROVE  Once'
<1> DEFINE stamp == Stamp(call[h].seen.lease)
           op == call[h].op
           e == Event(op, Target(ref), stamp, call[h].now)
<1>1. pc[h] = "barrier" /\ UNCHANGED <<store, permit, session>>
  BY DEF Barrier, local
<1>2. /\ CallOK(ref, "barrier", call[h], sent[<<h, "call">>]) /\ StoreOK
      /\ OwnCall("barrier", call[h], sent[<<h, "call">>], WriterOf[h])
      /\ Exists(ref) => ref \in HeldRefs
  BY <1>1, Facts, OnceFacts
<1>3. /\ call[h] \in Calls /\ call[h].seen \in Permits /\ call[h].kind = "takeover"
      /\ op \in OpIds
  BY <1>2 DEF CallOK
<1>4. stamp.writer = WriterOf[h] /\ op \notin Sessions
  BY <1>2, <1>3, NoncesAssumption DEF OwnCall, Ops, Stamp
<1>5. CASE Return(h) /\ UNCHANGED <<requests, sent>>
  <2>1. BasesKept
    BY <1>1, KeptSessions
  <2> QED
    BY <1>1, <1>5, <2>1, ReturnOnce
<1>6. CASE /\ Live(ref)
           /\ Send(h, "call", "ref", ref.token, RefValue(ref, e, FALSE))
           /\ Goto(h, "barred") /\ UNCHANGED call
  <2>1. ref \in HeldRefs
    BY <1>2, <1>6 DEF Live
  <2>2. Target(ref) \in Seq(OpIds)
    BY <2>1, TargetTyped
  <2>3. stamp \in Stamps
    BY <1>3, StampTyped DEF Permits
  <2>4. call[h].now \in Nat
    BY <1>3 DEF Calls
  <2>5. e \in Events
    BY <1>3, <2>2, <2>3, <2>4, EventTyped
  <2>6. e.op = op /\ e.target = Target(ref) /\ e.authority = stamp
    BY DEF Event
  <2>7. ref = Absent \/ SeenRef(ref, ref)
    BY <1>2, SeenNow
  <2> HIDE DEF e, op, stamp
  <2> QED
    BY <1>1, <1>4, <1>6, <2>5, <2>6, <2>7, RefSendOnce
<1> QED
  BY <1>5, <1>6 DEF Barrier

LEMMA RecheckOnce ==
    ASSUME Journal, Begun, Once, Distinct, NEW h \in Handles, Recheck(h)
    PROVE  Once'
<1>1. UNCHANGED <<store, requests, sent, permit, session>> /\ pc[h] = "recheck"
  BY DEF Recheck, local
<1>2. BasesKept
  BY <1>1, KeptSessions
<1>3. OwnCall("recheck", call[h], sent[<<h, "call">>], WriterOf[h])
  BY <1>1, OnceFacts
<1>4. CASE Return(h)
  BY <1>1, <1>2, <1>4, ReturnOnce
<1>5. CASE Goto(h, "create") /\ UNCHANGED call
  <2>1. OwnCall("create", call'[h], sent[<<h, "call">>], WriterOf[h])
    BY <1>3, <1>5 DEF OwnCall
  <2>2. OnceCall(ref, "create", call'[h], WriterOf[h]) /\ ~Retried(ref, "create", call'[h])
    BY DEF OnceCall, Retried
  <2> QED
    BY <1>1, <1>5, <2>1, <2>2, MoveOnce DEF Labels, Touched
<1> QED
  BY <1>4, <1>5 DEF Recheck

LEMMA SettleOnce ==
    ASSUME Journal, Begun, Once, Distinct, NEW h \in Handles, Settle(h)
    PROVE  Once'
<1>1. BasesKept
  BY KeptSessions DEF Settle
<1> QED
  BY <1>1, ReturnOnce DEF Settle

\* A request for the lease made by the writer of the handle, outside a session.
LEMMA LeaseSendOnce ==
    ASSUME Journal, Begun, Once, Distinct, NEW h \in Handles, NEW label \in {"pending", "active"},
           Goto(h, label), NEW expected, NEW v, Send(h, "call", "lease", expected, v),
           UNCHANGED <<store, permit, session>>, Touched(call, call', h),
           v.writer = WriterOf[h], OwnCall(label, call'[h], None, WriterOf[h])
    PROVE  Once'
<1> DEFINE r == [from |-> <<h, "call">>, object |-> "lease", expected |-> expected,
                 value |-> v]
<1>1. r.object = "lease" /\ r.value = v
  OBVIOUS
<1>2. sent' = [sent EXCEPT ![<<h, "call">>] = r] /\ requests' = requests \cup {r}
  BY DEF Send
<1> HIDE DEF r
<1>3. OnceRequest(ref, session, r)
  BY <1>1 DEF OnceRequest
<1>4. OwnCall(label, call'[h], r, WriterOf[h])
  BY <1>1 DEF OwnCall
<1>5. OnceCall(ref, label, call'[h], WriterOf[h]) /\ ~Retried(ref, label, call'[h])
  BY DEF OnceCall, Retried
<1>6. label \in Labels
  BY DEF Labels
<1> QED
  BY <1>1, <1>2, <1>3, <1>4, <1>5, <1>6, SendOnce

LEMMA ActivateOnce ==
    ASSUME Journal, Begun, Once, Distinct, NEW h \in Handles, Activate(h)
    PROVE  Once'
<1> DEFINE l == call[h].seen.lease
           v == [l EXCEPT !.state = "active", !.expires = call[h].now + LeaseTicks]
<1>1. /\ pc[h] = "activate" /\ UNCHANGED <<store, permit, call, session>>
      /\ Goto(h, "active") /\ Send(h, "call", "lease", call[h].seen.token, v)
  BY DEF Activate, local
<1>2. /\ CallOK(ref, "activate", call[h], sent[<<h, "call">>])
      /\ OwnCall("activate", call[h], sent[<<h, "call">>], WriterOf[h])
  BY <1>1, Facts, OnceFacts
<1>3. l \in Leases /\ l.writer = WriterOf[h]
  BY <1>2 DEF CallOK, Permits, OwnCall
<1> HIDE DEF l
<1>4. v.writer = WriterOf[h]
  BY <1>3 DEF Leases
<1> HIDE DEF v
<1>5. OwnCall("active", call'[h], None, WriterOf[h])
  BY <1>1, <1>2 DEF OwnCall
<1> QED
  BY <1>1, <1>4, <1>5, LeaseSendOnce DEF Touched

LEMMA CallOnce ==
    ASSUME Journal, Begun, Once, Distinct, NEW h \in Handles, NEW kind \in Kinds,
           NEW op \in Ops \cup {Fresh(h)}, Call(h, kind, op)
    PROVE  Once'
<1> DEFINE m == IF kind \in {"resume", "session"} THEN session[op] ELSE None
           c == [NewCall(h, kind, op) EXCEPT !.manifest = m]
<1>1. /\ UNCHANGED <<store, requests, sent, permit, session>>
      /\ Goto(h, FirstStep(kind)) /\ call' = [call EXCEPT ![h] = c]
      /\ kind \in Kinds \cap OpKinds
  BY DEF Call, local, OpKinds
<1>2. /\ OwnCall(pc[h], call[h], sent[<<h, "call">>], WriterOf[h])
      /\ Types /\ call \in [Handles -> Calls \cup {NoCall}] /\ Fresh(h) \in Nonces
  BY Facts, OnceFacts, FreshTyped DEF Types
<1>3. /\ kind = "put" => op \in Puts
      /\ kind \in {"begin", "resume", "session"} => op \in Sessions
      /\ kind \in {"create", "reset", "delete"} => op \in Nonces
  BY <1>2 DEF Call
<1>4. c.kind = kind /\ c.op = op /\ c.stamp = None /\ c.manifest = m
  BY NewCallFields, SMT
<1>6. call'[h] = c
  BY <1>1, <1>2
<1> HIDE DEF c, m
<1>7. /\ FirstStep(kind) \in {"reconcile", "load", "permit"}
      /\ kind = "session" => FirstStep(kind) = "reconcile"
  BY DEF FirstStep
<1>8. OwnCall(FirstStep(kind), c, sent[<<h, "call">>], WriterOf[h])
  <2>1. c.stamp \notin Stamps
    BY <1>4, NoneAssumption
  <2>2. kind \notin {"init", "takeover"}
    BY <1>1 DEF OpKinds
  <2> QED
    BY <1>2, <1>3, <1>4, <1>7, <2>1, <2>2 DEF OwnCall
<1>10. OnceCall(ref, FirstStep(kind), c, WriterOf[h]) /\ ~Retried(ref, FirstStep(kind), c)
  BY <1>4, <1>7 DEF OnceCall, Retried
<1>11. FirstStep(kind) \in Labels /\ Touched(call, call', h)
  BY <1>1, <1>7 DEF Labels, Touched
<1> QED
  BY <1>1, <1>6, <1>8, <1>10, <1>11, MoveOnce

LEMMA IdleOnce ==
    ASSUME Once, UNCHANGED <<store, requests, pc, call, sent, permit, session>>
    PROVE  Once'
<1>1. ref' = ref
  BY DEF ref
<1>2. SessionOnce' /\ \A r \in requests' : OnceRequest(ref', session', r)
  BY <1>1 DEF Once, SessionOnce
<1>4. \A h \in Handles :
         OnceHandle(ref, requests, h, pc[h], call[h], permit[h], sent[<<h, "call">>],
                    sent[<<h, "renew">>])'
  <2>1. \A h \in Handles :
           OnceHandle(ref', requests', h, pc'[h], call'[h], permit'[h], sent'[<<h, "call">>],
                      sent'[<<h, "renew">>])
    BY <1>1 DEF Once
  <2> QED
    BY <2>1
<1> QED
  BY <1>2, <1>4 DEF Once

LEMMA OpenOnce ==
    ASSUME Journal, Begun, Once, Distinct, NEW h \in Handles, Open(h) \/ Initialize(h)
    PROVE  Once'
<1>1. /\ UNCHANGED <<store, permit, session>> /\ clock \in Nat /\ Fresh(h) \in Nonces
      /\ call \in [Handles -> Calls \cup {NoCall}]
  BY Facts, FreshTyped DEF Open, Initialize, local, Types
<1>2. CASE UNCHANGED <<requests, sent, pc, call>>
  BY <1>1, <1>2, IdleOnce
<1>3. ASSUME SendAcquire(h, clock, Fresh(h)), Goto(h, "acquire"), NEW kind, NEW op,
             call' = [call EXCEPT ![h] = NewCall(h, kind, op)],
             kind = "open" \/ (kind = "init" /\ op = Fresh(h))
      PROVE  Once'
  <2> DEFINE c == NewCall(h, kind, op)
  <2>1. c.kind = kind /\ c.op = op /\ c.stamp = None
    BY NewCallFields, SMT
  <2>2. call' = [call EXCEPT ![h] = c]
    BY <1>3
  <2> HIDE DEF c
  <2>3. call'[h] = c /\ Touched(call, call', h)
    BY <1>1, <2>2 DEF Touched
  <2>4. c.stamp \notin Stamps
    BY <2>1, NoneAssumption
  <2>5. OwnCall("acquire", c, None, WriterOf[h])
    BY <1>1, <1>3, <2>1, <2>4 DEF OwnCall
  <2>6. OnceCall(ref, "acquire", c, WriterOf[h]) /\ ~Retried(ref, "acquire", c)
    BY <1>3, <2>1 DEF OnceCall, Retried
  <2> QED
    BY <1>1, <1>3, <2>3, <2>5, <2>6, AcquireOnce
<1> QED
  BY <1>2, <1>3 DEF Open, Initialize

LEMMA BeginTakeoverOnce ==
    ASSUME Journal, Begun, Once, Distinct, NEW h \in Handles, BeginTakeover(h)
    PROVE  Once'
<1>1. /\ UNCHANGED <<store, permit, session>> /\ Fresh(h) \in Nonces
      /\ call \in [Handles -> Calls \cup {NoCall}]
      /\ OwnCall(pc[h], call[h], sent[<<h, "call">>], WriterOf[h])
  BY Facts, FreshTyped, OnceFacts DEF BeginTakeover, local, Types
<1>2. CASE /\ lease.value.writer = WriterOf[h]
           /\ call' = [call EXCEPT ![h] =
                [NewCall(h, "takeover", Fresh(h)) EXCEPT
                    !.seen = [lease |-> lease.value, token |-> lease.token]]]
           /\ Goto(h, "barrier")
           /\ UNCHANGED <<requests, sent>>
  <2> DEFINE held == [lease |-> lease.value, token |-> lease.token]
             c == [NewCall(h, "takeover", Fresh(h)) EXCEPT !.seen = held]
  <2>1. held.lease.writer = WriterOf[h]
    BY <1>2
  <2>2. call' = [call EXCEPT ![h] = c]
    BY <1>2
  <2> HIDE DEF held
  <2>3. c.kind = "takeover" /\ c.op = Fresh(h) /\ c.stamp = None /\ c.seen = held
    BY NewCallFields, SMT
  <2> HIDE DEF c
  <2>4. call'[h] = c /\ Touched(call, call', h)
    BY <1>1, <2>2 DEF Touched
  <2>5. c.stamp \notin Stamps
    BY <2>3, NoneAssumption
  <2>6. OwnCall("barrier", c, sent[<<h, "call">>], WriterOf[h])
    BY <1>1, <2>1, <2>3, <2>5 DEF OwnCall
  <2>7. OnceCall(ref, "barrier", c, WriterOf[h]) /\ ~Retried(ref, "barrier", c)
    BY <2>3 DEF OnceCall, Retried
  <2> QED
    BY <1>1, <1>2, <2>4, <2>6, <2>7, MoveOnce DEF Labels
<1>3. CASE /\ Send(h, "call", "lease", lease.token,
                   Lease(lease.value.generation + 1, h, Fresh(h), "pending", clock))
           /\ call' = [call EXCEPT ![h] = NewCall(h, "takeover", Fresh(h))]
           /\ Goto(h, "pending")
  <2> DEFINE v == Lease(lease.value.generation + 1, h, Fresh(h), "pending", clock)
             c == NewCall(h, "takeover", Fresh(h))
  <2>1. v.writer = WriterOf[h]
    BY DEF Lease
  <2>2. c.kind = "takeover" /\ c.op = Fresh(h) /\ c.stamp = None
    BY NewCallFields, SMT
  <2>3. Send(h, "call", "lease", lease.token, v) /\ call' = [call EXCEPT ![h] = c]
    BY <1>3
  <2> HIDE DEF v, c
  <2>4. call'[h] = c /\ Touched(call, call', h)
    BY <1>1, <2>3 DEF Touched
  <2>5. c.stamp \notin Stamps
    BY <2>2, NoneAssumption
  <2>6. OwnCall("pending", c, None, WriterOf[h])
    BY <1>1, <2>2, <2>5 DEF OwnCall
  <2> QED
    BY <1>1, <1>3, <2>1, <2>3, <2>4, <2>6, LeaseSendOnce
<1> QED
  BY <1>2, <1>3 DEF BeginTakeover

LEMMA RenewOnce ==
    ASSUME Journal, Begun, Once, Distinct, NEW h \in Handles, Renew(h)
    PROVE  Once'
<1>1. /\ Types /\ permit \in [Handles -> Permits \cup {None}]
      /\ sent \in [Tasks -> LeaseRequests \cup RefRequests \cup {None}]
      /\ <<h, "renew">> \in Tasks
  BY Facts DEF Types, Rest, Tasks
<1>2. UNCHANGED <<store, pc, call, session>> /\ permit[h] # None
  BY DEF Renew
<1>3. Touched(pc, pc', h) /\ Touched(call, call', h)
  BY <1>2 DEF Touched
<1>4. /\ OwnCall(pc[h], call[h], sent[<<h, "call">>], WriterOf[h])
      /\ OwnPermit(permit[h], sent[<<h, "renew">>], WriterOf[h])
      /\ OnceCall(ref, pc[h], call[h], WriterOf[h])
  BY OnceFacts
<1>5. BasesKept
  BY <1>2, KeptSessions
<1>6. CASE Fence(h) /\ UNCHANGED <<requests, sent>>
  <2>1. permit' = [permit EXCEPT ![h] = None]
    BY <1>6 DEF Fence
  <2>2. permit'[h] = None /\ Touched(permit, permit', h)
    BY <1>1, <2>1 DEF Touched
  <2> QED
    BY <1>2, <1>3, <1>4, <1>5, <1>6, <2>2, QuietOnce
<1>7. CASE /\ Send(h, "renew", "lease", permit[h].token,
                   [permit[h].lease EXCEPT !.expires = clock + LeaseTicks])
           /\ UNCHANGED <<permit, fenced>>
  <2> DEFINE l == permit[h].lease
             v == [l EXCEPT !.expires = clock + LeaseTicks]
             r == [from |-> <<h, "renew">>, object |-> "lease",
                   expected |-> permit[h].token, value |-> v]
  <2>1. l \in Leases /\ l.writer = WriterOf[h]
    BY <1>1, <1>2, <1>4 DEF Permits, OwnPermit
  <2>2. sent' = [sent EXCEPT ![<<h, "renew">>] = r] /\ requests' = requests \cup {r}
    BY <1>7 DEF Send
  <2> HIDE DEF l
  <2>3. v.writer = WriterOf[h]
    BY <2>1 DEF Leases
  <2> HIDE DEF v
  <2>4. r.object = "lease" /\ r.value = v
    OBVIOUS
  <2> HIDE DEF r
  <2>5. OnceRequest(ref, session, r)
    BY <2>4 DEF OnceRequest
  <2>6. Touched(permit, permit', h)
    BY <1>7 DEF Touched
  <2>7. Others(h) /\ sent'[<<h, "call">>] = sent[<<h, "call">>]
    BY <1>1, <1>3, <2>2, <2>6, StepOthers
  <2>8. sent'[<<h, "renew">>] = r
    BY <1>1, <2>2
  <2>9. OwnPermit(permit'[h], r, WriterOf[h])
    BY <1>4, <1>7, <2>3, <2>4 DEF OwnPermit
  <2>10. \A q \in requests' : q \in requests \/ q = r
    BY <2>2
  <2> QED
    BY <1>2, <1>4, <1>5, <2>4, <2>5, <2>7, <2>8, <2>9, <2>10, LocalOnce
<1> QED
  BY <1>6, <1>7 DEF Renew

LEMMA CrashOnce ==
    ASSUME Journal, Begun, Once, Distinct, NEW h \in Handles, Crash(h)
    PROVE  Once'
<1>1. Types /\ permit \in [Handles -> Permits \cup {None}]
  BY Facts DEF Rest
<1>2. /\ UNCHANGED <<store, requests, session>> /\ permit' = [permit EXCEPT ![h] = None]
      /\ Return(h)
  BY DEF Crash
<1>3. /\ pc'[h] = "idle"
      /\ \A g \in Handles \ {h} : pc'[g] = pc[g] /\ call'[g] = call[g]
  BY <1>1, <1>2, Returned
<1>4. permit'[h] = None /\ \A g \in Handles \ {h} : permit'[g] = permit[g]
  BY <1>1, <1>2
<1>5. sent' = [t \in Tasks |-> IF t[1] = h THEN None ELSE sent[t]]
  BY DEF Crash
<1>6. ASSUME NEW g \in Handles, NEW task \in {"call", "renew"}
      PROVE  sent'[<<g, task>>] = IF g = h THEN None ELSE sent[<<g, task>>]
  BY <1>5 DEF Tasks
<1>7. Others(h)
  BY <1>3, <1>4, <1>6 DEF Others, Frame
<1>8. OwnCall(pc'[h], call'[h], sent'[<<h, "call">>], WriterOf[h])
  BY <1>3, <1>6 DEF OwnCall
<1>9. OwnPermit(permit'[h], sent'[<<h, "renew">>], WriterOf[h])
  BY <1>4, <1>6 DEF OwnPermit
<1>10. OnceCall(ref, pc'[h], call'[h], WriterOf[h]) /\ ~Retried(ref, pc'[h], call'[h])
  BY <1>3 DEF OnceCall, Retried
<1>11. BasesKept
  BY <1>2, KeptSessions
<1> QED
  BY <1>2, <1>7, <1>8, <1>9, <1>10, <1>11, LocalOnce

-----------------------------------------------------------------------------
(* Steps of the store. *)

\* What a step of the store leaves of the invariant.
CarriedOnce ==
    /\ SessionOnce'
    /\ \A r \in requests : OnceRequest(ref', session, r)
    /\ \A p, c, w :
          /\ p # "idle" /\ c.kind = "session" =>
                c.op \in Sessions /\ c.manifest.base = session[c.op].base
          /\ OnceCall(ref, p, c, w)
          /\ Retried(ref, p, c) => NoneOf(ref, requests, w)
          =>
          /\ OnceCall(ref', p, c, w)
          /\ Retried(ref', p, c) => NoneOf(ref', requests, w)

LEMMA SameRef ==
    ASSUME Once, ref' = ref
    PROVE  CarriedOnce
<1>1. SessionOnce' /\ \A r \in requests : OnceRequest(ref', session, r)
  BY DEF Once, SessionOnce
<1> QED
  BY <1>1 DEF CarriedOnce

LEMMA RefReplacedOnce ==
    ASSUME Journal, Begun, Once, NEW r \in requests, r \in RefRequests, r.expected = ref.token,
           ref' = [token |-> ref.token + 1, value |-> r.value]
    PROVE  CarriedOnce
<1> DEFINE n == ref.token
           e == LastSent(r)
<1>1. /\ ref'.token = n + 1 /\ ref'.value = r.value /\ r.object = "ref"
      /\ ref = Absent \/ (ref \in HeldRefs /\ Len(ref.value.log) = n)
      /\ RequestOK(r) /\ OnceRequest(ref, session, r)
  BY DEF Journal, StoreOK, RefRequests, Once
<1>2. n \in Nat
  <2>1. ref = Absent \/ ref \in HeldRefs
    BY <1>1
  <2> QED
    BY <2>1, SMT DEF Absent, HeldRefs
<1>3. Len(Log(ref)) = n /\ (n # 0 => Log(ref) = ref.value.log)
  BY <1>1, SMT DEF Log, Exists, Absent
<1>4. /\ Len(r.value.log) = n + 1
      /\ \A i \in 1 .. n : r.value.log[i] = ref.value.log[i]
  BY <1>1 DEF RequestOK, LeaseRequests, RefRequests
<1>5. Log(ref') = r.value.log /\ Len(Log(ref')) = n + 1 /\ Log(ref')[n + 1] = e
  BY <1>1, <1>2, <1>4, SMT DEF Log, Exists, LastSent
<1>6. \A i \in 1 .. n : Log(ref')[i] = Log(ref)[i]
  BY <1>2, <1>3, <1>4, <1>5, SMT
<1>7. Target(ref') = e.target /\ Authority(ref') = e.authority
  BY <1>1, <1>2 DEF Target, Authority, LastEvent, LastSent
<1>8. e.op \in Sessions =>
         ~Repeats(e.op, ref, e.at) /\ e.target = Append(session[e.op].base, e.op)
  BY <1>1 DEF OnceRequest
<1> HIDE DEF n, e
<1>9. \A i \in 1 .. (n + 1) : i \in 1 .. n \/ i = n + 1
  BY <1>2, SMT
<1>18. \A i \in 1 .. n : i \in 1 .. (n + 1)
  BY <1>2, SMT
<1>10. ASSUME NEW op, NEW now, Repeats(op, ref', now), op # e.op
       PROVE  Repeats(op, ref, now)
  <2>1. Applied(op, ref)
    BY <1>3, <1>5, <1>6, <1>9, <1>10 DEF Repeats, Applied
  <2>2. ASSUME NEW i \in 1 .. n, ~Retained(n, now, i, Log(ref)[i].at)
        PROVE  ~Retained(n + 1, now, i, Log(ref')[i].at)
    <3>1. Log(ref')[i].at = Log(ref)[i].at
      BY <1>6
    <3>2. \A x : ~Retained(n, now, i, x) => ~Retained(n + 1, now, i, x)
      BY <1>2, PublicationBoundsAssumption, SMT DEF Retained
    <3> QED
      BY <2>2, <3>1, <3>2
  <2>3. ASSUME Lapsed(op, ref, now) PROVE Lapsed(op, ref', now)
    <3>1. PICK i \in 1 .. n : Log(ref)[i].op = op /\ ~Retained(n, now, i, Log(ref)[i].at)
      BY <1>3, <2>3 DEF Lapsed, Kept
    <3>2. Log(ref')[i].op = op /\ ~Retained(n + 1, now, i, Log(ref')[i].at)
      BY <1>6, <2>2, <3>1
    <3> QED
      BY <1>5, <1>18, <3>2 DEF Lapsed, Kept
  <2> QED
    BY <1>10, <2>1, <2>3 DEF Repeats
<1>11. SessionOnce'
  <2>1. ASSUME NEW i \in 1 .. Len(Log(ref')), NEW j \in 1 .. Len(Log(ref')), i < j,
               Log(ref')[j].op \in Sessions, Log(ref')[i].op = Log(ref')[j].op
        PROVE  \E k \in 1 .. (j - 1) :
                  /\ Log(ref')[k].op = Log(ref')[j].op
                  /\ ~Retained(j - 1, Log(ref')[j].at, k, Log(ref')[k].at)
    <3>1. i \in 1 .. n /\ j \in 1 .. (n + 1)
      BY <1>2, <1>5, <2>1, SMT
    <3>2. CASE j \in 1 .. n
      <4>1. PICK k \in 1 .. (j - 1) :
                /\ Log(ref)[k].op = Log(ref)[j].op
                /\ ~Retained(j - 1, Log(ref)[j].at, k, Log(ref)[k].at)
        <5>1. i \in 1 .. Len(Log(ref)) /\ j \in 1 .. Len(Log(ref))
          BY <1>3, <3>1, <3>2
        <5>2. Log(ref)[j].op \in Sessions /\ Log(ref)[i].op = Log(ref)[j].op
          BY <1>6, <2>1, <3>1, <3>2
        <5>3. SessionOnce
          BY DEF Once
        <5> QED
          BY <2>1, <5>1, <5>2, <5>3 DEF SessionOnce
      <4>2. k \in 1 .. n
        BY <1>2, <3>2, SMT
      <4> QED
        BY <1>6, <3>2, <4>1, <4>2
    <3>3. CASE j = n + 1
      <4>1. Log(ref')[j] = e /\ j - 1 = n
        BY <1>2, <1>5, <3>3, SMT
      <4>2. Applied(e.op, ref)
        BY <1>3, <1>6, <2>1, <3>1, <4>1 DEF Applied
      <4>3. Lapsed(e.op, ref, e.at)
        BY <1>8, <2>1, <4>1, <4>2 DEF Repeats
      <4>4. PICK k \in 1 .. n : Log(ref)[k].op = e.op /\ ~Retained(n, e.at, k, Log(ref)[k].at)
        BY <1>3, <4>3 DEF Lapsed, Kept
      <4> QED
        BY <1>6, <4>1, <4>4
    <3> QED
      BY <1>9, <3>1, <3>2, <3>3
  <2> QED
    BY <2>1 DEF SessionOnce
<1>13. ASSUME NEW q \in requests, q.object = "ref" PROVE q.expected # ref'.token
  <2>1. q.expected \in Nat /\ q.expected <= n
    BY <1>13 DEF Journal, RequestOK, LeaseRequests, RefRequests, n
  <2> QED
    BY <1>1, <1>2, <2>1, SMT DEF n
<1>14. \A q \in requests : OnceRequest(ref', session, q)
  BY <1>13 DEF OnceRequest
<1>15. \A w : NoneOf(ref', requests, w)
  BY <1>13 DEF NoneOf
<1>16. ASSUME NEW p, NEW c, NEW w,
              p # "idle" /\ c.kind = "session" =>
                 c.op \in Sessions /\ c.manifest.base = session[c.op].base,
              OnceCall(ref, p, c, w), Retried(ref, p, c) => NoneOf(ref, requests, w)
       PROVE  OnceCall(ref', p, c, w)
  <2>1. Retried(ref, p, c) => e.authority.writer # w
    BY <1>1, <1>16 DEF NoneOf, e
  <2>2. ASSUME p \in {"permit", "acquire", "validate", "load"}, c.kind = "session",
               Repeats(c.op, ref', c.now)
        PROVE  Target(ref') = Append(c.manifest.base, c.op) \/ Authority(ref').writer # w
    <3>1. CASE Repeats(c.op, ref, c.now)
      BY <1>7, <2>1, <2>2, <3>1 DEF Retried
    <3>2. CASE c.op = e.op
      BY <1>7, <1>8, <1>16, <2>2, <3>2
    <3> QED
      BY <1>10, <2>2, <3>1, <3>2
  <2> QED
    BY <1>16, <2>2 DEF OnceCall
<1> QED
  BY <1>11, <1>14, <1>15, <1>16 DEF CarriedOnce

LEMMA ExecutionOnce ==
    ASSUME Journal, Begun, Once, NEW r \in requests,
           store' = [store EXCEPT ![r.object] = Executed(r)]
    PROVE  CarriedOnce
<1>1. StoreOK /\ RequestOK(r) /\ DOMAIN store = {"lease", "ref"}
  BY DEF Journal, StoreOK
<1>2. r \in LeaseRequests \/ r \in RefRequests
  BY <1>1 DEF RequestOK
<1>3. CASE r \in LeaseRequests
  <2>1. r.object = "lease"
    BY <1>3 DEF LeaseRequests
  <2>2. ref' = ref
    BY <1>1, <2>1 DEF ref
  <2> QED
    BY <2>2, SameRef
<1>4. CASE r \in RefRequests
  <2>1. r.object = "ref"
    BY <1>4 DEF RefRequests
  <2>2. ref' = Executed(r)
    BY <1>1, <2>1 DEF ref
  <2>3. CASE r.expected = ref.token
    <3>1. Executed(r) = [token |-> ref.token + 1, value |-> r.value]
      BY <2>1, <2>3 DEF Executed, ref
    <3> QED
      BY <1>4, <2>2, <2>3, <3>1, RefReplacedOnce
  <2>4. CASE r.expected # ref.token
    <3>1. Executed(r) = ref
      BY <2>1, <2>4 DEF Executed, ref
    <3> QED
      BY <2>2, <3>1, SameRef
  <2> QED
    BY <2>3, <2>4
<1> QED
  BY <1>2, <1>3, <1>4

\* The invariant of a handle whose call and request stay as they are.
LEMMA CarriedHandle ==
    ASSUME Begun, Once, CarriedOnce, NEW g \in Handles
    PROVE  /\ OnceCall(ref', pc[g], call[g], WriterOf[g])
           /\ Retried(ref', pc[g], call[g]) => NoneOf(ref', requests, WriterOf[g])
<1>1. /\ OwnCall(pc[g], call[g], sent[<<g, "call">>], WriterOf[g])
      /\ OnceCall(ref, pc[g], call[g], WriterOf[g])
      /\ Retried(ref, pc[g], call[g]) => NoneOf(ref, requests, WriterOf[g])
  BY OnceFacts
<1>2. pc[g] # "idle" /\ call[g].kind = "session" =>
         call[g].op \in Sessions /\ call[g].manifest.base = session[call[g].op].base
  BY <1>1 DEF OwnCall, Begun
<1> QED
  BY <1>1, <1>2 DEF CarriedOnce

LEMMA StoreOnce ==
    ASSUME Begun, Once, CarriedOnce, NEW h \in Handles, Others(h),
           requests' \subseteq requests, UNCHANGED session,
           OwnCall(pc'[h], call'[h], sent'[<<h, "call">>], WriterOf[h]),
           OwnPermit(permit'[h], sent'[<<h, "renew">>], WriterOf[h]),
           OnceCall(ref', pc'[h], call'[h], WriterOf[h]),
           Retried(ref', pc'[h], call'[h]) => NoneOf(ref', requests, WriterOf[h])
    PROVE  Once'
<1>1. \A w : NoneOf(ref', requests, w) => NoneOf(ref', requests', w)
  BY DEF NoneOf
<1>2. ASSUME NEW g \in Handles
      PROVE  OnceHandle(ref', requests', g, pc'[g], call'[g], permit'[g],
                        sent'[<<g, "call">>], sent'[<<g, "renew">>])
  <2>1. CASE g = h
    BY <1>1, <2>1 DEF OnceHandle
  <2>2. CASE g # h
    <3>1. /\ pc'[g] = pc[g] /\ call'[g] = call[g] /\ permit'[g] = permit[g]
          /\ sent'[<<g, "call">>] = sent[<<g, "call">>]
          /\ sent'[<<g, "renew">>] = sent[<<g, "renew">>]
      BY <2>2 DEF Others, Frame
    <3>2. /\ OnceCall(ref', pc[g], call[g], WriterOf[g])
          /\ Retried(ref', pc[g], call[g]) => NoneOf(ref', requests, WriterOf[g])
      BY CarriedHandle
    <3>3. /\ OwnCall(pc[g], call[g], sent[<<g, "call">>], WriterOf[g])
          /\ OwnPermit(permit[g], sent[<<g, "renew">>], WriterOf[g])
      BY OnceFacts
    <3> QED
      BY <1>1, <3>1, <3>2, <3>3 DEF OnceHandle
  <2> QED
    BY <2>1, <2>2
<1>3. \A g \in Handles :
         OnceHandle(ref, requests, g, pc[g], call[g], permit[g], sent[<<g, "call">>],
                    sent[<<g, "renew">>])'
  BY <1>2
<1>4. SessionOnce' /\ \A r \in requests' : OnceRequest(ref', session', r)
  BY DEF CarriedOnce
<1> QED
  BY <1>3, <1>4 DEF Once

LEMMA UnnoticedOnce ==
    ASSUME Journal, Begun, Once, NEW r \in requests, Unnoticed(r)
    PROVE  Once'
<1>1. /\ requests' \subseteq requests /\ UNCHANGED <<pc, call, sent, permit, session>>
      /\ store' = [store EXCEPT ![r.object] = Executed(r)]
  BY DEF Unnoticed, local
<1>2. CarriedOnce
  BY <1>1, ExecutionOnce
<1>3. \A w : NoneOf(ref', requests, w) => NoneOf(ref', requests', w)
  BY <1>1 DEF NoneOf
<1>4. ASSUME NEW g \in Handles
      PROVE  OnceHandle(ref', requests', g, pc'[g], call'[g], permit'[g],
                        sent'[<<g, "call">>], sent'[<<g, "renew">>])
  <2>1. /\ OnceCall(ref', pc[g], call[g], WriterOf[g])
        /\ Retried(ref', pc[g], call[g]) => NoneOf(ref', requests, WriterOf[g])
    BY <1>2, CarriedHandle
  <2>2. /\ OwnCall(pc[g], call[g], sent[<<g, "call">>], WriterOf[g])
        /\ OwnPermit(permit[g], sent[<<g, "renew">>], WriterOf[g])
    BY OnceFacts
  <2> QED
    BY <1>1, <1>3, <2>1, <2>2 DEF OnceHandle
<1>5. \A g \in Handles :
         OnceHandle(ref, requests, g, pc[g], call[g], permit[g], sent[<<g, "call">>],
                    sent[<<g, "renew">>])'
  BY <1>4
<1>6. SessionOnce' /\ \A q \in requests' : OnceRequest(ref', session', q)
  BY <1>1, <1>2 DEF CarriedOnce
<1> QED
  BY <1>5, <1>6 DEF Once

-----------------------------------------------------------------------------
(* What a caller makes of the object it finds. *)

LEMMA RenewalOnce ==
    ASSUME Journal, Begun, Once, CarriedOnce, NEW h \in Handles, sent[<<h, "renew">>] # None, StoreOK',
           requests' \subseteq requests, UNCHANGED session,
           NEW object, object = store'[sent[<<h, "renew">>].object],
           ConcludeRenewal(h, object), sent' = [sent EXCEPT ![<<h, "renew">>] = None]
    PROVE  Once'
<1> DEFINE s == sent[<<h, "renew">>]
           held == [lease |-> object.value, token |-> object.token]
<1>1. /\ Types /\ permit \in [Handles -> Permits \cup {None}]
  BY Facts DEF Rest
<1>2. UNCHANGED <<pc, call>>
  BY DEF ConcludeRenewal
<1>3. /\ OwnCall(pc[h], call[h], sent[<<h, "call">>], WriterOf[h])
      /\ OwnPermit(permit[h], s, WriterOf[h])
  BY OnceFacts
<1>4. sent'[<<h, "renew">>] = None
  BY <1>1, Answering
<1>5. permit' = [permit EXCEPT ![h] = held] \/ permit' = [permit EXCEPT ![h] = None]
  BY DEF ConcludeRenewal, Install, Fence
<1>6. Touched(pc, pc', h) /\ Touched(call, call', h) /\ Touched(permit, permit', h)
  BY <1>2, <1>5 DEF Touched
<1>7. Others(h) /\ sent'[<<h, "call">>] = sent[<<h, "call">>]
  BY <1>1, <1>6, StepOthers
<1>8. OwnPermit(permit'[h], None, WriterOf[h])
  <2>1. CASE object.value = s.value
    <3>1. permit'[h] = held
      BY <1>1, <2>1 DEF ConcludeRenewal, Install
    <3>2. held.lease.writer = WriterOf[h]
      BY <1>3, <2>1 DEF OwnPermit
    <3> HIDE DEF held
    <3> QED
      BY <3>1, <3>2 DEF OwnPermit
  <2>2. CASE object.value # s.value
    <3>1. permit'[h] = None
      BY <1>1, <2>2 DEF ConcludeRenewal, Fence
    <3> QED
      BY <3>1 DEF OwnPermit
  <2> QED
    BY <2>1, <2>2
<1>9. /\ OnceCall(ref', pc[h], call[h], WriterOf[h])
      /\ Retried(ref', pc[h], call[h]) => NoneOf(ref', requests, WriterOf[h])
  BY CarriedHandle
<1> QED
  BY <1>2, <1>3, <1>4, <1>7, <1>8, <1>9, StoreOnce

LEMMA SucceededOnce ==
    ASSUME Journal, Begun, Once, CarriedOnce, NEW h \in Handles, sent[<<h, "call">>] # None, StoreOK',
           requests' \subseteq requests, UNCHANGED session,
           NEW object, object = store'[sent[<<h, "call">>].object],
           object.value = sent[<<h, "call">>].value,
           Succeeded(h, object), sent' = [sent EXCEPT ![<<h, "call">>] = None]
    PROVE  Once'
<1> DEFINE s == sent[<<h, "call">>]
           c == call[h]
           held == [lease |-> object.value, token |-> object.token]
<1>1. /\ Types /\ permit \in [Handles -> Permits \cup {None}] /\ pc \in [Handles -> Labels]
      /\ CallOK(ref, pc[h], c, s)
      /\ <<h, "call">> \in Tasks
  BY Facts DEF Types, Rest, Tasks
<1>2. c \in Calls
  BY <1>1 DEF CallOK
<1>3. /\ OwnCall(pc[h], c, s, WriterOf[h])
      /\ OwnPermit(permit[h], sent[<<h, "renew">>], WriterOf[h])
      /\ OnceCall(ref', pc[h], c, WriterOf[h])
      /\ Retried(ref', pc[h], c) => NoneOf(ref', requests, WriterOf[h])
  BY OnceFacts, CarriedHandle
<1>4. sent'[<<h, "call">>] = None
  BY <1>1, Answering
<1>5. \/ pc[h] \in {"acquire", "pending", "active"} /\ s \in LeaseRequests
      \/ pc[h] \in {"published", "barred"} /\ s \in RefRequests
  BY <1>1 DEF CallOK
<1>6. s \in LeaseRequests => held \in Permits /\ held.lease.writer = WriterOf[h]
  <2>1. ASSUME s \in LeaseRequests PROVE object = lease' /\ held \in Permits
    BY <1>1, <2>1, Found
  <2>2. ASSUME s \in LeaseRequests PROVE held.lease.writer = WriterOf[h]
    BY <1>3, <2>2 DEF OwnCall
  <2> QED
    BY <2>1, <2>2
<1> HIDE DEF held
\* Whatever label the call moves to.
<1>7. ASSUME NEW label, Goto(h, label), Touched(call, call', h), Touched(permit, permit', h),
             OwnCall(label, call'[h], None, WriterOf[h]),
             OwnPermit(permit'[h], sent[<<h, "renew">>], WriterOf[h]),
             OnceCall(ref', label, call'[h], WriterOf[h]),
             Retried(ref', label, call'[h]) => NoneOf(ref', requests, WriterOf[h])
      PROVE  Once'
  <2>1. pc' = [pc EXCEPT ![h] = label]
    BY <1>7 DEF Goto
  <2>2. pc'[h] = label /\ Touched(pc, pc', h)
    BY <1>1, <2>1 DEF Touched
  <2>3. Others(h) /\ sent'[<<h, "renew">>] = sent[<<h, "renew">>]
    BY <1>1, <1>7, <2>2, StepOthers
  <2> QED
    BY <1>4, <1>7, <2>2, <2>3, StoreOnce
<1>8. ASSUME Return(h), Touched(permit, permit', h),
             OwnPermit(permit'[h], sent[<<h, "renew">>], WriterOf[h])
      PROVE  Once'
  <2>1. Goto(h, "idle") /\ Touched(call, call', h)
    BY <1>8 DEF Return, Touched
  <2>2. /\ OwnCall("idle", call'[h], None, WriterOf[h])
        /\ OnceCall(ref', "idle", call'[h], WriterOf[h])
        /\ ~Retried(ref', "idle", call'[h])
    BY DEF OwnCall, OnceCall, Retried
  <2> QED
    BY <1>7, <1>8, <2>1, <2>2
<1>9. ASSUME Install(h, held), s \in LeaseRequests
      PROVE  /\ Touched(permit, permit', h)
             /\ OwnPermit(permit'[h], sent[<<h, "renew">>], WriterOf[h])
  <2>1. permit' = [permit EXCEPT ![h] = held]
    BY <1>9 DEF Install
  <2>2. permit'[h] = held
    BY <1>1, <2>1
  <2> QED
    BY <1>3, <1>6, <1>9, <2>1, <2>2 DEF Touched, OwnPermit
<1>10. CASE pc[h] = "acquire"
  <2>1. s \in LeaseRequests
    BY <1>5, <1>10
  <2>2. /\ Install(h, held)
        /\ IF c.kind = "open" THEN Return(h)
           ELSE /\ Keep(h, "stamp", Stamp(held.lease))
                /\ Goto(h, IF c.kind = "init" THEN "recheck" ELSE "validate")
    BY <1>10 DEF Succeeded, held
  <2>3. /\ Touched(permit, permit', h)
        /\ OwnPermit(permit'[h], sent[<<h, "renew">>], WriterOf[h])
    BY <1>9, <2>1, <2>2
  <2>4. CASE Return(h)
    BY <1>8, <2>3, <2>4
  <2>5. CASE /\ Keep(h, "stamp", Stamp(held.lease))
             /\ Goto(h, IF c.kind = "init" THEN "recheck" ELSE "validate")
    <3> DEFINE a == Stamp(held.lease)
               label == IF c.kind = "init" THEN "recheck" ELSE "validate"
    <3>1. a \in Stamps /\ a.writer = WriterOf[h]
      <4>1. held.lease \in Leases /\ held.lease.writer = WriterOf[h]
        BY <1>6, <2>1 DEF Permits
      <4> QED
        BY <4>1, StampTyped DEF Stamp
    <3>2. Keep(h, "stamp", a) /\ Goto(h, label)
      BY <2>5
    <3>3. label \in {"recheck", "validate"} /\ (label = "recheck" <=> c.kind = "init")
      OBVIOUS
    <3> HIDE DEF a, label
    <3>5. /\ call'[h].kind = c.kind /\ call'[h].op = c.op
          /\ call'[h].stamp = a /\ call'[h].manifest = c.manifest
          /\ call'[h].now = c.now
      BY <1>1, <1>2, <3>1, <3>2, StampKept
    <3> HIDE DEF c
    <3>6. /\ OnceCall(ref', label, call'[h], WriterOf[h])
          /\ Retried(ref', label, call'[h]) => Retried(ref', pc[h], c)
      BY <1>3, <1>10, <3>3, <3>5 DEF OnceCall, Retried
    <3>7. OwnCall(label, call'[h], None, WriterOf[h])
      BY <1>3, <1>10, <3>1, <3>3, <3>5 DEF OwnCall
    <3>8. Touched(call, call', h)
      BY <3>2, KeepTouched
    <3> QED
      BY <1>3, <1>7, <2>3, <3>2, <3>6, <3>7, <3>8
  <2> QED
    BY <2>2, <2>4, <2>5
<1>11. CASE pc[h] = "published"
  <2>1. Return(h) /\ permit' = permit
    BY <1>11 DEF Succeeded
  <2> QED
    BY <1>3, <1>8, <2>1 DEF Touched
<1>12. CASE pc[h] = "pending"
  <2>1. s \in LeaseRequests /\ c.kind = "takeover"
    BY <1>1, <1>5, <1>12 DEF CallOK
  <2>2. Keep(h, "seen", held) /\ Goto(h, "barrier") /\ permit' = permit
    BY <1>12 DEF Succeeded, held, local
  <2>4. /\ call'[h].seen = held /\ call'[h].kind = c.kind /\ call'[h].op = c.op
        /\ call'[h].stamp = c.stamp
    BY <1>1, <1>2, <1>6, <2>1, <2>2, SeenKept
  <2>5. OwnCall("barrier", call'[h], None, WriterOf[h])
    BY <1>3, <1>6, <1>12, <2>1, <2>4 DEF OwnCall
  <2>6. /\ OnceCall(ref', "barrier", call'[h], WriterOf[h])
        /\ ~Retried(ref', "barrier", call'[h])
    BY <2>1, <2>4, NotSession
  <2>7. Touched(call, call', h) /\ Touched(permit, permit', h)
    BY <2>2, KeepTouched DEF Touched
  <2> QED
    BY <1>3, <1>7, <2>2, <2>5, <2>6, <2>7
<1>13. CASE pc[h] = "barred"
  <2>1. Goto(h, "activate") /\ permit' = permit /\ call' = call
    BY <1>13 DEF Succeeded, local
  <2>2. c.kind = "takeover"
    BY <1>1, <1>13 DEF CallOK
  <2>3. OwnCall("activate", call'[h], None, WriterOf[h])
    BY <1>3, <1>13, <2>1 DEF OwnCall
  <2>4. /\ OnceCall(ref', "activate", call'[h], WriterOf[h])
        /\ ~Retried(ref', "activate", call'[h])
    BY <2>1, <2>2, NotSession
  <2> QED
    BY <1>3, <1>7, <2>1, <2>3, <2>4 DEF Touched
<1>14. CASE pc[h] = "active"
  <2>1. s \in LeaseRequests
    BY <1>5, <1>14
  <2>2. Install(h, held) /\ Return(h)
    BY <1>14 DEF Succeeded, held
  <2> QED
    BY <1>8, <1>9, <2>1, <2>2
<1> QED
  BY <1>5, <1>10, <1>11, <1>12, <1>13, <1>14

LEMMA FailedOnce ==
    ASSUME Journal, Begun, Once, CarriedOnce, NEW h \in Handles, requests' \subseteq requests,
           UNCHANGED session, NEW unknown \in BOOLEAN, Failed(h, unknown),
           sent' = [sent EXCEPT ![<<h, "call">>] = None]
    PROVE  Once'
<1>1. /\ Types /\ permit \in [Handles -> Permits \cup {None}] /\ pc \in [Handles -> Labels]
  BY Facts DEF Types, Rest
<1>2. /\ OwnCall(pc[h], call[h], sent[<<h, "call">>], WriterOf[h])
      /\ OwnPermit(permit[h], sent[<<h, "renew">>], WriterOf[h])
  BY OnceFacts
<1>3. permit' = permit \/ permit' = [permit EXCEPT ![h] = None]
  BY DEF Failed, Fence
<1>4. permit'[h] = permit[h] \/ permit'[h] = None
  BY <1>1, <1>3
<1>5. OwnPermit(permit'[h], sent[<<h, "renew">>], WriterOf[h])
  BY <1>2, <1>4 DEF OwnPermit
<1>6. \/ pc' = [pc EXCEPT ![h] = "idle"]
      \/ pc' = [pc EXCEPT ![h] = "settle"] /\ call' = call /\ pc[h] = "published"
  BY DEF Failed, Return, Goto
<1>7. pc'[h] = "idle" \/ (pc'[h] = "settle" /\ call' = call /\ pc[h] = "published")
  BY <1>1, <1>6
<1>8. Touched(pc, pc', h) /\ Touched(permit, permit', h)
  BY <1>3, <1>6 DEF Touched
<1>9. Touched(call, call', h)
  BY DEF Failed, Return, Touched
<1>10. Others(h) /\ sent'[<<h, "renew">>] = sent[<<h, "renew">>]
  BY <1>1, <1>8, <1>9, StepOthers
<1>11. sent'[<<h, "call">>] = None
  BY <1>1, Answering
<1>12. OwnCall(pc'[h], call'[h], None, WriterOf[h])
  BY <1>2, <1>7 DEF OwnCall
<1>13. OnceCall(ref', pc'[h], call'[h], WriterOf[h]) /\ ~Retried(ref', pc'[h], call'[h])
  BY <1>7 DEF OnceCall, Retried
<1> QED
  BY <1>5, <1>10, <1>11, <1>12, <1>13, StoreOnce

LEMMA ConcludeOnce ==
    ASSUME Journal, Begun, Once, CarriedOnce, NEW h \in Handles, NEW task \in {"call", "renew"},
           sent[<<h, task>>] # None, StoreOK', requests' \subseteq requests,
           UNCHANGED session,
           NEW object, object = store'[sent[<<h, task>>].object], NEW unknown \in BOOLEAN,
           IF task = "call" THEN Conclude(h, object, unknown) ELSE ConcludeRenewal(h, object),
           sent' = [sent EXCEPT ![<<h, task>>] = None]
    PROVE  Once'
<1>1. CASE task = "renew"
  BY <1>1, RenewalOnce
<1>2. CASE task = "call"
  <2>1. CASE object.value = sent[<<h, "call">>].value
    BY <1>2, <2>1, SucceededOnce DEF Conclude
  <2>2. CASE object.value # sent[<<h, "call">>].value
    BY <1>2, <2>2, FailedOnce DEF Conclude
  <2> QED
    BY <2>1, <2>2
<1> QED
  BY <1>1, <1>2

LEMMA AnsweredOnce ==
    ASSUME Journal, Begun, Once, NEW h \in Handles, NEW task \in {"call", "renew"},
           Answered(h, task)
    PROVE  Once'
<1> DEFINE r == sent[<<h, task>>]
<1>1. /\ r # None /\ r \in requests /\ requests' \subseteq requests
      /\ UNCHANGED session
      /\ store' = [store EXCEPT ![r.object] = Executed(r)]
      /\ sent' = [sent EXCEPT ![<<h, task>>] = None]
      /\ IF task = "call" THEN Conclude(h, Executed(r), FALSE)
                          ELSE ConcludeRenewal(h, Executed(r))
  BY DEF Answered
<1>2. StoreOK' /\ Executed(r) = store'[r.object]
  BY <1>1, Execution
<1>3. CarriedOnce
  BY <1>1, ExecutionOnce
<1> QED
  BY <1>1, <1>2, <1>3, ConcludeOnce

LEMMA LostOnce ==
    ASSUME Journal, Begun, Once, NEW h \in Handles, NEW task \in {"call", "renew"}, Lost(h, task)
    PROVE  Once'
<1> DEFINE r == sent[<<h, task>>]
<1>1. /\ r # None /\ requests' = requests /\ store' = store /\ UNCHANGED session
      /\ sent' = [sent EXCEPT ![<<h, task>>] = None]
      /\ IF task = "call" THEN Conclude(h, store'[r.object], TRUE)
                          ELSE ConcludeRenewal(h, store'[r.object])
  BY DEF Lost
<1>2. ref' = ref /\ lease' = lease /\ StoreOK
  BY <1>1 DEF ref, lease, Journal
<1>3. StoreOK'
  BY <1>1, <1>2 DEF StoreOK
<1>4. CarriedOnce
  BY <1>2, SameRef
<1> QED
  BY <1>1, <1>3, <1>4, ConcludeOnce

-----------------------------------------------------------------------------
(* The third invariant holds of every behaviour. *)

LEMMA InitOnce ==
    ASSUME Init
    PROVE  Once
<1>1. ref = Absent /\ requests = {}
  BY DEF Init, ref, Absent
<1>2. Len(Log(ref)) = 0
  BY <1>1 DEF Log, Exists, Absent
<1>3. SessionOnce
  BY <1>2, SMT DEF SessionOnce
<1>4. \A h \in Handles : /\ pc[h] = "idle" /\ permit[h] = None
                         /\ sent[<<h, "call">>] = None /\ sent[<<h, "renew">>] = None
  BY DEF Init, Tasks
<1>5. \A h \in Handles :
         OnceHandle(ref, requests, h, pc[h], call[h], permit[h], sent[<<h, "call">>],
                    sent[<<h, "renew">>])
  BY <1>4 DEF OnceHandle, OwnCall, OwnPermit, OnceCall, Retried
<1> QED
  BY <1>1, <1>3, <1>5 DEF Once

LEMMA StepOnce ==
    ASSUME Journal, Begun, Once, Distinct, NEW h \in Handles, HandleStep(h)
    PROVE  Once'
<1>1. ASSUME NEW task \in {"call", "renew"}, Answered(h, task)
      PROVE  Once'
  BY <1>1, AnsweredOnce
<1> QED
  BY <1>1, PermitOnce, ValidateOnce, ReconcileOnce, LoadOnce, PublishOnce,
     RecheckOnce, CreateOnce, BarrierOnce, ActivateOnce, SettleOnce
     DEF HandleStep

LEMMA StartOnce ==
    ASSUME Journal, Begun, Once, Distinct, NEW h \in Handles, HandleStart(h)
    PROVE  Once'
<1>1. ASSUME NEW kind \in Kinds, NEW op \in Ops \cup {Fresh(h)}, Call(h, kind, op)
      PROVE  Once'
  BY <1>1, CallOnce
<1>2. ASSUME OpenReadOnly(h) PROVE Once'
  BY <1>2, IdleOnce DEF OpenReadOnly
<1> QED
  BY <1>1, <1>2, OpenOnce, RenewOnce, BeginTakeoverOnce DEF HandleStart

LEMMA NextOnce ==
    ASSUME Journal, Begun, Once, Distinct, [Next]_vars
    PROVE  Once'
<1>1. CASE Tick \/ UNCHANGED vars
  BY <1>1, IdleOnce DEF Tick, vars, local
<1>2. ASSUME NEW h \in Handles, NEW task \in {"call", "renew"}, Lost(h, task)
      PROVE  Once'
  BY <1>2, LostOnce
<1>3. ASSUME NEW r \in requests, Unnoticed(r)
      PROVE  Once'
  BY <1>3, UnnoticedOnce
<1> QED
  BY <1>1, <1>2, <1>3, StepOnce, StartOnce, CrashOnce DEF Next

\* Within the retention window of the operation index a commit session is published at most
\* once (publish_commit_session with its reconcile_operation), wherever the branch is reset,
\* provided that no two handles share a writer identity.
THEOREM SessionsPublishOnce ==
    ASSUME \A g, h \in Handles : WriterOf[g] = WriterOf[h] => g = h
    PROVE  Spec => []SessionOnce
<1>1. Distinct
  BY DEF Distinct
<1>2. Init => Begun /\ Once
  BY InitBegun, InitOnce
<1>3. Journal /\ Begun /\ Once /\ [Next]_vars => Begun' /\ Once'
  BY <1>1, NextBegun, NextOnce
<1>4. Once => SessionOnce
  BY DEF Once
<1> QED
  BY <1>2, <1>3, <1>4, JournalInvariant, PTL DEF Spec
==============================================================================
