------------------------- MODULE BranchJournalProofs -------------------------
(***************************************************************************)
(* Two inductive invariants of BranchPublication, for every set of handles *)
(* and writers and every number of calls and faults.                       *)
(*                                                                         *)
(* The first: types, control flow, and a journal that only grows and holds *)
(* every operation a receipt was given for.  From it, that the journal is  *)
(* the log of BranchLog.                                                   *)
(*                                                                         *)
(* The second, on top of it: the stamps of the ref, of the permits and of  *)
(* the requests on their way never run ahead of the lease, and an active   *)
(* lease is the one the ref was last written under.                        *)
(***************************************************************************)
EXTENDS BranchPublication, TLAPS

\* Zenon is tried on every leaf; the leaves that need arithmetic or the extensionality
\* of functions and records cite SMT.
USE Zenon

-----------------------------------------------------------------------------
(* The first invariant: types, control flow and the journal. *)

Absent == [token |-> 0, value |-> None]
HeldLeases == [token : Nat \ {0}, value : Leases]
HeldRefs == [token : Nat \ {0}, value : RefValues]
Permits == [lease : Leases, token : Nat \ {0}]
LeaseRequests == [from : Tasks, object : {"lease"}, expected : Nat, value : Leases]
RefRequests == [from : Tasks, object : {"ref"}, expected : Nat, value : RefValues]
OpKinds == {"create", "put", "begin", "resume", "session", "reset", "delete"}
Calls ==
    [kind : (Kinds \cap OpKinds) \cup {"open", "init", "takeover"}, id : Nonces,
     op : OpIds \cup {None}, now : Nat, stamp : Stamps \cup {None},
     manifest : Manifests \cup {None}, seen : HeldRefs \cup Permits \cup {None}]
Labels ==
    {"idle", "permit", "acquire", "validate", "reconcile", "load", "publish", "published",
     "settle", "recheck", "create", "pending", "barrier", "barred", "activate", "active"}

Rest ==
    /\ mode \in [Handles -> {"closed", "read", "write"}]
    /\ permit \in [Handles -> Permits \cup {None}]
    /\ fenced \subseteq Handles
    /\ \A h \in fenced : permit[h] = None
    /\ session \in [Sessions -> Manifests \cup {None}]
    /\ acked \subseteq Ops /\ commits \subseteq Seq(OpIds)
    /\ clock \in 0 .. MaxClock /\ calls \in 0 .. MaxCalls /\ faults \in 0 .. MaxFaults

Types ==
    /\ Rest
    /\ pc \in [Handles -> Labels]
    /\ call \in [Handles -> Calls \cup {NoCall}]
    /\ sent \in [Tasks -> LeaseRequests \cup RefRequests \cup {None}]

StoreOK ==
    /\ store = [x \in {"lease", "ref"} |-> store[x]]
    /\ lease = Absent \/ lease \in HeldLeases
    /\ ref = Absent \/ (ref \in HeldRefs /\ Len(ref.value.log) = ref.token)

\* A request for the ref that can still succeed carries the journal it found.
RequestOK(r) ==
    \/ r \in LeaseRequests
    \/ /\ r \in RefRequests
       /\ r.expected <= ref.token
       /\ Len(r.value.log) = r.expected + 1
       /\ r.expected = ref.token =>
             \A i \in 1 .. r.expected : r.value.log[i] = ref.value.log[i]

\* The ref a call has read is the current one unless the token has moved.
SeenRef(f, seen) ==
    /\ seen \in HeldRefs
    /\ Len(seen.value.log) = seen.token
    /\ seen.token <= f.token
    /\ seen.token = f.token => seen = f

\* What a call at label p with locals c, waiting for request s, may rely on
\* when the ref is f.
CallOK(f, p, c, s) ==
    /\ p # "idle" => c \in Calls
    /\ p \in {"permit", "validate", "reconcile", "load", "publish", "settle"} =>
          c.kind \in Kinds \cap OpKinds
    /\ p \in {"reconcile", "settle"} => c.kind \in {"put", "session"}
    /\ p = "load" => c.kind # "create"
    /\ p = "publish" => c.kind \in {"put", "session", "reset", "delete"}
    /\ p = "acquire" => c.kind # "takeover"
    /\ p \in {"recheck", "create"} => c.kind \in {"create", "init"}
    /\ p \in {"pending", "barrier", "barred", "activate", "active"} => c.kind = "takeover"
    /\ p # "idle" /\ c.kind \in {"put", "session"} => c.op \in Ops
    /\ p # "idle" /\ c.kind # "open" => c.op \in OpIds
    /\ p # "idle" /\ c.kind \in {"create", "reset", "delete", "init", "takeover"} =>
          c.op \notin Ops
    /\ p = "create" \/ (p = "load" /\ c.kind \in {"begin", "resume"}) => c.stamp \in Stamps
    /\ p = "publish" \/ (p \in {"permit", "acquire", "validate"} /\ c.kind = "delete") =>
          SeenRef(f, c.seen) /\ ~c.seen.value.tombstone
    /\ p \in {"barrier", "barred", "activate"} => c.seen \in Permits
    /\ s # None =>
          \/ p \in {"acquire", "pending", "active"} /\ s \in LeaseRequests
          \/ p \in {"published", "barred"} /\ s \in RefRequests
    /\ s # None /\ p = "published" => s.value.log[Len(s.value.log)].op = c.op

Journal ==
    /\ Types
    /\ StoreOK
    /\ \A r \in requests : RequestOK(r)
    /\ \A h \in Handles : CallOK(ref, pc[h], call[h], sent[<<h, "call">>])
    /\ \A h \in Handles : sent[<<h, "renew">>] \in LeaseRequests \cup {None}
    /\ AckedIsPublished

-----------------------------------------------------------------------------
(* Lemmas on journals, calls and requests. *)

LEMMA Counted ==
    ASSUME NEW max \in Nat, NEW n \in 0 .. max, n < max
    PROVE  n + 1 \in 0 .. max
BY SMT

LEMMA Appended ==
    ASSUME NEW S, NEW q \in Seq(S), NEW e \in S
    PROVE  /\ Append(q, e) \in Seq(S) \ {<<>>}
           /\ Len(Append(q, e)) = Len(q) + 1
           /\ Append(q, e)[Len(q) + 1] = e
           /\ \A i \in 1 .. Len(q) : Append(q, e)[i] = q[i]
BY SMT

\* The value sent after reading f continues the journal of f.
LEMMA Continued ==
    ASSUME NEW f, f = Absent \/ (f \in HeldRefs /\ Len(f.value.log) = f.token),
           NEW e \in Events, NEW t \in BOOLEAN, NEW v, v = RefValue(f, e, t)
    PROVE  /\ v \in RefValues
           /\ v.tombstone = t
           /\ Len(v.log) = f.token + 1
           /\ v.log[Len(v.log)] = e
           /\ \A i \in 1 .. f.token : v.log[i] = f.value.log[i]
<1>1. CASE f = Absent
  <2>1. Log(f) = <<>> /\ <<>> \in Seq(Events) /\ Len(<<>>) = 0 /\ f.token = 0
    BY <1>1, SMT DEF Log, Exists, Absent
  <2> QED
    BY <2>1, Appended, SMT DEF RefValue, RefValues
<1>2. CASE f \in HeldRefs /\ Len(f.value.log) = f.token
  <2>1. Log(f) = f.value.log /\ f.value.log \in Seq(Events) /\ f.token \in Nat
    BY <1>2 DEF Log, Exists, HeldRefs, RefValues
  <2> QED
    BY <1>2, <2>1, Appended, SMT DEF RefValue, RefValues
<1> QED
  BY <1>1, <1>2

LEMMA LastTyped ==
    ASSUME NEW v \in RefValues
    PROVE  v.log[Len(v.log)] \in Events /\ Len(v.log) \in Nat \ {0}
<1>1. v.log \in Seq(Events) /\ v.log # <<>>
  BY DEF RefValues
<1> QED
  BY <1>1, SMT

LEMMA StampTyped ==
    ASSUME NEW l \in Leases
    PROVE  Stamp(l) \in Stamps
BY DEF Stamp, Leases, Stamps

LEMMA TargetTyped ==
    ASSUME NEW f \in HeldRefs
    PROVE  Target(f) \in Seq(OpIds) /\ Authority(f) \in Stamps
<1>1. \A e \in Events : e.target \in Seq(OpIds) /\ e.authority \in Stamps
  BY DEF Events
<1>2. f.value \in RefValues
  BY DEF HeldRefs
<1>3. LastEvent(f) \in Events
  BY <1>2, LastTyped DEF LastEvent
<1> QED
  BY <1>1, <1>3 DEF Target, Authority

LEMMA EventTyped ==
    ASSUME NEW op \in OpIds, NEW target \in Seq(OpIds), NEW a \in Stamps, NEW now \in Nat
    PROVE  Event(op, target, a, now) \in Events
BY DEF Event, Events

LEMMA LeaseTyped ==
    ASSUME NEW g \in Nat \ {0}, NEW h \in Handles, NEW nonce \in Nonces,
           NEW state \in {"active", "pending"}, NEW now \in Nat
    PROVE  Lease(g, h, nonce, state, now) \in Leases
BY PublicationBoundsAssumption, SMT DEF Lease, Leases, Writers

LEMMA Refreshed ==
    ASSUME NEW l \in Leases, NEW e \in Nat
    PROVE  /\ [l EXCEPT !.expires = e] \in Leases
           /\ Stamp([l EXCEPT !.expires = e]) = Stamp(l)
           /\ [l EXCEPT !.expires = e].state = l.state
           /\ [l EXCEPT !.state = "active", !.expires = e] \in Leases
           /\ Stamp([l EXCEPT !.state = "active", !.expires = e]) = Stamp(l)
           /\ [l EXCEPT !.state = "active", !.expires = e].state = "active"
BY DEF Leases, Stamp

-----------------------------------------------------------------------------
(* Frames: what a step of one handle leaves alone. *)

Frame(h) ==
    \A g \in Handles \ {h} :
        /\ pc'[g] = pc[g] /\ call'[g] = call[g]
        /\ \A task \in {"call", "renew"} : sent'[<<g, task>>] = sent[<<g, task>>]

LEMMA Gone ==
    ASSUME Types, NEW h \in Handles, NEW label \in Labels, Goto(h, label)
    PROVE  /\ pc' \in [Handles -> Labels]
           /\ pc'[h] = label
           /\ \A g \in Handles \ {h} : pc'[g] = pc[g]
BY DEF Types, Goto

LEMMA Returned ==
    ASSUME Types, NEW h \in Handles, Return(h)
    PROVE  /\ pc' \in [Handles -> Labels]
           /\ call' \in [Handles -> Calls \cup {NoCall}]
           /\ pc'[h] = "idle"
           /\ \A g \in Handles \ {h} : pc'[g] = pc[g] /\ call'[g] = call[g]
<1>1. Goto(h, "idle") /\ "idle" \in Labels
  BY DEF Return, Labels
<1>2. call' = [call EXCEPT ![h] = NoCall]
  BY DEF Return
<1> QED
  BY <1>1, <1>2, Gone DEF Types

LEMMA Started ==
    ASSUME Types, NEW h \in Handles, NEW c \in Calls, call' = [call EXCEPT ![h] = c]
    PROVE  /\ call' \in [Handles -> Calls \cup {NoCall}]
           /\ call'[h] = c
           /\ \A g \in Handles \ {h} : call'[g] = call[g]
BY DEF Types

LEMMA SeenKept ==
    ASSUME Types, NEW h \in Handles, call[h] \in Calls, NEW v \in HeldRefs \cup Permits,
           Keep(h, "seen", v)
    PROVE  /\ call' \in [Handles -> Calls \cup {NoCall}]
           /\ call'[h] \in Calls /\ call'[h].seen = v
           /\ call'[h].kind = call[h].kind /\ call'[h].op = call[h].op
           /\ call'[h].stamp = call[h].stamp /\ call'[h].manifest = call[h].manifest
           /\ call'[h].now = call[h].now
           /\ \A g \in Handles \ {h} : call'[g] = call[g]
<1> DEFINE c == [call[h] EXCEPT !["seen"] = v]
<1>1. call' = [call EXCEPT ![h] = c]
  BY DEF Keep
<1>2. /\ c \in Calls /\ c.seen = v
      /\ c.kind = call[h].kind /\ c.op = call[h].op
      /\ c.stamp = call[h].stamp /\ c.manifest = call[h].manifest /\ c.now = call[h].now
  BY DEF Calls
<1> HIDE DEF c
<1>3. /\ call' \in [Handles -> Calls \cup {NoCall}]
      /\ call'[h] = c
      /\ \A g \in Handles \ {h} : call'[g] = call[g]
  BY <1>1, <1>2, Started
<1> QED
  BY <1>2, <1>3

LEMMA StampKept ==
    ASSUME Types, NEW h \in Handles, call[h] \in Calls, NEW v \in Stamps,
           Keep(h, "stamp", v)
    PROVE  /\ call' \in [Handles -> Calls \cup {NoCall}]
           /\ call'[h] \in Calls /\ call'[h].stamp = v
           /\ call'[h].kind = call[h].kind /\ call'[h].op = call[h].op
           /\ call'[h].seen = call[h].seen /\ call'[h].manifest = call[h].manifest
           /\ call'[h].now = call[h].now
           /\ \A g \in Handles \ {h} : call'[g] = call[g]
<1> DEFINE c == [call[h] EXCEPT !["stamp"] = v]
<1>1. call' = [call EXCEPT ![h] = c]
  BY DEF Keep
<1>2. /\ c \in Calls /\ c.stamp = v
      /\ c.kind = call[h].kind /\ c.op = call[h].op
      /\ c.seen = call[h].seen /\ c.manifest = call[h].manifest /\ c.now = call[h].now
  BY DEF Calls
<1> HIDE DEF c
<1>3. /\ call' \in [Handles -> Calls \cup {NoCall}]
      /\ call'[h] = c
      /\ \A g \in Handles \ {h} : call'[g] = call[g]
  BY <1>1, <1>2, Started
<1> QED
  BY <1>2, <1>3

LEMMA Sending ==
    ASSUME Types, NEW h \in Handles, NEW task \in {"call", "renew"},
           NEW r \in LeaseRequests \cup RefRequests,
           sent' = [sent EXCEPT ![<<h, task>>] = r]
    PROVE  /\ sent' \in [Tasks -> LeaseRequests \cup RefRequests \cup {None}]
           /\ sent'[<<h, task>>] = r
           /\ \A t \in Tasks : t # <<h, task>> => sent'[t] = sent[t]
<1>1. <<h, task>> \in Tasks
  BY DEF Tasks
<1>2. sent \in [Tasks -> LeaseRequests \cup RefRequests \cup {None}]
  BY DEF Types
<1> QED
  BY <1>1, <1>2

LEMMA Answering ==
    ASSUME Types, NEW h \in Handles, NEW task \in {"call", "renew"},
           sent' = [sent EXCEPT ![<<h, task>>] = None]
    PROVE  /\ sent' \in [Tasks -> LeaseRequests \cup RefRequests \cup {None}]
           /\ sent'[<<h, task>>] = None
           /\ \A t \in Tasks : t # <<h, task>> => sent'[t] = sent[t]
<1>1. <<h, task>> \in Tasks
  BY DEF Tasks
<1> QED
  BY <1>1 DEF Types

LEMMA FencedFrame ==
    ASSUME Types, NEW h \in Handles, Fence(h)
    PROVE  /\ permit' \in [Handles -> Permits \cup {None}]
           /\ fenced' \subseteq Handles
           /\ \A g \in fenced' : permit'[g] = None
           /\ permit'[h] = None
           /\ \A g \in Handles \ {h} : permit'[g] = permit[g]
BY DEF Types, Rest, Fence

LEMMA InstalledFrame ==
    ASSUME Types, NEW h \in Handles, NEW p \in Permits, Install(h, p)
    PROVE  /\ permit' \in [Handles -> Permits \cup {None}]
           /\ fenced' \subseteq Handles
           /\ \A g \in fenced' : permit'[g] = None
           /\ permit'[h] = p
           /\ \A g \in Handles \ {h} : permit'[g] = permit[g]
BY DEF Types, Rest, Install

Others(h) == Frame(h) /\ \A g \in Handles \ {h} : permit'[g] = permit[g]

\* A variable indexed by handles is written at h at most.
Touched(f, g, h) == g = f \/ \E x : g = [f EXCEPT ![h] = x]

LEMMA TouchedFrame ==
    ASSUME NEW S, NEW f \in [Handles -> S], NEW g, NEW h \in Handles, Touched(f, g, h)
    PROVE  \A k \in Handles \ {h} : g[k] = f[k]
BY DEF Touched

LEMMA SentTouched ==
    ASSUME Types, NEW h \in Handles, NEW task \in {"call", "renew"},
           sent' = sent \/ \E x : sent' = [sent EXCEPT ![<<h, task>>] = x]
    PROVE  /\ \A g \in Handles \ {h} : \A k \in {"call", "renew"} :
                 sent'[<<g, k>>] = sent[<<g, k>>]
           /\ \A k \in {"call", "renew"} \ {task} : sent'[<<h, k>>] = sent[<<h, k>>]
<1>1. sent \in [Tasks -> LeaseRequests \cup RefRequests \cup {None}]
  BY DEF Types
<1>2. \A t \in Tasks : t # <<h, task>> => sent'[t] = sent[t]
  BY <1>1
<1> QED
  BY <1>2 DEF Tasks

LEMMA StepOthers ==
    ASSUME Types, NEW h \in Handles,
           Touched(pc, pc', h), Touched(call, call', h), Touched(permit, permit', h),
           NEW task \in {"call", "renew"},
           sent' = sent \/ \E x : sent' = [sent EXCEPT ![<<h, task>>] = x]
    PROVE  /\ Others(h)
           /\ \A k \in {"call", "renew"} \ {task} : sent'[<<h, k>>] = sent[<<h, k>>]
<1>1. /\ pc \in [Handles -> Labels] /\ call \in [Handles -> Calls \cup {NoCall}]
      /\ permit \in [Handles -> Permits \cup {None}]
  BY DEF Types, Rest
<1>2. \A g \in Handles \ {h} : pc'[g] = pc[g]
  BY <1>1, TouchedFrame
<1>3. \A g \in Handles \ {h} : call'[g] = call[g]
  BY <1>1, TouchedFrame
<1>4. \A g \in Handles \ {h} : permit'[g] = permit[g]
  BY <1>1, TouchedFrame
<1>5. /\ \A g \in Handles \ {h} : \A k \in {"call", "renew"} :
            sent'[<<g, k>>] = sent[<<g, k>>]
      /\ \A k \in {"call", "renew"} \ {task} : sent'[<<h, k>>] = sent[<<h, k>>]
  BY SentTouched
<1> QED
  BY <1>2, <1>3, <1>4, <1>5 DEF Others, Frame

LEMMA KeepTouched ==
    ASSUME NEW h \in Handles, NEW field, NEW v, Keep(h, field, v)
    PROVE  Touched(call, call', h)
<1>1. call' = [call EXCEPT ![h] = [call[h] EXCEPT ![field] = v]]
  BY DEF Keep
<1> QED
  BY <1>1 DEF Touched

-----------------------------------------------------------------------------
(* Steps that leave the store alone preserve the first invariant when the   *)
(* call of the handle, its request and its receipt are in order.            *)

LEMMA LocalJournal ==
    ASSUME Journal, NEW h \in Handles, Types', UNCHANGED store, Frame(h),
           CallOK(ref, pc'[h], call'[h], sent'[<<h, "call">>]),
           sent'[<<h, "renew">>] \in LeaseRequests \cup {None},
           \A r \in requests' : r \in requests \/ RequestOK(r),
           \A op \in acked' : op \in acked \/ Applied(op, ref)
    PROVE  Journal'
<1>1. ref' = ref /\ lease' = lease
  BY DEF ref, lease
<1>2. StoreOK'
  BY <1>1 DEF Journal, StoreOK
<1>3. ASSUME NEW r \in requests' PROVE RequestOK(r)'
  <2>1. RequestOK(r)
    BY DEF Journal
  <2> QED
    BY <1>1, <2>1 DEF RequestOK
<1>4. ASSUME NEW g \in Handles
      PROVE  /\ CallOK(ref, pc[g], call[g], sent[<<g, "call">>])'
             /\ (sent[<<g, "renew">>] \in LeaseRequests \cup {None})'
  <2>1. CASE g = h
    BY <1>1, <2>1 DEF LeaseRequests
  <2>2. CASE g # h
    <3>1. /\ CallOK(ref, pc[g], call[g], sent[<<g, "call">>])
          /\ sent[<<g, "renew">>] \in LeaseRequests \cup {None}
      BY DEF Journal
    <3> QED
      BY <1>1, <2>2, <3>1 DEF Frame, LeaseRequests
  <2> QED
    BY <2>1, <2>2
<1>5. AckedIsPublished'
  <2>1. \A op \in acked' : Applied(op, ref)
    BY DEF Journal, AckedIsPublished
  <2>2. \A op : Applied(op, ref)' <=> Applied(op, ref)
    BY <1>1 DEF Applied, Log, Exists
  <2> QED
    BY <2>1, <2>2 DEF AckedIsPublished
<1> QED
  BY <1>2, <1>3, <1>4, <1>5 DEF Journal

LEMMA RestKept ==
    ASSUME Rest, UNCHANGED <<commits, local, session, acked, clock, calls, faults>>
    PROVE  Rest'
BY DEF Rest, local

LEMMA ReturnJournal ==
    ASSUME Journal, NEW h \in Handles, Return(h), UNCHANGED <<store, requests, sent>>,
           sent[<<h, "call">>] = None, Rest',
           \A op \in acked' : op \in acked \/ Applied(op, ref)
    PROVE  Journal'
<1>1. Types
  BY DEF Journal
<1>2. /\ pc' \in [Handles -> Labels]
      /\ call' \in [Handles -> Calls \cup {NoCall}]
      /\ pc'[h] = "idle"
      /\ \A g \in Handles \ {h} : pc'[g] = pc[g] /\ call'[g] = call[g]
  BY <1>1, Returned
<1>3. Types'
  BY <1>1, <1>2 DEF Types
<1>4. Frame(h)
  BY <1>2 DEF Frame
<1>5. CallOK(ref, pc'[h], call'[h], sent'[<<h, "call">>])
  BY <1>2 DEF CallOK
<1>6. sent'[<<h, "renew">>] \in LeaseRequests \cup {None}
  BY DEF Journal
<1> QED
  BY <1>3, <1>4, <1>5, <1>6, LocalJournal

LEMMA MoveJournal ==
    ASSUME Journal, NEW h \in Handles, NEW label \in Labels, Goto(h, label),
           UNCHANGED <<store, requests, sent>>, Rest',
           call' \in [Handles -> Calls \cup {NoCall}],
           \A g \in Handles \ {h} : call'[g] = call[g],
           CallOK(ref, label, call'[h], sent[<<h, "call">>]),
           \A op \in acked' : op \in acked \/ Applied(op, ref)
    PROVE  Journal'
<1>1. Types
  BY DEF Journal
<1>2. /\ pc' \in [Handles -> Labels]
      /\ pc'[h] = label
      /\ \A g \in Handles \ {h} : pc'[g] = pc[g]
  BY <1>1, Gone
<1>3. Types'
  BY <1>1, <1>2 DEF Types
<1>4. Frame(h)
  BY <1>2 DEF Frame
<1>6. sent'[<<h, "renew">>] \in LeaseRequests \cup {None}
  BY DEF Journal
<1> QED
  BY <1>2, <1>3, <1>4, <1>6, LocalJournal

LEMMA SendJournal ==
    ASSUME Journal, NEW h \in Handles, NEW label \in Labels, Goto(h, label),
           NEW object, NEW expected \in Nat, NEW value,
           Send(h, "call", object, expected, value),
           (object = "lease" /\ value \in Leases) \/ (object = "ref" /\ value \in RefValues),
           UNCHANGED store, Rest', acked' = acked,
           call' \in [Handles -> Calls \cup {NoCall}],
           \A g \in Handles \ {h} : call'[g] = call[g],
           LET r == [from |-> <<h, "call">>, object |-> object, expected |-> expected,
                     value |-> value]
           IN  (r \in LeaseRequests \/ r \in RefRequests) =>
                  CallOK(ref, label, call'[h], r) /\ RequestOK(r)
    PROVE  Journal'
<1> DEFINE r == [from |-> <<h, "call">>, object |-> object, expected |-> expected,
                 value |-> value]
<1>1. Types
  BY DEF Journal
<1>2. /\ pc' \in [Handles -> Labels]
      /\ pc'[h] = label
      /\ \A g \in Handles \ {h} : pc'[g] = pc[g]
  BY <1>1, Gone
<1>3. /\ object = "lease" => r \in LeaseRequests
      /\ object = "ref" => r \in RefRequests
      /\ sent' \in [Tasks -> LeaseRequests \cup RefRequests \cup {None}]
      /\ sent'[<<h, "call">>] = r
      /\ \A t \in Tasks : t # <<h, "call">> => sent'[t] = sent[t]
      /\ requests' = requests \cup {r}
  <2>1. /\ object = "lease" => r \in LeaseRequests
        /\ object = "ref" => r \in RefRequests
    BY DEF LeaseRequests, RefRequests, Tasks
  <2>2. sent' = [sent EXCEPT ![<<h, "call">>] = r] /\ requests' = requests \cup {r}
    BY DEF Send
  <2>3. r \in LeaseRequests \cup RefRequests
    BY <2>1
  <2> HIDE DEF r
  <2> QED
    BY <1>1, <2>1, <2>2, <2>3, Sending
<1>4. CallOK(ref, label, call'[h], r) /\ RequestOK(r)
  BY <1>3
<1> HIDE DEF r
<1>5. Types'
  BY <1>1, <1>2, <1>3 DEF Types
<1>6. Frame(h) /\ sent'[<<h, "renew">>] = sent[<<h, "renew">>]
  BY <1>2, <1>3 DEF Frame, Tasks
<1>7. sent'[<<h, "renew">>] \in LeaseRequests \cup {None}
  BY <1>6 DEF Journal
<1> QED
  BY <1>2, <1>3, <1>4, <1>5, <1>6, <1>7, LocalJournal

LEMMA Facts ==
    ASSUME Journal, NEW h \in Handles
    PROVE  /\ Types /\ Rest /\ StoreOK
           /\ CallOK(ref, pc[h], call[h], sent[<<h, "call">>])
           /\ call[h] \in Calls \cup {NoCall}
           /\ Exists(lease) => lease \in HeldLeases /\ lease.value \in Leases
           /\ Exists(ref) => ref \in HeldRefs /\ ref.value \in RefValues
           /\ lease.token \in Nat /\ ref.token \in Nat
           /\ clock \in Nat /\ calls \in Nat
<1>1. /\ Types /\ Rest /\ StoreOK
      /\ CallOK(ref, pc[h], call[h], sent[<<h, "call">>])
  BY DEF Journal, Types
<1>2. lease = Absent \/ lease \in HeldLeases
  BY <1>1 DEF StoreOK
<1>3. ref = Absent \/ ref \in HeldRefs
  BY <1>1 DEF StoreOK
<1>4. /\ Exists(lease) => lease \in HeldLeases /\ lease.value \in Leases
      /\ lease.token \in Nat
  BY <1>2, SMT DEF Exists, Absent, HeldLeases
<1>5. /\ Exists(ref) => ref \in HeldRefs /\ ref.value \in RefValues
      /\ ref.token \in Nat
  BY <1>3, SMT DEF Exists, Absent, HeldRefs
<1>6. call[h] \in Calls \cup {NoCall}
  BY <1>1 DEF Types
<1>7. clock \in Nat /\ calls \in Nat
  BY <1>1, PublicationBoundsAssumption, SMT DEF Rest
<1> QED
  BY <1>1, <1>4, <1>5, <1>6, <1>7

LEMMA NewCallTyped ==
    ASSUME NEW h \in Handles, clock \in Nat, calls \in Nat,
           NEW kind \in (Kinds \cap OpKinds) \cup {"open", "init", "takeover"},
           NEW op \in OpIds \cup {None}, NEW c, c = NewCall(h, kind, op)
    PROVE  c \in Calls /\ c.kind = kind /\ c.op = op /\ c.stamp = None
<1>1. Fresh(h) \in Nonces
  BY DEF Fresh, Nonces
<1>2. /\ None \in Stamps \cup {None} /\ None \in Manifests \cup {None}
      /\ None \in HeldRefs \cup Permits \cup {None}
  OBVIOUS
<1> QED
  BY <1>1, <1>2 DEF NewCall, NoCall, Calls

LEMMA FreshTyped ==
    ASSUME NEW h \in Handles, calls \in Nat
    PROVE  Fresh(h) \in Nonces /\ Fresh(h) \in OpIds \ Ops
<1>1. <<h, calls>> \in Handles \X Nat
  OBVIOUS
<1>2. Fresh(h) \in Nonces
  BY <1>1 DEF Fresh, Nonces
<1> QED
  BY <1>2, NoncesAssumption DEF OpIds

-----------------------------------------------------------------------------
(* The first invariant, action by action. *)

LEMMA CallJournal ==
    ASSUME Journal, NEW h \in Handles, NEW kind \in Kinds, NEW op \in Ops \cup {Fresh(h)},
           Call(h, kind, op)
    PROVE  Journal'
<1> DEFINE m == IF kind \in {"resume", "session"} THEN session[op] ELSE None
           new == NewCall(h, kind, op)
           c == [new EXCEPT !.manifest = m]
<1>1. /\ Types /\ Rest
      /\ CallOK(ref, pc[h], call[h], sent[<<h, "call">>])
      /\ clock \in Nat /\ calls \in Nat
  BY Facts
<1>2. kind \in Kinds \cap OpKinds /\ op \in OpIds
  BY <1>1, SMT DEF Call, OpKinds, OpIds, Fresh, Nonces
<1>3. m \in Manifests \cup {None}
  BY <1>1 DEF Call, Rest
<1>4. c \in Calls /\ c.kind = kind /\ c.op = op
  <2>1. new = NewCall(h, kind, op)
    OBVIOUS
  <2> HIDE DEF m, new
  <2>2. new \in Calls /\ new.kind = kind /\ new.op = op
    BY <1>1, <1>2, <2>1, NewCallTyped, SMT
  <2> QED
    BY <1>3, <2>2 DEF Calls
<1>5. /\ call' = [call EXCEPT ![h] = c]
      /\ Goto(h, FirstStep(kind))
  BY DEF Call
<1>6. /\ FirstStep(kind) \in {"reconcile", "load", "permit"}
      /\ FirstStep(kind) = "reconcile" => kind = "session"
      /\ FirstStep(kind) = "load" => kind = "delete"
      /\ FirstStep(kind) = "permit" => kind # "delete"
  BY DEF FirstStep
<1>7. UNCHANGED <<store, requests, sent, acked>>
  BY DEF Call
<1>8. Rest'
  <2>1. calls' \in 0 .. MaxCalls
    BY <1>1, Counted, PublicationBoundsAssumption DEF Call, Rest
  <2>2. UNCHANGED <<commits, clock, mode, permit, fenced, session, acked, faults>>
    BY DEF Call, local
  <2> QED
    BY <1>1, <2>1, <2>2 DEF Rest
<1>9. /\ c.kind \in {"put", "session"} => c.op \in Ops
      /\ c.kind \in {"create", "reset", "delete"} => c.op \notin Ops
  <2>1. Fresh(h) \notin Ops
    BY <1>1, FreshTyped
  <2>2. /\ kind \in {"put", "session"} => op \in Ops
        /\ kind \in {"create", "reset", "delete"} => op = Fresh(h)
    BY DEF Call, Ops
  <2> QED
    BY <1>4, <2>1, <2>2
<1>10. sent[<<h, "call">>] = None
  BY <1>1 DEF Call, CallOK
<1> HIDE DEF c
<1>11. /\ call' \in [Handles -> Calls \cup {NoCall}]
       /\ call'[h] = c
       /\ \A g \in Handles \ {h} : call'[g] = call[g]
  BY <1>1, <1>4, <1>5, Started
<1>12. CallOK(ref, FirstStep(kind), c, None)
  BY <1>2, <1>4, <1>6, <1>9 DEF CallOK, OpKinds
<1> QED
  BY <1>5, <1>6, <1>7, <1>8, <1>10, <1>11, <1>12, MoveJournal DEF Labels

LEMMA Acquiring ==
    ASSUME Journal, NEW h \in Handles, NEW now \in Nat, NEW nonce \in Nonces,
           SendAcquire(h, now, nonce)
    PROVE  \E expected \in Nat, v \in Leases : Send(h, "call", "lease", expected, v)
<1>1. /\ Exists(lease) => lease.value \in Leases
      /\ lease.token \in Nat
  BY Facts
<1>2. CASE /\ ~Exists(lease)
           /\ Send(h, "call", "lease", 0, Lease(1, h, nonce, "active", now))
  BY <1>2, LeaseTyped, SMT
<1>3. CASE /\ Exists(lease)
           /\ Send(h, "call", "lease", lease.token,
                   [lease.value EXCEPT !.expires = now + LeaseTicks])
  <2> DEFINE v == [lease.value EXCEPT !.expires = now + LeaseTicks]
  <2>1. now + LeaseTicks \in Nat
    BY PublicationBoundsAssumption, SMT
  <2>2. v \in Leases
    BY <1>1, <1>3, <2>1, Refreshed
  <2>3. Send(h, "call", "lease", lease.token, v)
    BY <1>3
  <2> HIDE DEF v
  <2> QED
    BY <1>1, <2>2, <2>3
<1> QED
  BY <1>2, <1>3 DEF SendAcquire

\* A request for the lease, sent by a call that has just moved to label.
LEMMA LeaseSendJournal ==
    ASSUME Journal, NEW h \in Handles, NEW label \in {"acquire", "pending", "active"},
           Goto(h, label), NEW expected \in Nat, NEW v \in Leases,
           Send(h, "call", "lease", expected, v),
           UNCHANGED <<store, acked>>, Rest',
           call' \in [Handles -> Calls \cup {NoCall}],
           \A g \in Handles \ {h} : call'[g] = call[g],
           CallOK(ref, label, call'[h], None)
    PROVE  Journal'
<1> DEFINE r == [from |-> <<h, "call">>, object |-> "lease", expected |-> expected,
                 value |-> v]
<1>1. ASSUME r \in LeaseRequests \/ r \in RefRequests
      PROVE  CallOK(ref, label, call'[h], r) /\ RequestOK(r)
  <2>1. r \in LeaseRequests
    BY <1>1 DEF RefRequests, LeaseRequests
  <2> HIDE DEF r
  <2> QED
    BY <2>1 DEF CallOK, RequestOK
<1>2. label \in Labels
  BY DEF Labels
<1> QED
  BY <1>1, <1>2, SendJournal

LEMMA PermitJournal ==
    ASSUME Journal, NEW h \in Handles, Permit(h)
    PROVE  Journal'
<1> USE DEF Permit
<1>1. /\ Types /\ Rest
      /\ CallOK(ref, pc[h], call[h], sent[<<h, "call">>])
  BY Facts
<1>2. /\ sent[<<h, "call">>] = None /\ call[h] \in Calls
      /\ call[h].id \in Nonces /\ call[h].now \in Nat
  BY <1>1 DEF CallOK, Calls
<1>3. CASE Return(h) /\ UNCHANGED <<requests, sent, permit, fenced>>
  <2>1. Rest'
    BY <1>1, <1>3, RestKept DEF local
  <2> QED
    BY <1>2, <1>3, <2>1, ReturnJournal
<1>4. CASE /\ permit[h] # None
           /\ Keep(h, "stamp", Stamp(permit[h].lease))
           /\ Goto(h, "validate")
           /\ UNCHANGED <<requests, sent, permit, fenced>>
  <2>1. Rest'
    BY <1>1, <1>4, RestKept DEF local
  <2>2. Stamp(permit[h].lease) \in Stamps
    BY <1>1, <1>4, StampTyped DEF Rest, Permits
  <2>3. /\ call' \in [Handles -> Calls \cup {NoCall}]
        /\ call'[h] \in Calls
        /\ call'[h].kind = call[h].kind /\ call'[h].op = call[h].op
        /\ call'[h].seen = call[h].seen
        /\ \A g \in Handles \ {h} : call'[g] = call[g]
    BY <1>1, <1>2, <1>4, <2>2, StampKept
  <2>5. CallOK(ref, "validate", call'[h], None)
    BY <1>1, <2>3 DEF CallOK
  <2> QED
    BY <1>2, <1>4, <2>1, <2>3, <2>5, MoveJournal DEF Labels
<1>5. CASE Fence(h) /\ Return(h) /\ UNCHANGED <<requests, sent>>
  <2>1. Rest'
    BY <1>1, <1>5, FencedFrame DEF Rest
  <2> QED
    BY <1>2, <1>5, <2>1, ReturnJournal
<1>6. CASE /\ SendAcquire(h, call[h].now, call[h].id)
           /\ Goto(h, "acquire")
           /\ UNCHANGED <<call, permit, fenced>>
  <2>1. Rest'
    BY <1>1, <1>6, RestKept DEF local
  <2>2. PICK expected \in Nat, v \in Leases : Send(h, "call", "lease", expected, v)
    BY <1>2, <1>6, Acquiring
  <2>3. CallOK(ref, "acquire", call'[h], None)
    BY <1>1, <1>6 DEF CallOK, OpKinds
  <2>4. /\ call' \in [Handles -> Calls \cup {NoCall}]
        /\ \A g \in Handles \ {h} : call'[g] = call[g]
    BY <1>1, <1>6 DEF Types
  <2> QED
    BY <1>6, <2>1, <2>2, <2>3, <2>4, LeaseSendJournal
<1> QED
  BY <1>3, <1>4, <1>5, <1>6

LEMMA ActiveStamp ==
    ASSUME Journal, NEW h \in Handles, NEW stamp, NEW now, ValidActive(stamp, now)
    PROVE  stamp \in Stamps
<1>1. lease.value \in Leases /\ Stamp(lease.value) = stamp
  BY Facts DEF ValidActive
<1> QED
  BY <1>1, StampTyped

LEMMA ValidateJournal ==
    ASSUME Journal, NEW h \in Handles, Validate(h)
    PROVE  Journal'
<1> USE DEF Validate
<1>1. /\ Types /\ Rest
      /\ CallOK(ref, pc[h], call[h], sent[<<h, "call">>])
  BY Facts
<1>2. sent[<<h, "call">>] = None /\ call[h] \in Calls
  BY <1>1 DEF CallOK
<1>3. CASE Return(h) /\ UNCHANGED <<permit, fenced>>
  <2>1. Rest'
    BY <1>1, <1>3, RestKept DEF local
  <2> QED
    BY <1>2, <1>3, <2>1, ReturnJournal
<1>4. CASE /\ ValidActive(call[h].stamp, call[h].now)
           /\ Goto(h, AfterValidate(call[h].kind)) /\ UNCHANGED call
           /\ UNCHANGED <<permit, fenced>>
  <2> DEFINE kind == call[h].kind
  <2>1. Rest'
    BY <1>1, <1>4, RestKept DEF local
  <2>2. kind \in OpKinds
    BY <1>1 DEF CallOK
  <2>3. /\ AfterValidate(kind) \in {"reconcile", "load", "publish", "recheck"}
        /\ AfterValidate(kind) = "reconcile" => kind = "put"
        /\ AfterValidate(kind) = "load" => kind # "create"
        /\ AfterValidate(kind) = "publish" => kind = "delete"
        /\ AfterValidate(kind) = "recheck" => kind = "create"
    BY <2>2 DEF AfterValidate, OpKinds
  <2>4. call[h].stamp \in Stamps
    BY <1>4, ActiveStamp
  <2>5. CallOK(ref, AfterValidate(kind), call'[h], None)
    BY <1>1, <1>2, <1>4, <2>3, <2>4 DEF CallOK
  <2>6. /\ call' \in [Handles -> Calls \cup {NoCall}]
        /\ \A g \in Handles \ {h} : call'[g] = call[g]
    BY <1>1, <1>4 DEF Types
  <2> QED
    BY <1>2, <1>4, <2>1, <2>3, <2>5, <2>6, MoveJournal DEF Labels
<1>5. CASE Fence(h) /\ Return(h)
  <2>1. Rest'
    BY <1>1, <1>5, FencedFrame DEF Rest
  <2> QED
    BY <1>2, <1>5, <2>1, ReturnJournal
<1> QED
  BY <1>3, <1>4, <1>5

LEMMA FindsApplied ==
    ASSUME NEW op, NEW r, NEW now, Finds(op, r, now)
    PROVE  Applied(op, r)
BY DEF Finds, Applied

LEMMA ReconcileJournal ==
    ASSUME Journal, NEW h \in Handles, Reconcile(h)
    PROVE  Journal'
<1> USE DEF Reconcile
<1>1. /\ Types /\ Rest
      /\ CallOK(ref, pc[h], call[h], sent[<<h, "call">>])
  BY Facts
<1>2. sent[<<h, "call">>] = None /\ call[h] \in Calls /\ call[h].op \in Ops
  BY <1>1 DEF CallOK
<1>3. CASE Return(h) /\ UNCHANGED acked
  <2>1. Rest'
    BY <1>1, <1>3, RestKept
  <2> QED
    BY <1>2, <1>3, <2>1, ReturnJournal
<1>4. CASE /\ Finds(call[h].op, ref, call[h].now)
           /\ acked' = acked \cup {call[h].op}
           /\ Return(h)
  <2>1. Rest'
    BY <1>1, <1>2, <1>4 DEF Rest, local
  <2> QED
    BY <1>2, <1>4, <2>1, ReturnJournal, FindsApplied
<1>5. CASE /\ Goto(h, IF call[h].kind = "session" THEN "permit" ELSE "load")
           /\ UNCHANGED <<call, acked>>
  <2> DEFINE label == IF call[h].kind = "session" THEN "permit" ELSE "load"
  <2>1. Rest'
    BY <1>1, <1>5, RestKept
  <2>2. CallOK(ref, label, call'[h], None) /\ label \in Labels
    BY <1>1, <1>2, <1>5 DEF CallOK, Labels
  <2>3. /\ call' \in [Handles -> Calls \cup {NoCall}]
        /\ \A g \in Handles \ {h} : call'[g] = call[g]
    BY <1>1, <1>5 DEF Types
  <2> HIDE DEF label
  <2>4. Goto(h, label)
    BY <1>5 DEF label
  <2> QED
    BY <1>2, <1>5, <2>1, <2>2, <2>3, <2>4, MoveJournal
<1> QED
  BY <1>3, <1>4, <1>5

LEMMA LoadJournal ==
    ASSUME Journal, NEW h \in Handles, Load(h)
    PROVE  Journal'
<1> USE DEF Load
<1>1. /\ Types /\ Rest /\ StoreOK
      /\ CallOK(ref, pc[h], call[h], sent[<<h, "call">>])
      /\ Exists(ref) => ref \in HeldRefs
  BY Facts
<1>2. sent[<<h, "call">>] = None /\ call[h] \in Calls
  BY <1>1 DEF CallOK
<1>3. CASE Return(h) /\ UNCHANGED session
  <2>1. Rest'
    BY <1>1, <1>3, RestKept
  <2> QED
    BY <1>2, <1>3, <2>1, ReturnJournal
<1>4. CASE /\ Live(ref) /\ call[h].kind \in {"begin", "resume"}
           /\ session' = [session EXCEPT ![call[h].op] =
                            [base |-> Target(ref), authority |-> call[h].stamp]]
           /\ Return(h)
  <2>1. Target(ref) \in Seq(OpIds)
    BY <1>1, <1>4, TargetTyped DEF Live
  <2>2. call[h].stamp \in Stamps
    BY <1>1, <1>4 DEF CallOK
  <2>3. [base |-> Target(ref), authority |-> call[h].stamp] \in Manifests
    BY <2>1, <2>2 DEF Manifests
  <2>4. session' \in [Sessions -> Manifests \cup {None}]
    BY <1>1, <1>4, <2>3 DEF Rest
  <2>5. Rest'
    BY <1>1, <2>4 DEF Rest, local
  <2> QED
    BY <1>2, <1>4, <2>5, ReturnJournal
<1>5. CASE /\ Live(ref) /\ call[h].kind \notin {"begin", "resume"}
           /\ Keep(h, "seen", ref)
           /\ Goto(h, IF call[h].kind = "delete" THEN "permit" ELSE "publish")
           /\ UNCHANGED session
  <2> DEFINE label == IF call[h].kind = "delete" THEN "permit" ELSE "publish"
  <2>1. Rest'
    BY <1>1, <1>5, RestKept
  <2>2. SeenRef(ref, ref)
    BY <1>1, <1>5, SMT DEF Live, SeenRef, StoreOK, Exists, Absent, HeldRefs
  <2>3. ref \in HeldRefs
    BY <2>2 DEF SeenRef
  <2>4. /\ call' \in [Handles -> Calls \cup {NoCall}]
        /\ call'[h] \in Calls
        /\ call'[h].kind = call[h].kind /\ call'[h].op = call[h].op /\ call'[h].seen = ref
        /\ \A g \in Handles \ {h} : call'[g] = call[g]
    BY <1>1, <1>2, <1>5, <2>3, SeenKept
  <2>6. call[h].kind \in {"put", "session", "reset", "delete"}
    BY <1>1, <1>5 DEF CallOK, OpKinds
  <2>7. CallOK(ref, label, call'[h], None) /\ label \in Labels
    BY <1>1, <1>5, <2>2, <2>4, <2>6 DEF CallOK, Labels, Live
  <2>8. Goto(h, label)
    BY <1>5
  <2> HIDE DEF label
  <2> QED
    BY <1>2, <1>5, <2>1, <2>4, <2>7, <2>8, MoveJournal
<1> QED
  BY <1>3, <1>4, <1>5

\* A request for the ref that continues the journal of f, read earlier.
LEMMA RefSendJournal ==
    ASSUME Journal, NEW h \in Handles, NEW label \in {"published", "barred"}, Goto(h, label),
           NEW f, f = Absent \/ SeenRef(ref, f), NEW e \in Events, NEW t \in BOOLEAN,
           Send(h, "call", "ref", f.token, RefValue(f, e, t)),
           UNCHANGED <<store, acked>>, Rest',
           call' \in [Handles -> Calls \cup {NoCall}],
           \A g \in Handles \ {h} : call'[g] = call[g],
           CallOK(ref, label, call'[h], None),
           label = "published" => e.op = call'[h].op
    PROVE  Journal'
<1> DEFINE v == RefValue(f, e, t)
           r == [from |-> <<h, "call">>, object |-> "ref", expected |-> f.token, value |-> v]
<1>1. f = Absent \/ (f \in HeldRefs /\ Len(f.value.log) = f.token)
  BY DEF SeenRef
<1>2. /\ v \in RefValues
      /\ Len(v.log) = f.token + 1
      /\ v.log[Len(v.log)] = e
      /\ \A i \in 1 .. f.token : v.log[i] = f.value.log[i]
  <2>1. v = RefValue(f, e, t)
    OBVIOUS
  <2> HIDE DEF v
  <2> QED
    BY <1>1, <2>1, Continued, SMT
<1> HIDE DEF v
<1>3. f.token \in Nat /\ f.token <= ref.token
  <2>1. ref.token \in Nat
    BY Facts
  <2>2. CASE f = Absent
    BY <2>1, <2>2, SMT DEF Absent
  <2>3. CASE SeenRef(ref, f)
    BY <2>3 DEF SeenRef, HeldRefs
  <2> QED
    BY <2>2, <2>3
<1>4. f.token = ref.token => \A i \in 1 .. f.token : v.log[i] = ref.value.log[i]
  BY <1>2, <1>3, SMT DEF SeenRef, Absent
<1>5. ASSUME r \in LeaseRequests \/ r \in RefRequests
      PROVE  CallOK(ref, label, call'[h], r) /\ RequestOK(r)
  <2>1. r \in RefRequests /\ r.expected = f.token /\ r.value = v
    BY <1>5 DEF RefRequests, LeaseRequests
  <2> HIDE DEF r
  <2>2. RequestOK(r)
    BY <1>2, <1>3, <1>4, <2>1 DEF RequestOK
  <2>3. CallOK(ref, label, call'[h], r)
    BY <1>2, <2>1 DEF CallOK
  <2> QED
    BY <2>2, <2>3
<1>6. label \in Labels /\ Send(h, "call", "ref", f.token, v)
  BY DEF Labels, v
<1> QED
  BY <1>2, <1>3, <1>5, <1>6, SendJournal

LEMMA PublishJournal ==
    ASSUME Journal, NEW h \in Handles, Publish(h)
    PROVE  Journal'
<1> DEFINE seen == call[h].seen
           stamp == call[h].stamp
<1>1. /\ Types /\ Rest
      /\ CallOK(ref, pc[h], call[h], sent[<<h, "call">>])
  BY Facts
<1>2. /\ pc[h] = "publish" /\ UNCHANGED <<store, acked>>
      /\ UNCHANGED <<clock, local, session, calls, faults>>
  BY DEF Publish
<1>3. /\ sent[<<h, "call">>] = None /\ call[h] \in Calls /\ call[h].op \in OpIds
      /\ SeenRef(ref, seen) /\ call[h].kind \in {"put", "session", "reset", "delete"}
      /\ call[h].now \in Nat
  BY <1>1, <1>2 DEF CallOK, Calls
<1>4. ASSUME commits' \subseteq Seq(OpIds) PROVE Rest'
  BY <1>1, <1>2, <1>4 DEF Rest, local
<1>5. CASE Return(h) /\ UNCHANGED <<requests, sent, commits>>
  <2>1. Rest'
    BY <1>1, <1>2, <1>5, RestKept
  <2> QED
    BY <1>2, <1>3, <1>5, <2>1, ReturnJournal
<1>6. ASSUME ValidActive(stamp, call[h].now), NEW target \in NewTargets(h),
             commits' = commits \cup {target},
             Send(h, "call", "ref", seen.token,
                  RefValue(seen, Event(call[h].op, target, stamp, call[h].now),
                           call[h].kind = "delete")),
             Goto(h, "published"), UNCHANGED call
      PROVE  Journal'
  <2> DEFINE e == Event(call[h].op, target, stamp, call[h].now)
             t == call[h].kind = "delete"
  <2>1. stamp \in Stamps
    BY <1>6, ActiveStamp
  <2>2. seen \in HeldRefs
    BY <1>3 DEF SeenRef
  <2>3. commits \subseteq Seq(OpIds) /\ Target(seen) \in Seq(OpIds)
    BY <1>1, <2>2, TargetTyped DEF Rest
  <2>4. target \in Seq(OpIds)
    <3>1. CASE call[h].kind \in {"put", "session"}
      <4>1. target = Append(Target(seen), call[h].op)
        BY <1>6, <3>1 DEF NewTargets
      <4> QED
        BY <1>3, <2>3, <4>1, SMT
    <3>2. CASE call[h].kind = "delete"
      BY <1>6, <2>3, <3>2 DEF NewTargets
    <3>3. CASE call[h].kind = "reset"
      BY <1>6, <2>3, <3>3 DEF NewTargets
    <3> QED
      BY <1>3, <3>1, <3>2, <3>3
  <2>10. Rest'
    BY <1>4, <1>6, <2>3, <2>4
  <2>5. e \in Events /\ e.op = call[h].op
    BY <1>3, <2>1, <2>4, EventTyped DEF Event
  <2>6. t \in BOOLEAN
    OBVIOUS
  <2>7. Send(h, "call", "ref", seen.token, RefValue(seen, e, t))
    BY <1>6
  <2>8. CallOK(ref, "published", call'[h], None)
    BY <1>1, <1>2, <1>6 DEF CallOK
  <2>9. /\ call' \in [Handles -> Calls \cup {NoCall}]
        /\ \A g \in Handles \ {h} : call'[g] = call[g]
    BY <1>1, <1>6 DEF Types
  <2> HIDE DEF e, t, seen, stamp
  <2> QED
    BY <1>2, <1>3, <1>6, <2>5, <2>6, <2>7, <2>8, <2>9, <2>10, RefSendJournal
<1> QED
  BY <1>5, <1>6 DEF Publish

LEMMA RecheckJournal ==
    ASSUME Journal, NEW h \in Handles, Recheck(h)
    PROVE  Journal'
<1> USE DEF Recheck
<1>1. /\ Types /\ Rest
      /\ CallOK(ref, pc[h], call[h], sent[<<h, "call">>])
  BY Facts
<1>2. sent[<<h, "call">>] = None /\ call[h] \in Calls
  BY <1>1 DEF CallOK
<1>3. Rest'
  BY <1>1, RestKept
<1>4. CASE Return(h)
  BY <1>2, <1>3, <1>4, ReturnJournal
<1>5. CASE /\ ValidActive(call[h].stamp, call[h].now)
           /\ Goto(h, "create") /\ UNCHANGED call
  <2>1. call[h].stamp \in Stamps
    BY <1>5, ActiveStamp
  <2>2. CallOK(ref, "create", call'[h], None)
    BY <1>1, <1>2, <1>5, <2>1 DEF CallOK
  <2>3. /\ call' \in [Handles -> Calls \cup {NoCall}]
        /\ \A g \in Handles \ {h} : call'[g] = call[g]
    BY <1>1, <1>5 DEF Types
  <2> QED
    BY <1>2, <1>3, <1>5, <2>2, <2>3, MoveJournal DEF Labels
<1> QED
  BY <1>4, <1>5

LEMMA SeenNow ==
    ASSUME StoreOK
    PROVE  ref = Absent \/ SeenRef(ref, ref)
BY SMT DEF StoreOK, SeenRef, HeldRefs

LEMMA CreateJournal ==
    ASSUME Journal, NEW h \in Handles, Create(h)
    PROVE  Journal'
<1> DEFINE base == IF call[h].kind = "init" THEN [token |-> 0, value |-> None] ELSE ref
<1>1. /\ Types /\ Rest /\ StoreOK
      /\ CallOK(ref, pc[h], call[h], sent[<<h, "call">>])
  BY Facts
<1>2. /\ pc[h] = "create" /\ UNCHANGED <<store, acked>>
      /\ UNCHANGED <<clock, local, session, calls, faults>>
  BY DEF Create
<1>3. /\ sent[<<h, "call">>] = None /\ call[h] \in Calls /\ call[h].op \in OpIds
      /\ call[h].stamp \in Stamps /\ call[h].now \in Nat
  BY <1>1, <1>2 DEF CallOK, Calls
<1>4. ASSUME commits' \subseteq Seq(OpIds) PROVE Rest'
  BY <1>1, <1>2, <1>4 DEF Rest, local
<1>5. CASE Return(h) /\ UNCHANGED <<requests, sent, commits>>
  <2>1. Rest'
    BY <1>1, <1>2, <1>5, RestKept
  <2> QED
    BY <1>2, <1>3, <1>5, <2>1, ReturnJournal
<1>6. ASSUME NEW target \in IF call[h].kind = "init" THEN {<<>>} ELSE commits,
             commits' = commits \cup {target},
             Send(h, "call", "ref", base.token,
                  RefValue(base, Event(call[h].op, target, call[h].stamp, call[h].now), FALSE)),
             Goto(h, "published"), UNCHANGED call
      PROVE  Journal'
  <2> DEFINE e == Event(call[h].op, target, call[h].stamp, call[h].now)
  <2>1. base = Absent \/ SeenRef(ref, base)
    BY <1>1, SeenNow DEF Absent
  <2> HIDE DEF base
  <2>2. target \in Seq(OpIds) /\ commits \subseteq Seq(OpIds)
    <3>1. commits \subseteq Seq(OpIds)
      BY <1>1 DEF Rest
    <3>2. <<>> \in Seq(OpIds)
      BY SMT
    <3> QED
      BY <1>6, <3>1, <3>2
  <2>3. Rest'
    BY <1>4, <1>6, <2>2
  <2>4. e \in Events /\ e.op = call[h].op
    BY <1>3, <2>2, EventTyped DEF Event
  <2>5. Send(h, "call", "ref", base.token, RefValue(base, e, FALSE))
    BY <1>6
  <2>6. CallOK(ref, "published", call'[h], None)
    BY <1>1, <1>2, <1>6 DEF CallOK
  <2>7. /\ call' \in [Handles -> Calls \cup {NoCall}]
        /\ \A g \in Handles \ {h} : call'[g] = call[g]
    BY <1>1, <1>6 DEF Types
  <2> HIDE DEF e
  <2> QED
    BY <1>2, <1>6, <2>1, <2>3, <2>4, <2>5, <2>6, <2>7, RefSendJournal
<1> QED
  BY <1>5, <1>6 DEF Create

LEMMA BarrierJournal ==
    ASSUME Journal, NEW h \in Handles, Barrier(h)
    PROVE  Journal'
<1> DEFINE stamp == Stamp(call[h].seen.lease)
           e == Event(call[h].op, Target(ref), stamp, call[h].now)
<1>1. /\ Types /\ Rest /\ StoreOK
      /\ CallOK(ref, pc[h], call[h], sent[<<h, "call">>])
      /\ Exists(ref) => ref \in HeldRefs
  BY Facts
<1>2. /\ pc[h] = "barrier" /\ UNCHANGED <<store, acked>>
      /\ UNCHANGED <<commits, clock, local, session, calls, faults>>
  BY DEF Barrier
<1>3. /\ sent[<<h, "call">>] = None /\ call[h] \in Calls /\ call[h].seen \in Permits
  BY <1>1, <1>2 DEF CallOK
<1>4. Rest'
  BY <1>1, <1>2, RestKept
<1>5. CASE Return(h) /\ UNCHANGED <<requests, sent>>
  BY <1>2, <1>3, <1>4, <1>5, ReturnJournal
<1>6. CASE /\ Live(ref)
           /\ Send(h, "call", "ref", ref.token, RefValue(ref, e, FALSE))
           /\ Goto(h, "barred") /\ UNCHANGED call
  <2>1. ref \in HeldRefs
    BY <1>1, <1>6 DEF Live
  <2>2. Target(ref) \in Seq(OpIds)
    BY <2>1, TargetTyped
  <2>3. stamp \in Stamps
    BY <1>3, StampTyped DEF Permits
  <2>4. CallOK(ref, "barred", call'[h], None)
    BY <1>1, <1>2, <1>6 DEF CallOK
  <2>5. call[h].op \in OpIds /\ call[h].now \in Nat
    <3>1. call[h].now \in Nat
      BY <1>3 DEF Calls
    <3>2. call[h].kind # "open"
      BY <1>1, <1>2 DEF CallOK
    <3> QED
      BY <1>1, <1>2, <3>1, <3>2 DEF CallOK
  <2>6. e \in Events
    BY <2>2, <2>3, <2>5, EventTyped
  <2>7. ref = Absent \/ SeenRef(ref, ref)
    BY <1>1, SeenNow
  <2>8. /\ call' \in [Handles -> Calls \cup {NoCall}]
        /\ \A g \in Handles \ {h} : call'[g] = call[g]
    BY <1>1, <1>6 DEF Types
  <2> HIDE DEF e
  <2> QED
    BY <1>2, <1>4, <1>6, <2>4, <2>6, <2>7, <2>8, RefSendJournal
<1> QED
  BY <1>5, <1>6 DEF Barrier

LEMMA ActivateJournal ==
    ASSUME Journal, NEW h \in Handles, Activate(h)
    PROVE  Journal'
<1> DEFINE l == call[h].seen.lease
           v == [l EXCEPT !.state = "active", !.expires = call[h].now + LeaseTicks]
<1>1. /\ Types /\ Rest
      /\ CallOK(ref, pc[h], call[h], sent[<<h, "call">>])
  BY Facts
<1>2. /\ pc[h] = "activate" /\ UNCHANGED <<store, acked, call>>
      /\ UNCHANGED <<commits, clock, local, session, calls, faults>>
      /\ Goto(h, "active")
      /\ Send(h, "call", "lease", call[h].seen.token, v)
  BY DEF Activate
<1>3. call[h] \in Calls /\ call[h].seen \in Permits
  BY <1>1, <1>2 DEF CallOK
<1>4. Rest'
  BY <1>1, <1>2, RestKept
<1>5. call[h].now + LeaseTicks \in Nat
  BY <1>3, PublicationBoundsAssumption, SMT DEF Calls
<1>6. l \in Leases /\ call[h].seen.token \in Nat
  BY <1>3 DEF Permits
<1>7. v \in Leases
  <2> HIDE DEF l
  <2> QED
    BY <1>5, <1>6, Refreshed
<1>8. CallOK(ref, "active", call'[h], None)
  BY <1>1, <1>2 DEF CallOK
<1>9. /\ call' \in [Handles -> Calls \cup {NoCall}]
      /\ \A g \in Handles \ {h} : call'[g] = call[g]
  BY <1>1, <1>2 DEF Types
<1> HIDE DEF v
<1> QED
  BY <1>2, <1>4, <1>6, <1>7, <1>8, <1>9, LeaseSendJournal

LEMMA SettleJournal ==
    ASSUME Journal, NEW h \in Handles, Settle(h)
    PROVE  Journal'
<1> USE DEF Settle
<1>1. /\ Types /\ Rest
      /\ CallOK(ref, pc[h], call[h], sent[<<h, "call">>])
  BY Facts
<1>2. sent[<<h, "call">>] = None /\ call[h].op \in Ops
  BY <1>1 DEF CallOK
<1>3. CASE UNCHANGED <<acked, permit, fenced>>
  <2>1. Rest'
    BY <1>1, <1>3, RestKept DEF local
  <2> QED
    BY <1>2, <1>3, <2>1, ReturnJournal
<1>4. CASE /\ Finds(call[h].op, ref, call[h].now)
           /\ acked' = acked \cup {call[h].op}
           /\ UNCHANGED <<permit, fenced>>
  <2>1. Rest'
    BY <1>1, <1>2, <1>4 DEF Rest
  <2> QED
    BY <1>2, <1>4, <2>1, ReturnJournal, FindsApplied
<1>5. CASE Fence(h) /\ UNCHANGED acked
  <2>1. Rest'
    BY <1>1, <1>5, FencedFrame DEF Rest
  <2> QED
    BY <1>2, <1>5, <2>1, ReturnJournal
<1> QED
  BY <1>3, <1>4, <1>5

\* A call that begins with the acquisition of the lease.
LEMMA AcquireJournal ==
    ASSUME Journal, NEW h \in Handles, NEW kind \in {"open", "init"}, NEW op \in OpIds \cup {None},
           kind = "init" => op \in OpIds \ Ops,
           SendAcquire(h, clock, Fresh(h)),
           call' = [call EXCEPT ![h] = NewCall(h, kind, op)],
           Goto(h, "acquire"), UNCHANGED <<store, acked>>, Rest'
    PROVE  Journal'
<1> DEFINE c == NewCall(h, kind, op)
<1>1. Types /\ clock \in Nat /\ calls \in Nat
  BY Facts
<1>2. c \in Calls /\ c.kind = kind /\ c.op = op
  <2>1. c = NewCall(h, kind, op)
    OBVIOUS
  <2> HIDE DEF c
  <2> QED
    BY <1>1, <2>1, NewCallTyped, SMT
<1>3. Fresh(h) \in Nonces
  BY <1>1, FreshTyped
<1>4. PICK expected \in Nat, v \in Leases : Send(h, "call", "lease", expected, v)
  BY <1>1, <1>3, Acquiring
<1>5. call' = [call EXCEPT ![h] = c]
  OBVIOUS
<1> HIDE DEF c
<1>6. /\ call' \in [Handles -> Calls \cup {NoCall}]
      /\ call'[h] = c
      /\ \A g \in Handles \ {h} : call'[g] = call[g]
  BY <1>1, <1>2, <1>5, Started
<1>7. CallOK(ref, "acquire", call'[h], None)
  BY <1>2, <1>6 DEF CallOK
<1> QED
  BY <1>4, <1>6, <1>7, LeaseSendJournal

LEMMA OpenJournal ==
    ASSUME Journal, NEW h \in Handles, Open(h)
    PROVE  Journal'
<1>1. Rest
  BY Facts
<1>2. Rest'
  <2>1. calls' \in 0 .. MaxCalls
    BY <1>1, Counted, PublicationBoundsAssumption DEF Open, Rest
  <2>2. UNCHANGED <<commits, clock, mode, permit, fenced, session, acked, faults>>
    BY DEF Open, local
  <2> QED
    BY <1>1, <2>1, <2>2 DEF Rest
<1> QED
  BY <1>2, AcquireJournal DEF Open

LEMMA OpenReadOnlyJournal ==
    ASSUME Journal, NEW h \in Handles, OpenReadOnly(h)
    PROVE  Journal'
<1>1. /\ Types /\ Rest
      /\ CallOK(ref, pc[h], call[h], sent[<<h, "call">>])
  BY Facts
<1>2. UNCHANGED <<store, requests, pc, call, sent, acked>>
  BY DEF OpenReadOnly
<1>3. Rest'
  BY <1>1 DEF OpenReadOnly, Rest
<1>4. Types'
  BY <1>1, <1>2, <1>3 DEF Types
<1>5. Frame(h)
  BY <1>2 DEF Frame
<1>6. sent[<<h, "renew">>] \in LeaseRequests \cup {None}
  BY DEF Journal
<1> QED
  BY <1>1, <1>2, <1>4, <1>5, <1>6, LocalJournal

LEMMA InitializeJournal ==
    ASSUME Journal, NEW h \in Handles, Initialize(h)
    PROVE  Journal'
<1>1. /\ Types /\ Rest /\ calls \in Nat
      /\ CallOK(ref, pc[h], call[h], sent[<<h, "call">>])
  BY Facts
<1>2. UNCHANGED <<store, acked>>
  BY DEF Initialize
<1>3. Rest'
  <2>1. calls' \in 0 .. MaxCalls
    BY <1>1, Counted, PublicationBoundsAssumption DEF Initialize, Rest
  <2>2. mode' \in [Handles -> {"closed", "read", "write"}]
    BY <1>1 DEF Initialize, Rest
  <2>3. UNCHANGED <<commits, clock, permit, fenced, session, acked, faults>>
    BY DEF Initialize
  <2> QED
    BY <1>1, <2>1, <2>2, <2>3 DEF Rest
<1>4. CASE UNCHANGED <<requests, sent, pc, call>>
  <2>1. Types'
    BY <1>1, <1>3, <1>4 DEF Types
  <2>2. Frame(h)
    BY <1>4 DEF Frame
  <2>3. sent[<<h, "renew">>] \in LeaseRequests \cup {None}
    BY DEF Journal
  <2> QED
    BY <1>1, <1>2, <1>4, <2>1, <2>2, <2>3, LocalJournal
<1>5. CASE /\ SendAcquire(h, clock, Fresh(h))
           /\ call' = [call EXCEPT ![h] = NewCall(h, "init", Fresh(h))]
           /\ Goto(h, "acquire")
  <2>1. Fresh(h) \in OpIds \ Ops
    BY <1>1, FreshTyped
  <2> QED
    BY <1>2, <1>3, <1>5, <2>1, AcquireJournal
<1> QED
  BY <1>4, <1>5 DEF Initialize

LEMMA BeginTakeoverJournal ==
    ASSUME Journal, NEW h \in Handles, BeginTakeover(h)
    PROVE  Journal'
<1>1. /\ Types /\ Rest /\ calls \in Nat /\ clock \in Nat
      /\ CallOK(ref, pc[h], call[h], sent[<<h, "call">>])
      /\ lease.token \in Nat
      /\ Exists(lease) => lease \in HeldLeases /\ lease.value \in Leases
  BY Facts
<1>2. /\ UNCHANGED <<store, acked>> /\ Exists(lease) /\ pc[h] = "idle"
  BY DEF BeginTakeover
<1>3. Rest'
  <2>1. calls' \in 0 .. MaxCalls
    BY <1>1, Counted, PublicationBoundsAssumption DEF BeginTakeover, Rest
  <2>2. UNCHANGED <<commits, clock, mode, permit, fenced, session, acked, faults>>
    BY DEF BeginTakeover, local
  <2> QED
    BY <1>1, <2>1, <2>2 DEF Rest
<1>4. Fresh(h) \in Nonces /\ Fresh(h) \in OpIds \ Ops
  BY <1>1, FreshTyped
<1>5. sent[<<h, "call">>] = None
  BY <1>1, <1>2 DEF CallOK
<1>6. CASE /\ call' = [call EXCEPT ![h] =
                [NewCall(h, "takeover", Fresh(h)) EXCEPT
                    !.seen = [lease |-> lease.value, token |-> lease.token]]]
           /\ Goto(h, "barrier")
           /\ UNCHANGED <<requests, sent>>
  <2> DEFINE held == [lease |-> lease.value, token |-> lease.token]
             new == NewCall(h, "takeover", Fresh(h))
             c == [new EXCEPT !.seen = held]
  <2>1. held \in Permits
    BY <1>1, <1>2 DEF Permits, Exists
  <2>2. c \in Calls /\ c.kind = "takeover" /\ c.op = Fresh(h) /\ c.seen = held
    <3>1. new = NewCall(h, "takeover", Fresh(h))
      OBVIOUS
    <3> HIDE DEF held, new
    <3>2. new \in Calls /\ new.kind = "takeover" /\ new.op = Fresh(h)
      BY <1>1, <1>4, <3>1, NewCallTyped, SMT
    <3> QED
      BY <2>1, <3>2 DEF Calls
  <2>3. call' = [call EXCEPT ![h] = c]
    BY <1>6
  <2> HIDE DEF c, held
  <2>4. /\ call' \in [Handles -> Calls \cup {NoCall}]
        /\ call'[h] = c
        /\ \A g \in Handles \ {h} : call'[g] = call[g]
    BY <1>1, <2>2, <2>3, Started
  <2>5. CallOK(ref, "barrier", call'[h], None)
    BY <1>4, <2>1, <2>2, <2>4 DEF CallOK
  <2> QED
    BY <1>2, <1>3, <1>5, <1>6, <2>4, <2>5, MoveJournal DEF Labels
<1>7. CASE /\ Send(h, "call", "lease", lease.token,
                   Lease(lease.value.generation + 1, h, Fresh(h), "pending", clock))
           /\ call' = [call EXCEPT ![h] = NewCall(h, "takeover", Fresh(h))]
           /\ Goto(h, "pending")
  <2> DEFINE v == Lease(lease.value.generation + 1, h, Fresh(h), "pending", clock)
             c == NewCall(h, "takeover", Fresh(h))
  <2>1. lease.value.generation + 1 \in Nat \ {0}
    <3>1. lease.value.generation \in Nat
      BY <1>1, <1>2 DEF Leases
    <3> QED
      BY <3>1, SMT
  <2>2. v \in Leases
    BY <1>1, <1>4, <2>1, LeaseTyped
  <2>3. c \in Calls /\ c.kind = "takeover" /\ c.op = Fresh(h)
    <3>1. /\ "takeover" \in (Kinds \cap OpKinds) \cup {"open", "init", "takeover"}
          /\ Fresh(h) \in OpIds \cup {None} /\ clock \in Nat /\ calls \in Nat
          /\ c = NewCall(h, "takeover", Fresh(h))
      BY <1>1, <1>4
    <3> HIDE DEF c
    <3> QED
      BY <3>1, NewCallTyped, SMT
  <2>4. call' = [call EXCEPT ![h] = c] /\ Send(h, "call", "lease", lease.token, v)
    BY <1>7
  <2> HIDE DEF c, v
  <2>5. /\ call' \in [Handles -> Calls \cup {NoCall}]
        /\ call'[h] = c
        /\ \A g \in Handles \ {h} : call'[g] = call[g]
    BY <1>1, <2>3, <2>4, Started
  <2>6. CallOK(ref, "pending", call'[h], None)
    BY <1>4, <2>3, <2>5 DEF CallOK
  <2> QED
    BY <1>1, <1>2, <1>3, <1>7, <2>2, <2>4, <2>5, <2>6, LeaseSendJournal
<1> QED
  BY <1>6, <1>7 DEF BeginTakeover

LEMMA RenewJournal ==
    ASSUME Journal, NEW h \in Handles, Renew(h)
    PROVE  Journal'
<1>1. /\ Types /\ Rest /\ clock \in Nat
      /\ CallOK(ref, pc[h], call[h], sent[<<h, "call">>])
  BY Facts
<1>2. UNCHANGED <<store, pc, call, acked>> /\ permit[h] # None
  BY DEF Renew
<1>3. CASE Fence(h) /\ UNCHANGED <<requests, sent>>
  <2>1. Rest'
    BY <1>1, <1>3, FencedFrame, PublicationBoundsAssumption, SMT DEF Renew, Rest
  <2>2. Types'
    BY <1>1, <1>2, <1>3, <2>1 DEF Types
  <2>3. Frame(h)
    BY <1>2, <1>3 DEF Frame
  <2>4. sent[<<h, "renew">>] \in LeaseRequests \cup {None}
    BY DEF Journal
  <2> QED
    BY <1>1, <1>2, <1>3, <2>2, <2>3, <2>4, LocalJournal
<1>4. CASE /\ Send(h, "renew", "lease", permit[h].token,
                   [permit[h].lease EXCEPT !.expires = clock + LeaseTicks])
           /\ UNCHANGED <<permit, fenced>>
  <2> DEFINE l == permit[h].lease
             v == [l EXCEPT !.expires = clock + LeaseTicks]
             r == [from |-> <<h, "renew">>, object |-> "lease",
                   expected |-> permit[h].token, value |-> v]
  <2>1. Rest'
    BY <1>1, <1>4, PublicationBoundsAssumption, SMT DEF Renew, Rest
  <2>2. l \in Leases /\ permit[h].token \in Nat
    BY <1>1, <1>2 DEF Rest, Permits
  <2>3. clock + LeaseTicks \in Nat
    BY <1>1, PublicationBoundsAssumption, SMT
  <2>4. v \in Leases
    <3> HIDE DEF l
    <3> QED
      BY <2>2, <2>3, Refreshed
  <2>5. Send(h, "renew", "lease", permit[h].token, v)
    BY <1>4
  <2> HIDE DEF v
  <2>6. /\ r \in LeaseRequests
        /\ sent' \in [Tasks -> LeaseRequests \cup RefRequests \cup {None}]
        /\ sent'[<<h, "renew">>] = r
        /\ \A t \in Tasks : t # <<h, "renew">> => sent'[t] = sent[t]
        /\ requests' = requests \cup {r}
    <3>1. r \in LeaseRequests
      BY <2>2, <2>4 DEF LeaseRequests, Tasks
    <3>2. sent' = [sent EXCEPT ![<<h, "renew">>] = r] /\ requests' = requests \cup {r}
      BY <2>5 DEF Send
    <3> HIDE DEF r
    <3> QED
      BY <1>1, <3>1, <3>2, Sending
  <2> HIDE DEF r
  <2>7. Types'
    BY <1>1, <1>2, <2>1, <2>6 DEF Types
  <2>8. Frame(h) /\ sent'[<<h, "call">>] = sent[<<h, "call">>]
    BY <1>2, <2>6 DEF Frame, Tasks
  <2>9. RequestOK(r)
    BY <2>6 DEF RequestOK
  <2> QED
    BY <1>1, <1>2, <2>6, <2>7, <2>8, <2>9, LocalJournal
<1> QED
  BY <1>3, <1>4 DEF Renew

LEMMA CrashJournal ==
    ASSUME Journal, NEW h \in Handles, Crash(h)
    PROVE  Journal'
<1>1. Types /\ Rest
  BY Facts
<1>2. UNCHANGED <<store, requests, acked>>
  BY DEF Crash
<1>3. /\ pc' \in [Handles -> Labels]
      /\ call' \in [Handles -> Calls \cup {NoCall}]
      /\ pc'[h] = "idle"
      /\ \A g \in Handles \ {h} : pc'[g] = pc[g] /\ call'[g] = call[g]
  BY <1>1, Returned DEF Crash
<1>4. Rest'
  BY <1>1, PublicationBoundsAssumption, SMT DEF Crash, Rest
<1>5. sent' = [t \in Tasks |-> IF t[1] = h THEN None ELSE sent[t]]
  BY DEF Crash
<1>6. sent' \in [Tasks -> LeaseRequests \cup RefRequests \cup {None}]
  BY <1>1, <1>5 DEF Types
<1>7. ASSUME NEW g \in Handles, NEW task \in {"call", "renew"}
      PROVE  sent'[<<g, task>>] = IF g = h THEN None ELSE sent[<<g, task>>]
  BY <1>5 DEF Tasks
<1>8. Types'
  BY <1>3, <1>4, <1>6 DEF Types
<1>9. Frame(h)
  BY <1>3, <1>7 DEF Frame
<1>10. CallOK(ref, pc'[h], call'[h], sent'[<<h, "call">>])
  BY <1>3, <1>7 DEF CallOK
<1>11. sent'[<<h, "renew">>] \in LeaseRequests \cup {None}
  BY <1>7
<1> QED
  BY <1>2, <1>8, <1>9, <1>10, <1>11, LocalJournal

LEMMA QuietJournal ==
    ASSUME Journal, UNCHANGED <<store, requests, commits, local, pc, call, sent, session,
                                acked, calls, faults>>, clock' \in 0 .. MaxClock
    PROVE  Journal'
<1>1. Types /\ Rest
  BY DEF Journal, Types
<1>2. Rest'
  BY <1>1 DEF Rest, local
<1>3. Types'
  BY <1>1, <1>2 DEF Types
<1>4. ref' = ref /\ lease' = lease
  BY DEF ref, lease
<1>5. StoreOK'
  BY <1>4 DEF Journal, StoreOK
<1>6. AckedIsPublished'
  BY <1>4 DEF Journal, AckedIsPublished, Applied, Log, Exists
<1>7. \A r \in requests' : RequestOK(r)'
  BY <1>4 DEF Journal, RequestOK
<1>8. \A h \in Handles : CallOK(ref, pc[h], call[h], sent[<<h, "call">>])'
  <2>1. ASSUME NEW h \in Handles PROVE CallOK(ref', pc'[h], call'[h], sent'[<<h, "call">>])
    BY <1>4 DEF Journal
  <2> QED
    BY <2>1
<1>9. \A h \in Handles : (sent[<<h, "renew">>] \in LeaseRequests \cup {None})'
  BY DEF Journal, LeaseRequests
<1> QED
  BY <1>3, <1>5, <1>6, <1>7, <1>8, <1>9 DEF Journal

-----------------------------------------------------------------------------
(* Steps of the store: the journal of the ref only grows. *)

Grown(f, g) ==
    /\ f.token <= g.token
    /\ f.token = g.token => g = f
    /\ \A i \in 1 .. f.token : g.value.log[i] = f.value.log[i]

LEMMA Execution ==
    ASSUME Journal, NEW r \in requests,
           store' = [store EXCEPT ![r.object] = Executed(r)]
    PROVE  StoreOK' /\ Grown(ref, ref') /\ store'[r.object] = Executed(r)
<1>1. /\ StoreOK
      /\ RequestOK(r)
  BY DEF Journal
<1>2. r \in LeaseRequests \/ r \in RefRequests
  BY <1>1 DEF RequestOK
<1>3. /\ lease = Absent \/ lease \in HeldLeases
      /\ ref = Absent \/ (ref \in HeldRefs /\ Len(ref.value.log) = ref.token)
      /\ DOMAIN store = {"lease", "ref"}
      /\ lease.token \in Nat /\ ref.token \in Nat
  BY <1>1, SMT DEF StoreOK, Absent, HeldLeases, HeldRefs
<1>4. Grown(ref, ref)
  BY <1>3, SMT DEF Grown
<1>5. CASE r \in LeaseRequests
  <2>1. r.object = "lease" /\ r.value \in Leases /\ r.expected \in Nat
    BY <1>5 DEF LeaseRequests
  <2>2. lease' = Executed(r) /\ ref' = ref /\ store'["lease"] = Executed(r)
        /\ DOMAIN store' = {"lease", "ref"} /\ store' = [x \in {"lease", "ref"} |-> store'[x]]
    BY <1>1, <1>3, <2>1 DEF lease, ref, StoreOK
  <2>3. Executed(r) = lease \/ Executed(r) = [token |-> r.expected + 1, value |-> r.value]
    BY <2>1 DEF Executed, lease
  <2>4. [token |-> r.expected + 1, value |-> r.value] \in HeldLeases
    BY <2>1, SMT DEF HeldLeases
  <2>5. lease' = Absent \/ lease' \in HeldLeases
    BY <1>3, <2>2, <2>3, <2>4
  <2>6. StoreOK'
    BY <1>3, <2>2, <2>5 DEF StoreOK
  <2> QED
    BY <1>4, <2>1, <2>2, <2>6
<1>6. CASE r \in RefRequests
  <2> DEFINE g == [token |-> r.expected + 1, value |-> r.value]
  <2>1. r.object = "ref" /\ r.value \in RefValues /\ r.expected \in Nat
    BY <1>6 DEF RefRequests
  <2>2. /\ Len(r.value.log) = r.expected + 1
        /\ r.expected = ref.token =>
              \A i \in 1 .. r.expected : r.value.log[i] = ref.value.log[i]
    BY <1>1, <1>6 DEF RequestOK, LeaseRequests, RefRequests
  <2>3. ref' = Executed(r) /\ lease' = lease /\ store'["ref"] = Executed(r)
        /\ DOMAIN store' = {"lease", "ref"} /\ store' = [x \in {"lease", "ref"} |-> store'[x]]
    BY <1>1, <1>3, <2>1 DEF lease, ref, StoreOK
  <2>4. Executed(r) = ref \/ (r.expected = ref.token /\ Executed(r) = g)
    BY <2>1 DEF Executed, ref
  <2>5. g \in HeldRefs /\ g.token = r.expected + 1 /\ g.value = r.value
    BY <2>1, SMT DEF HeldRefs
  <2> HIDE DEF g
  <2>6. ref' = Absent \/ (ref' \in HeldRefs /\ Len(ref'.value.log) = ref'.token)
    BY <1>3, <2>2, <2>3, <2>4, <2>5
  <2>7. StoreOK'
    BY <1>3, <2>3, <2>6 DEF StoreOK
  <2>8. ASSUME r.expected = ref.token, Executed(r) = g
        PROVE  Grown(ref, ref')
    BY <1>3, <2>2, <2>3, <2>5, <2>8, SMT DEF Grown
  <2>9. Grown(ref, ref')
    BY <1>4, <2>3, <2>4, <2>8
  <2> QED
    BY <2>1, <2>3, <2>7, <2>9
<1> QED
  BY <1>2, <1>5, <1>6

LEMMA Stable ==
    ASSUME Journal, StoreOK', Grown(ref, ref')
    PROVE  /\ \A r \in requests : RequestOK(r)'
           /\ \A p, c, s : CallOK(ref, p, c, s) => CallOK(ref', p, c, s)
           /\ \A op : Applied(op, ref) => Applied(op, ref')
<1>1. /\ ref = Absent \/ (ref \in HeldRefs /\ Len(ref.value.log) = ref.token)
      /\ ref' = Absent \/ (ref' \in HeldRefs /\ Len(ref'.value.log) = ref'.token)
  BY DEF Journal, StoreOK
<1>2. ref.token \in Nat /\ ref'.token \in Nat
  BY <1>1, SMT DEF Absent, HeldRefs
<1>3. ASSUME NEW r \in requests PROVE RequestOK(r)'
  <2>1. RequestOK(r)
    BY DEF Journal
  <2>2. CASE r \in LeaseRequests
    BY <2>2 DEF RequestOK, LeaseRequests
  <2>3. CASE /\ r \in RefRequests
             /\ r.expected <= ref.token
             /\ Len(r.value.log) = r.expected + 1
             /\ r.expected = ref.token =>
                   \A i \in 1 .. r.expected : r.value.log[i] = ref.value.log[i]
    <3>1. r.expected \in Nat
      BY <2>3 DEF RefRequests
    <3>2. r.expected <= ref'.token
      BY <1>2, <2>3, <3>1, SMT DEF Grown
    <3>3. r.expected = ref'.token =>
             \A i \in 1 .. r.expected : r.value.log[i] = ref'.value.log[i]
      BY <1>2, <2>3, <3>1, SMT DEF Grown
    <3> QED
      BY <2>3, <3>2, <3>3 DEF RequestOK, RefRequests
  <2> QED
    BY <2>1, <2>2, <2>3 DEF RequestOK
<1>4. ASSUME NEW seen, SeenRef(ref, seen) PROVE SeenRef(ref', seen)
  <2>1. seen.token \in Nat
    BY <1>4 DEF SeenRef, HeldRefs
  <2> QED
    BY <1>2, <1>4, <2>1, SMT DEF SeenRef, Grown
<1>5. ASSUME NEW p, NEW c, NEW s, CallOK(ref, p, c, s) PROVE CallOK(ref', p, c, s)
  BY <1>4, <1>5 DEF CallOK
<1>6. ASSUME NEW op, Applied(op, ref) PROVE Applied(op, ref')
  <2>1. PICK i \in 1 .. Len(Log(ref)) : Log(ref)[i].op = op
    BY <1>6 DEF Applied
  <2>2. Exists(ref)
    BY <2>1, SMT DEF Log
  <2>3. ref \in HeldRefs /\ Len(ref.value.log) = ref.token /\ Log(ref) = ref.value.log
    <3>1. ref # Absent
      BY <2>2, SMT DEF Exists, Absent
    <3> QED
      BY <1>1, <2>2, <3>1 DEF Log
  <2>4. ref'.token # 0
    <3>1. ref.token <= ref'.token /\ ref.token # 0
      BY <2>2 DEF Grown, Exists
    <3> QED
      BY <1>2, <3>1, SMT
  <2>5. /\ ref' \in HeldRefs /\ Len(ref'.value.log) = ref'.token
        /\ Log(ref') = ref'.value.log
    <3>1. ref' # Absent
      BY <2>4, SMT DEF Absent
    <3> QED
      BY <1>1, <2>4, <3>1 DEF Exists, Log
  <2>6. i \in 1 .. Len(Log(ref')) /\ Log(ref')[i] = Log(ref)[i]
    BY <1>2, <2>1, <2>3, <2>5, SMT DEF Grown
  <2> QED
    BY <2>1, <2>6 DEF Applied
<1> QED
  BY <1>3, <1>5, <1>6

LEMMA StoreJournal ==
    ASSUME Journal, NEW h \in Handles, Types', StoreOK', Grown(ref, ref'), Frame(h),
           requests' \subseteq requests,
           CallOK(ref', pc'[h], call'[h], sent'[<<h, "call">>]),
           sent'[<<h, "renew">>] \in LeaseRequests \cup {None},
           \A op \in acked' : op \in acked \/ Applied(op, ref')
    PROVE  Journal'
<1>1. /\ \A r \in requests : RequestOK(r)'
      /\ \A p, c, s : CallOK(ref, p, c, s) => CallOK(ref', p, c, s)
      /\ \A op : Applied(op, ref) => Applied(op, ref')
  BY Stable
<1>2. ASSUME NEW g \in Handles
      PROVE  /\ CallOK(ref', pc'[g], call'[g], sent'[<<g, "call">>])
             /\ sent'[<<g, "renew">>] \in LeaseRequests \cup {None}
  <2>1. CASE g # h
    <3>1. /\ CallOK(ref, pc[g], call[g], sent[<<g, "call">>])
          /\ sent[<<g, "renew">>] \in LeaseRequests \cup {None}
      BY DEF Journal
    <3> QED
      BY <1>1, <2>1, <3>1 DEF Frame
  <2> QED
    BY <2>1
<1>3. \A g \in Handles : CallOK(ref, pc[g], call[g], sent[<<g, "call">>])'
  BY <1>2
<1>4. \A g \in Handles : (sent[<<g, "renew">>] \in LeaseRequests \cup {None})'
  BY <1>2 DEF LeaseRequests
<1>5. AckedIsPublished'
  <2>1. \A op \in acked' : Applied(op, ref')
    BY <1>1 DEF Journal, AckedIsPublished
  <2> QED
    BY <2>1 DEF AckedIsPublished
<1> QED
  BY <1>1, <1>3, <1>4, <1>5 DEF Journal

LEMMA UnnoticedJournal ==
    ASSUME Journal, NEW r \in requests, Unnoticed(r)
    PROVE  Journal'
<1>1. /\ requests' \subseteq requests /\ faults' \in 0 .. MaxFaults
      /\ UNCHANGED <<commits, clock, local, pc, call, sent, session, acked, calls>>
      /\ store' = [store EXCEPT ![r.object] = Executed(r)]
      /\ Types /\ Rest
  BY PublicationBoundsAssumption, SMT DEF Unnoticed, Journal, Types, Rest
<1>2. StoreOK' /\ Grown(ref, ref')
  BY <1>1, Execution
<1>3. Rest'
  BY <1>1 DEF Rest, local
<1>4. Types'
  BY <1>1, <1>3 DEF Types
<1>5. /\ \A q \in requests : RequestOK(q)'
      /\ \A p, c, s : CallOK(ref, p, c, s) => CallOK(ref', p, c, s)
      /\ \A op : Applied(op, ref) => Applied(op, ref')
  BY <1>2, Stable
<1>6. \A h \in Handles : CallOK(ref, pc[h], call[h], sent[<<h, "call">>])'
  <2>1. ASSUME NEW h \in Handles PROVE CallOK(ref', pc'[h], call'[h], sent'[<<h, "call">>])
    BY <1>1, <1>5 DEF Journal
  <2> QED
    BY <2>1
<1>7. \A h \in Handles : (sent[<<h, "renew">>] \in LeaseRequests \cup {None})'
  BY <1>1 DEF Journal, LeaseRequests
<1>8. AckedIsPublished'
  BY <1>1, <1>5 DEF Journal, AckedIsPublished
<1> QED
  BY <1>1, <1>2, <1>4, <1>5, <1>6, <1>7, <1>8 DEF Journal

\* What a task finds that looks its request up in the store.
LEMMA Found ==
    ASSUME Journal, StoreOK', NEW t \in Tasks, sent[t] # None,
           store'[sent[t].object].value = sent[t].value
    PROVE  /\ sent[t] \in LeaseRequests =>
                 /\ store'[sent[t].object] = lease' /\ lease' \in HeldLeases
                 /\ [lease |-> lease'.value, token |-> lease'.token] \in Permits
           /\ sent[t] \in RefRequests =>
                 /\ store'[sent[t].object] = ref' /\ ref' \in HeldRefs
                 /\ ref'.value = sent[t].value
                 /\ Applied(sent[t].value.log[Len(sent[t].value.log)].op, ref')
<1>1. CASE sent[t] \in LeaseRequests
  <2>1. sent[t].object = "lease" /\ sent[t].value \in Leases
    BY <1>1 DEF LeaseRequests
  <2>2. store'[sent[t].object] = lease' /\ lease'.value \in Leases
    BY <2>1 DEF lease
  <2>3. lease' # Absent
    BY <2>2, NoneAssumption, SMT DEF Absent
  <2>4. lease' \in HeldLeases
    BY <2>3 DEF StoreOK
  <2>5. sent[t] \notin RefRequests
    BY <2>1 DEF RefRequests
  <2> QED
    BY <2>2, <2>4, <2>5 DEF HeldLeases, Permits
<1>2. CASE sent[t] \in RefRequests
  <2>1. sent[t].object = "ref" /\ sent[t].value \in RefValues
    BY <1>2 DEF RefRequests
  <2>2. store'[sent[t].object] = ref' /\ ref'.value = sent[t].value
    BY <2>1 DEF ref
  <2>3. ref' # Absent
    BY <2>1, <2>2, NoneAssumption, SMT DEF Absent
  <2>4. ref' \in HeldRefs
    BY <2>3 DEF StoreOK
  <2>5. Exists(ref') /\ Log(ref') = ref'.value.log
    BY <2>4 DEF Exists, Log, HeldRefs
  <2>6. Len(ref'.value.log) \in Nat \ {0}
    BY <2>1, <2>2, LastTyped
  <2>7. Applied(sent[t].value.log[Len(sent[t].value.log)].op, ref')
    BY <2>2, <2>5, <2>6, SMT DEF Applied
  <2>8. sent[t] \notin LeaseRequests
    BY <2>1 DEF LeaseRequests
  <2> QED
    BY <2>2, <2>4, <2>7, <2>8
<1>3. sent[t] \in LeaseRequests \cup RefRequests
  BY DEF Journal, Types
<1> QED
  BY <1>1, <1>2, <1>3

\* The end of a call's conditional write, at the object it looked up.
LEMMA SucceededJournal ==
    ASSUME Journal, NEW h \in Handles, sent[<<h, "call">>] # None,
           StoreOK', Grown(ref, ref'), requests' \subseteq requests,
           NEW object, object = store'[sent[<<h, "call">>].object],
           object.value = sent[<<h, "call">>].value,
           Succeeded(h, object),
           sent' = [sent EXCEPT ![<<h, "call">>] = None],
           UNCHANGED <<commits, clock, session, calls>>, faults' \in 0 .. MaxFaults
    PROVE  Journal'
<1> DEFINE s == sent[<<h, "call">>]
           c == call[h]
           held == [lease |-> object.value, token |-> object.token]
<1> USE DEF Succeeded
<1>1. /\ Types /\ Rest
      /\ CallOK(ref, pc[h], c, s)
  BY Facts
<1>2. <<h, "call">> \in Tasks /\ <<h, "renew">> \in Tasks
  BY DEF Tasks
<1>3. /\ sent' \in [Tasks -> LeaseRequests \cup RefRequests \cup {None}]
      /\ sent'[<<h, "call">>] = None
      /\ \A t \in Tasks : t # <<h, "call">> => sent'[t] = sent[t]
  BY <1>1, Answering
<1>4. /\ sent'[<<h, "renew">>] \in LeaseRequests \cup {None}
      /\ \A g \in Handles \ {h} : \A task \in {"call", "renew"} :
            sent'[<<g, task>>] = sent[<<g, task>>]
  BY <1>2, <1>3 DEF Tasks, Journal
<1>5. /\ s \in LeaseRequests =>
            /\ object = lease' /\ lease' \in HeldLeases
            /\ [lease |-> lease'.value, token |-> lease'.token] \in Permits
      /\ s \in RefRequests =>
            /\ object = ref' /\ ref' \in HeldRefs
            /\ ref'.value = s.value
            /\ Applied(s.value.log[Len(s.value.log)].op, ref')
  BY <1>2, Found
<1>6. c \in Calls
  BY <1>1 DEF CallOK
<1>7. \/ pc[h] \in {"acquire", "pending", "active"} /\ s \in LeaseRequests
      \/ pc[h] \in {"published", "barred"} /\ s \in RefRequests
  BY <1>1 DEF CallOK
<1>8. s \in LeaseRequests => held \in Permits
  BY <1>5
<1>9. \A p, d, q : CallOK(ref, p, d, q) => CallOK(ref', p, d, q)
  BY Stable
<1>10. CASE Return(h) /\ Rest' /\ \A op \in acked' : op \in acked \/ Applied(op, ref')
  <2>1. /\ pc' \in [Handles -> Labels]
        /\ call' \in [Handles -> Calls \cup {NoCall}]
        /\ pc'[h] = "idle"
        /\ \A g \in Handles \ {h} : pc'[g] = pc[g] /\ call'[g] = call[g]
    BY <1>1, <1>10, Returned
  <2>2. Types'
    BY <1>3, <1>10, <2>1 DEF Types
  <2>3. Frame(h)
    BY <1>4, <2>1 DEF Frame
  <2>4. CallOK(ref', pc'[h], call'[h], sent'[<<h, "call">>])
    BY <1>3, <2>1 DEF CallOK
  <2> QED
    BY <1>4, <1>10, <2>2, <2>3, <2>4, StoreJournal
<1>11. ASSUME NEW label \in Labels, Goto(h, label), Rest', acked' = acked,
              call' \in [Handles -> Calls \cup {NoCall}],
              \A g \in Handles \ {h} : call'[g] = call[g],
              CallOK(ref', label, call'[h], None)
       PROVE  Journal'
  <2>1. /\ pc' \in [Handles -> Labels]
        /\ pc'[h] = label
        /\ \A g \in Handles \ {h} : pc'[g] = pc[g]
    BY <1>1, <1>11, Gone
  <2>2. Types'
    BY <1>3, <1>11, <2>1 DEF Types
  <2>3. Frame(h)
    BY <1>4, <1>11, <2>1 DEF Frame
  <2> QED
    BY <1>3, <1>4, <1>11, <2>1, <2>2, <2>3, StoreJournal
<1> HIDE DEF held
<1>12. CASE pc[h] = "acquire"
  <2>1. s \in LeaseRequests /\ held \in Permits
    BY <1>7, <1>8, <1>12
  <2>2. Install(h, held) /\ acked' = acked
        /\ mode' = [mode EXCEPT ![h] = IF c.kind = "open" THEN "write" ELSE @]
    BY <1>12 DEF held
  <2>3. Rest'
    BY <1>1, <2>1, <2>2, InstalledFrame DEF Rest
  <2>4. CASE c.kind = "open"
    BY <1>10, <1>12, <2>2, <2>3, <2>4
  <2>5. CASE c.kind # "open"
    <3> DEFINE label == IF c.kind = "init" THEN "recheck" ELSE "validate"
    <3>1. Keep(h, "stamp", Stamp(held.lease)) /\ Goto(h, label)
      BY <1>12, <2>5 DEF held
    <3>2. Stamp(held.lease) \in Stamps
      BY <2>1, StampTyped DEF Permits
    <3>3. /\ call' \in [Handles -> Calls \cup {NoCall}]
          /\ call'[h] \in Calls
          /\ call'[h].kind = c.kind /\ call'[h].op = c.op /\ call'[h].seen = c.seen
          /\ \A g \in Handles \ {h} : call'[g] = call[g]
      BY <1>1, <1>6, <3>1, <3>2, StampKept
    <3>5. CallOK(ref', pc[h], c, s)
      BY <1>1, <1>9
    <3>6. c.kind # "init" => c.kind \in Kinds \cap OpKinds
      BY <1>6, <1>12, <2>5, <3>5 DEF CallOK, Calls
    <3>7. CallOK(ref', label, call'[h], None) /\ label \in Labels
      BY <1>12, <2>5, <3>3, <3>5, <3>6 DEF CallOK, Labels
    <3> HIDE DEF label
    <3> QED
      BY <1>11, <2>2, <2>3, <3>1, <3>3, <3>7
  <2> QED
    BY <2>4, <2>5
<1>13. CASE pc[h] = "published"
  <2>1. s \in RefRequests /\ s.value.log[Len(s.value.log)].op = c.op
    BY <1>1, <1>7, <1>13 DEF CallOK
  <2>2. Applied(c.op, ref')
    BY <1>5, <2>1
  <2>3. /\ mode' = [mode EXCEPT ![h] = IF c.kind = "init" THEN "write" ELSE @]
        /\ acked' = acked \cup ({c.op} \cap Ops)
        /\ Return(h) /\ UNCHANGED <<permit, fenced>>
    BY <1>13
  <2>4. Rest'
    BY <1>1, <2>3 DEF Rest
  <2> QED
    BY <1>10, <2>2, <2>3, <2>4
<1>14. CASE pc[h] = "pending"
  <2>1. held \in Permits
    BY <1>7, <1>8, <1>14
  <2>2. Keep(h, "seen", held) /\ Goto(h, "barrier") /\ UNCHANGED <<local, acked>>
    BY <1>14 DEF held
  <2>3. Rest'
    BY <1>1, <2>2 DEF Rest, local
  <2>4. /\ call' \in [Handles -> Calls \cup {NoCall}]
        /\ call'[h] \in Calls
        /\ call'[h].kind = c.kind /\ call'[h].op = c.op /\ call'[h].seen = held
        /\ \A g \in Handles \ {h} : call'[g] = call[g]
    BY <1>1, <1>6, <2>1, <2>2, SeenKept
  <2>6. CallOK(ref', "barrier", call'[h], None)
    BY <1>1, <1>14, <2>1, <2>4 DEF CallOK
  <2> QED
    BY <1>11, <2>2, <2>3, <2>4, <2>6 DEF Labels
<1>15. CASE pc[h] = "barred"
  <2>1. Goto(h, "activate") /\ UNCHANGED <<local, call, acked>>
    BY <1>15
  <2>2. Rest'
    BY <1>1, <2>1 DEF Rest, local
  <2>3. CallOK(ref', "activate", call'[h], None)
    BY <1>1, <1>15, <2>1 DEF CallOK
  <2>4. /\ call' \in [Handles -> Calls \cup {NoCall}]
        /\ \A g \in Handles \ {h} : call'[g] = call[g]
    BY <1>1, <2>1 DEF Types
  <2> QED
    BY <1>11, <2>1, <2>2, <2>3, <2>4 DEF Labels
<1>16. CASE pc[h] = "active"
  <2>1. held \in Permits
    BY <1>7, <1>8, <1>16
  <2>2. Install(h, held) /\ mode' = [mode EXCEPT ![h] = "write"] /\ Return(h) /\ UNCHANGED acked
    BY <1>16 DEF held
  <2>3. Rest'
    BY <1>1, <2>1, <2>2, InstalledFrame DEF Rest
  <2> QED
    BY <1>10, <2>2, <2>3
<1> QED
  BY <1>7, <1>12, <1>13, <1>14, <1>15, <1>16

LEMMA FailedJournal ==
    ASSUME Journal, NEW h \in Handles, sent[<<h, "call">>] # None,
           StoreOK', Grown(ref, ref'), requests' \subseteq requests,
           NEW unknown \in BOOLEAN, Failed(h, unknown),
           sent' = [sent EXCEPT ![<<h, "call">>] = None],
           UNCHANGED <<commits, clock, session, calls>>, faults' \in 0 .. MaxFaults
    PROVE  Journal'
<1> DEFINE s == sent[<<h, "call">>]
           c == call[h]
<1> USE DEF Failed
<1>1. /\ Types /\ Rest
      /\ CallOK(ref, pc[h], c, s)
  BY Facts
<1>2. <<h, "call">> \in Tasks /\ <<h, "renew">> \in Tasks
  BY DEF Tasks
<1>3. /\ sent' \in [Tasks -> LeaseRequests \cup RefRequests \cup {None}]
      /\ sent'[<<h, "call">>] = None
      /\ \A t \in Tasks : t # <<h, "call">> => sent'[t] = sent[t]
  BY <1>1, Answering
<1>4. /\ sent'[<<h, "renew">>] \in LeaseRequests \cup {None}
      /\ \A g \in Handles \ {h} : \A task \in {"call", "renew"} :
            sent'[<<g, task>>] = sent[<<g, task>>]
  BY <1>2, <1>3 DEF Tasks, Journal
<1>5. Rest'
  <2>1. CASE Fence(h)
    BY <1>1, <2>1, FencedFrame DEF Rest
  <2>2. CASE UNCHANGED <<permit, fenced>>
    BY <1>1, <2>2 DEF Rest
  <2> QED
    BY <2>1, <2>2
<1>6. CASE Return(h)
  <2>1. /\ pc' \in [Handles -> Labels]
        /\ call' \in [Handles -> Calls \cup {NoCall}]
        /\ pc'[h] = "idle"
        /\ \A g \in Handles \ {h} : pc'[g] = pc[g] /\ call'[g] = call[g]
    BY <1>1, <1>6, Returned
  <2>2. Types'
    BY <1>3, <1>5, <2>1 DEF Types
  <2>3. Frame(h)
    BY <1>4, <2>1 DEF Frame
  <2>4. CallOK(ref', pc'[h], call'[h], sent'[<<h, "call">>])
    BY <1>3, <2>1 DEF CallOK
  <2> QED
    BY <1>4, <2>2, <2>3, <2>4, StoreJournal
<1>7. CASE pc[h] = "published" /\ c.kind = "session" /\ Goto(h, "settle") /\ UNCHANGED call
  <2>1. /\ pc' \in [Handles -> Labels]
        /\ pc'[h] = "settle"
        /\ \A g \in Handles \ {h} : pc'[g] = pc[g]
    BY <1>1, <1>7, Gone DEF Labels
  <2>2. Types'
    BY <1>1, <1>3, <1>5, <1>7, <2>1 DEF Types
  <2>3. Frame(h)
    BY <1>4, <1>7, <2>1 DEF Frame
  <2>4. c \in Calls /\ c.kind \in Kinds \cap OpKinds
    BY <1>1, <1>7 DEF CallOK, Calls
  <2>5. CallOK(ref', pc'[h], call'[h], sent'[<<h, "call">>])
    BY <1>1, <1>3, <1>7, <2>1, <2>4 DEF CallOK
  <2> QED
    BY <1>4, <1>7, <2>2, <2>3, <2>5, StoreJournal
<1> QED
  BY <1>6, <1>7

LEMMA RenewalJournal ==
    ASSUME Journal, NEW h \in Handles, sent[<<h, "renew">>] # None,
           StoreOK', Grown(ref, ref'), requests' \subseteq requests,
           NEW object, object = store'[sent[<<h, "renew">>].object],
           ConcludeRenewal(h, object),
           sent' = [sent EXCEPT ![<<h, "renew">>] = None],
           UNCHANGED <<commits, clock, session, calls>>, faults' \in 0 .. MaxFaults
    PROVE  Journal'
<1> DEFINE s == sent[<<h, "renew">>]
           held == [lease |-> object.value, token |-> object.token]
<1> USE DEF ConcludeRenewal
<1>1. /\ Types /\ Rest
      /\ CallOK(ref, pc[h], call[h], sent[<<h, "call">>])
  BY Facts
<1>2. <<h, "call">> \in Tasks /\ <<h, "renew">> \in Tasks
  BY DEF Tasks
<1>3. /\ sent' \in [Tasks -> LeaseRequests \cup RefRequests \cup {None}]
      /\ sent'[<<h, "renew">>] = None
      /\ \A t \in Tasks : t # <<h, "renew">> => sent'[t] = sent[t]
  BY <1>1, Answering
<1>4. /\ sent'[<<h, "call">>] = sent[<<h, "call">>]
      /\ \A g \in Handles \ {h} : \A task \in {"call", "renew"} :
            sent'[<<g, task>>] = sent[<<g, task>>]
  BY <1>2, <1>3 DEF Tasks
<1>5. Rest'
  <2>1. CASE object.value = s.value /\ Install(h, held)
    <3>1. s \in LeaseRequests
      BY DEF Journal
    <3>2. object = lease' /\ [lease |-> lease'.value, token |-> lease'.token] \in Permits
      BY <1>2, <2>1, <3>1, Found
    <3>3. held \in Permits
      BY <3>2
    <3> HIDE DEF held
    <3> QED
      BY <1>1, <2>1, <3>3, InstalledFrame DEF Rest
  <2>2. CASE Fence(h)
    BY <1>1, <2>2, FencedFrame DEF Rest
  <2> QED
    BY <2>1, <2>2
<1>6. Types'
  BY <1>1, <1>3, <1>5 DEF Types
<1>7. Frame(h)
  BY <1>4 DEF Frame
<1>8. CallOK(ref', pc'[h], call'[h], sent'[<<h, "call">>])
  BY <1>1, <1>4, Stable
<1> QED
  BY <1>3, <1>6, <1>7, <1>8, StoreJournal

LEMMA ConcludeJournal ==
    ASSUME Journal, NEW h \in Handles, NEW task \in {"call", "renew"},
           sent[<<h, task>>] # None,
           StoreOK', Grown(ref, ref'), requests' \subseteq requests,
           NEW object, object = store'[sent[<<h, task>>].object], NEW unknown \in BOOLEAN,
           IF task = "call" THEN Conclude(h, object, unknown) ELSE ConcludeRenewal(h, object),
           sent' = [sent EXCEPT ![<<h, task>>] = None],
           UNCHANGED <<commits, clock, session, calls>>, faults' \in 0 .. MaxFaults
    PROVE  Journal'
<1>1. CASE task = "renew"
  BY <1>1, RenewalJournal
<1>2. CASE task = "call"
  <2>1. CASE object.value = sent[<<h, "call">>].value
    BY <1>2, <2>1, SucceededJournal DEF Conclude
  <2>2. CASE object.value # sent[<<h, "call">>].value
    BY <1>2, <2>2, FailedJournal DEF Conclude
  <2> QED
    BY <2>1, <2>2
<1> QED
  BY <1>1, <1>2

LEMMA AnsweredJournal ==
    ASSUME Journal, NEW h \in Handles, NEW task \in {"call", "renew"}, Answered(h, task)
    PROVE  Journal'
<1> DEFINE r == sent[<<h, task>>]
<1>1. /\ r # None /\ r \in requests /\ requests' \subseteq requests
      /\ store' = [store EXCEPT ![r.object] = Executed(r)]
      /\ sent' = [sent EXCEPT ![<<h, task>>] = None]
      /\ UNCHANGED <<commits, clock, session, calls, faults>>
      /\ IF task = "call" THEN Conclude(h, Executed(r), FALSE)
                          ELSE ConcludeRenewal(h, Executed(r))
  BY DEF Answered
<1>2. StoreOK' /\ Grown(ref, ref') /\ Executed(r) = store'[r.object]
  BY <1>1, Execution
<1>3. faults' \in 0 .. MaxFaults
  BY <1>1 DEF Journal, Types, Rest
<1> QED
  BY <1>1, <1>2, <1>3, ConcludeJournal

LEMMA LostJournal ==
    ASSUME Journal, NEW h \in Handles, NEW task \in {"call", "renew"}, Lost(h, task)
    PROVE  Journal'
<1> DEFINE r == sent[<<h, task>>]
<1>1. /\ r # None /\ requests' = requests /\ store' = store
      /\ sent' = [sent EXCEPT ![<<h, task>>] = None]
      /\ UNCHANGED <<commits, clock, session, calls>>
      /\ IF task = "call" THEN Conclude(h, store[r.object], TRUE)
                          ELSE ConcludeRenewal(h, store[r.object])
  BY DEF Lost
<1>2. /\ StoreOK' /\ Grown(ref, ref') /\ store[r.object] = store'[r.object]
  <2>1. ref' = ref /\ lease' = lease /\ StoreOK
    BY <1>1 DEF ref, lease, Journal
  <2>2. StoreOK'
    BY <1>1, <2>1 DEF StoreOK
  <2>3. ref.token \in Nat
    BY Facts
  <2>4. Grown(ref, ref')
    BY <2>1, <2>3, SMT DEF Grown
  <2> QED
    BY <1>1, <2>2, <2>4
<1>3. faults' \in 0 .. MaxFaults
  <2>1. faults \in 0 .. MaxFaults
    BY DEF Journal, Types, Rest
  <2>2. faults < MaxFaults /\ faults' = faults + 1
    BY DEF Lost
  <2> QED
    BY <2>1, <2>2, Counted, PublicationBoundsAssumption
<1> QED
  BY <1>1, <1>2, <1>3, ConcludeJournal

-----------------------------------------------------------------------------
(* The first invariant holds of every behaviour. *)

LEMMA InitJournal ==
    ASSUME Init
    PROVE  Journal
<1>1. lease = Absent /\ ref = Absent
  BY DEF Init, lease, ref, Absent
<1>2. StoreOK
  BY <1>1 DEF StoreOK, Init
<1>3. Rest
  <2>1. Imported \subseteq Seq(OpIds)
    <3>1. ASSUME NEW e \in Elsewhere PROVE <<e>> \in Seq(OpIds)
      <4>1. e \in OpIds
        BY DEF OpIds
      <4> QED
        BY <4>1, SMT
    <3> QED
      BY <3>1 DEF Imported
  <2> QED
    BY <2>1, PublicationBoundsAssumption, SMT DEF Init, Rest
<1>4. Types
  BY <1>3 DEF Types, Init, Labels
<1>5. \A h \in Handles : pc[h] = "idle" /\ sent[<<h, "call">>] = None
                         /\ sent[<<h, "renew">>] = None
  BY DEF Init, Tasks
<1>6. \A h \in Handles : CallOK(ref, pc[h], call[h], sent[<<h, "call">>])
  BY <1>5 DEF CallOK
<1>7. AckedIsPublished
  BY DEF Init, AckedIsPublished
<1> QED
  BY <1>2, <1>4, <1>5, <1>6, <1>7 DEF Journal, Init

LEMMA StepJournal ==
    ASSUME Journal, NEW h \in Handles, HandleStep(h)
    PROVE  Journal'
<1>1. ASSUME NEW task \in {"call", "renew"}, Answered(h, task)
      PROVE  Journal'
  BY <1>1, AnsweredJournal
<1> QED
  BY <1>1, PermitJournal, ValidateJournal, ReconcileJournal, LoadJournal, PublishJournal,
     RecheckJournal, CreateJournal, BarrierJournal, ActivateJournal, SettleJournal
     DEF HandleStep

LEMMA StartJournal ==
    ASSUME Journal, NEW h \in Handles, HandleStart(h)
    PROVE  Journal'
<1>1. ASSUME NEW kind \in Kinds, NEW op \in Ops \cup {Fresh(h)}, Call(h, kind, op)
      PROVE  Journal'
  BY <1>1, CallJournal
<1> QED
  BY <1>1, OpenJournal, OpenReadOnlyJournal, InitializeJournal, RenewJournal,
     BeginTakeoverJournal DEF HandleStart

LEMMA NextJournal ==
    ASSUME Journal, [Next]_vars
    PROVE  Journal'
<1>1. clock \in 0 .. MaxClock /\ MaxClock \in Nat
  BY PublicationBoundsAssumption DEF Journal, Types, Rest
<1>2. CASE Tick
  <2>1. clock' \in 0 .. MaxClock
    BY <1>1, <1>2, SMT DEF Tick
  <2> QED
    BY <1>2, <2>1, QuietJournal DEF Tick
<1>3. CASE UNCHANGED vars
  <2>1. clock' \in 0 .. MaxClock
    BY <1>1, <1>3 DEF vars
  <2> QED
    BY <1>3, <2>1, QuietJournal DEF vars, local
<1>4. ASSUME NEW h \in Handles, NEW task \in {"call", "renew"}, Lost(h, task)
      PROVE  Journal'
  BY <1>4, LostJournal
<1>5. ASSUME NEW r \in requests, Unnoticed(r)
      PROVE  Journal'
  BY <1>5, UnnoticedJournal
<1> QED
  BY <1>2, <1>3, <1>4, <1>5, StepJournal, StartJournal, CrashJournal DEF Next

LEMMA JournalTypes ==
    ASSUME Journal
    PROVE  TypeOK
<1>1. Types /\ Rest /\ StoreOK
  BY DEF Journal, Types
<1>2. \A v \in Leases \cup RefValues : v # None
  BY NoneAssumption
<1>3. lease.token \in Nat /\ (lease.token = 0 <=> lease.value = None)
  BY <1>1, <1>2, SMT DEF StoreOK, Absent, HeldLeases
<1>4. ref.token \in Nat /\ (ref.token = 0 <=> ref.value = None)
  BY <1>1, <1>2, SMT DEF StoreOK, Absent, HeldRefs
<1>5. Exists(ref) => Len(ref.value.log) = ref.token
  BY <1>1, SMT DEF StoreOK, Exists, Absent
<1> QED
  BY <1>1, <1>3, <1>4, <1>5 DEF TypeOK, Rest, lease, ref

LEMMA JournalInvariant == Spec => []Journal
<1>1. Init => Journal
  BY InitJournal
<1>2. Journal /\ [Next]_vars => Journal'
  BY NextJournal
<1> QED
  BY <1>1, <1>2, PTL DEF Spec

\* The lease, the ref, every handle's call, permit and mode, and every request on its way are
\* well typed at every step of publish, session and takeover.
THEOREM BranchTypes == Spec => []TypeOK
<1>1. Journal => TypeOK
  BY JournalTypes
<1> QED
  BY <1>1, JournalInvariant, PTL

\* An operation whose caller was given a receipt (put_object_inner,
\* publish_commit_session) is in the journal of the ref and stays there, whatever is lost,
\* repeated or reordered and whoever takes the branch over.
THEOREM ReceiptsArePublished == Spec => []AckedIsPublished
<1>1. Journal => AckedIsPublished
  BY DEF Journal
<1> QED
  BY <1>1, JournalInvariant, PTL

-----------------------------------------------------------------------------
(* The journal is the log of BranchLog. *)

\* The ref values that may replace f, as BranchLog has it.
Successor(f, v) ==
    LET e == v.log[Len(v.log)]
    IN  IF Live(f)
        THEN \/ /\ e.authority = Authority(f)
                /\ \/ e.op \in Ops /\ e.target = Append(Target(f), e.op) /\ ~v.tombstone
                   \/ e.op \notin Ops /\ ~v.tombstone
                   \/ e.op \notin Ops /\ e.target = Target(f) /\ v.tombstone
             \/ /\ e.authority.generation = Authority(f).generation + 1
                /\ e.op \notin Ops /\ e.target = Target(f) /\ ~v.tombstone
        ELSE e.op \notin Ops /\ ~v.tombstone

\* The commit that v names is one of those stored.
Names(v, stored) == v.log[Len(v.log)].target \in stored

Successors ==
    /\ \A r \in requests :
          r.object = "ref" =>
             Names(r.value, commits) /\ (r.expected = ref.token => Successor(ref, r.value))
    /\ Exists(ref) => Names(ref.value, commits)

\* What a step may add to the requests on their way.
Admissible(r) ==
    \/ r.object = "lease"
    \/ Names(r.value, commits') /\ (r.expected = ref.token => Successor(ref, r.value))

LEMMA SentSuccessors ==
    ASSUME Journal, NEW h \in Handles, NEW f, f = Absent \/ SeenRef(ref, f),
           NEW e \in Events, NEW t \in BOOLEAN,
           Send(h, "call", "ref", f.token, RefValue(f, e, t)), e.target \in commits',
           f.token = ref.token =>
              \A v : v.log[Len(v.log)] = e /\ v.tombstone = t => Successor(ref, v)
    PROVE  \A r \in requests' : r \in requests \/ Admissible(r)
<1> DEFINE v == RefValue(f, e, t)
           r == [from |-> <<h, "call">>, object |-> "ref", expected |-> f.token, value |-> v]
<1>1. f = Absent \/ (f \in HeldRefs /\ Len(f.value.log) = f.token)
  BY DEF SeenRef
<1>2. v.log[Len(v.log)] = e /\ v.tombstone = t
  <2>1. v = RefValue(f, e, t)
    OBVIOUS
  <2> HIDE DEF v
  <2> QED
    BY <1>1, <2>1, Continued, SMT
<1>3. requests' = requests \cup {r} /\ r.expected = f.token /\ r.value = v
  BY DEF Send
<1> HIDE DEF v, r
<1>4. Admissible(r)
  BY <1>2, <1>3 DEF Admissible, Names
<1> QED
  BY <1>3, <1>4

LEMMA PublishSuccessors ==
    ASSUME Journal, NEW h \in Handles, Publish(h)
    PROVE  \A r \in requests' : r \in requests \/ Admissible(r)
<1> DEFINE seen == call[h].seen
           stamp == call[h].stamp
<1>1. CallOK(ref, pc[h], call[h], sent[<<h, "call">>]) /\ pc[h] = "publish"
  BY Facts DEF Publish
<1>2. /\ call[h] \in Calls /\ call[h].op \in OpIds /\ call[h].now \in Nat
      /\ SeenRef(ref, seen) /\ ~seen.value.tombstone
      /\ call[h].kind \in {"put", "session", "reset", "delete"}
      /\ call[h].op \in Ops <=> call[h].kind \in {"put", "session"}
  BY <1>1 DEF CallOK, Calls
<1>3. seen \in HeldRefs /\ Live(seen)
  BY <1>2 DEF SeenRef, HeldRefs, Live, Exists
<1>4. ASSUME ValidActive(stamp, call[h].now), Authority(seen) = stamp,
             NEW target \in NewTargets(h), commits' = commits \cup {target},
             Send(h, "call", "ref", seen.token,
                  RefValue(seen, Event(call[h].op, target, stamp, call[h].now),
                           call[h].kind = "delete"))
      PROVE  \A r \in requests' : r \in requests \/ Admissible(r)
  <2> DEFINE e == Event(call[h].op, target, stamp, call[h].now)
             t == call[h].kind = "delete"
  <2>1. stamp \in Stamps
    BY <1>4, ActiveStamp
  <2>2. commits \subseteq Seq(OpIds) /\ Target(seen) \in Seq(OpIds)
    BY <1>3, Facts, TargetTyped DEF Rest
  <2>3. target \in Seq(OpIds)
    BY <1>2, <1>4, <2>2, SMT DEF NewTargets
  <2>4. e \in Events /\ e.op = call[h].op /\ e.target = target /\ e.authority = stamp
    BY <1>2, <2>1, <2>3, EventTyped DEF Event
  <2>5. \/ call[h].op \in Ops /\ target = Append(Target(seen), call[h].op) /\ ~t
        \/ call[h].op \notin Ops /\ ~t
        \/ call[h].op \notin Ops /\ target = Target(seen) /\ t
    BY <1>2, <1>4 DEF NewTargets
  <2>6. Send(h, "call", "ref", seen.token, RefValue(seen, e, t)) /\ t \in BOOLEAN
    BY <1>4
  <2> HIDE DEF e, t, seen, stamp
  <2>7. seen.token = ref.token =>
           \A v : v.log[Len(v.log)] = e /\ v.tombstone = t => Successor(ref, v)
    BY <1>2, <1>3, <1>4, <2>4, <2>5 DEF SeenRef, Successor
  <2>8. e.target \in commits'
    BY <1>4, <2>4
  <2> QED
    BY <1>2, <2>4, <2>6, <2>7, <2>8, SentSuccessors
<1> QED
  BY <1>4 DEF Publish

LEMMA CreateSuccessors ==
    ASSUME Journal, NEW h \in Handles, Create(h)
    PROVE  \A r \in requests' : r \in requests \/ Admissible(r)
<1> DEFINE base == IF call[h].kind = "init" THEN [token |-> 0, value |-> None] ELSE ref
<1>1. /\ StoreOK /\ pc[h] = "create"
      /\ CallOK(ref, pc[h], call[h], sent[<<h, "call">>])
  BY Facts DEF Create
<1>2. /\ call[h] \in Calls /\ call[h].op \in OpIds /\ call[h].kind \in {"create", "init"}
      /\ call[h].stamp \in Stamps /\ call[h].now \in Nat /\ call[h].op \notin Ops
  BY <1>1 DEF CallOK, Calls
<1>3. ASSUME call[h].kind = "create" => ~Live(ref),
             NEW target \in IF call[h].kind = "init" THEN {<<>>} ELSE commits,
             commits' = commits \cup {target},
             Send(h, "call", "ref", base.token,
                  RefValue(base, Event(call[h].op, target, call[h].stamp, call[h].now), FALSE))
      PROVE  \A r \in requests' : r \in requests \/ Admissible(r)
  <2> DEFINE e == Event(call[h].op, target, call[h].stamp, call[h].now)
  <2>1. base = Absent \/ SeenRef(ref, base)
    BY <1>1, SeenNow DEF Absent
  <2>2. base.token = ref.token => base = ref /\ ~Live(ref)
    <3>1. CASE call[h].kind = "create"
      BY <1>3, <3>1
    <3>2. CASE call[h].kind = "init"
      <4>1. base = Absent /\ base.token = 0
        BY <3>2 DEF Absent
      <4>2. ref.token = 0 => ref = Absent /\ ~Live(ref)
        BY <1>1 DEF StoreOK, HeldRefs, Live, Exists
      <4> QED
        BY <4>1, <4>2
    <3> QED
      BY <1>2, <3>1, <3>2
  <2> HIDE DEF base
  <2>4. target \in Seq(OpIds)
    <3>1. commits \subseteq Seq(OpIds)
      BY Facts DEF Rest
    <3>2. <<>> \in Seq(OpIds)
      BY SMT
    <3> QED
      BY <1>3, <3>1, <3>2
  <2>5. e \in Events /\ e.target = target /\ e.op \notin Ops
    BY <1>2, <2>4, EventTyped DEF Event
  <2>6. Send(h, "call", "ref", base.token, RefValue(base, e, FALSE))
    BY <1>3
  <2> HIDE DEF e
  <2>7. base.token = ref.token =>
           \A v : v.log[Len(v.log)] = e /\ v.tombstone = FALSE => Successor(ref, v)
    BY <1>3, <2>2, <2>5 DEF Successor
  <2>8. e.target \in commits'
    BY <1>3, <2>5
  <2> QED
    BY <2>1, <2>5, <2>6, <2>7, <2>8, SentSuccessors
<1> QED
  BY <1>3 DEF Create

LEMMA BarrierSuccessors ==
    ASSUME Journal, Successors, NEW h \in Handles, Barrier(h)
    PROVE  \A r \in requests' : r \in requests \/ Admissible(r)
<1> DEFINE stamp == Stamp(call[h].seen.lease)
           e == Event(call[h].op, Target(ref), stamp, call[h].now)
<1>1. /\ StoreOK /\ pc[h] = "barrier"
      /\ CallOK(ref, pc[h], call[h], sent[<<h, "call">>])
      /\ Exists(ref) => ref \in HeldRefs
  BY Facts DEF Barrier
<1>2. /\ call[h] \in Calls /\ call[h].op \in OpIds /\ call[h].now \in Nat
      /\ call[h].seen \in Permits /\ call[h].op \notin Ops
  BY <1>1 DEF CallOK, Calls
<1>3. ASSUME Live(ref), stamp.generation = Authority(ref).generation + 1,
             Send(h, "call", "ref", ref.token, RefValue(ref, e, FALSE))
      PROVE  \A r \in requests' : r \in requests \/ Admissible(r)
  <2>1. Target(ref) \in Seq(OpIds)
    BY <1>1, <1>3, TargetTyped DEF Live
  <2>2. stamp \in Stamps
    BY <1>2, StampTyped DEF Permits
  <2>3. e \in Events /\ e.op \notin Ops /\ e.target = Target(ref) /\ e.authority = stamp
    BY <1>2, <2>1, <2>2, EventTyped DEF Event
  <2>4. ref = Absent \/ SeenRef(ref, ref)
    BY <1>1, SeenNow
  <2>6. Target(ref) \in commits'
    BY <1>3 DEF Barrier, Successors, Names, Live, Target, LastEvent
  <2> HIDE DEF e, stamp
  <2>5. \A v : v.log[Len(v.log)] = e /\ v.tombstone = FALSE => Successor(ref, v)
    BY <1>3, <2>3 DEF Successor
  <2> QED
    BY <1>3, <2>3, <2>4, <2>5, <2>6, SentSuccessors
<1> QED
  BY <1>3 DEF Barrier

\* The steps, by what they do to the store.
Executes(r) ==
    /\ store' = [store EXCEPT ![r.object] = Executed(r)]
    /\ requests' \subseteq requests /\ commits' = commits

Sends ==
    /\ UNCHANGED store /\ commits \subseteq commits'
    /\ \A r \in requests' : r \in requests \/ Admissible(r)

LEMMA LeaseSent ==
    ASSUME NEW h, NEW task, NEW expected, NEW v, Send(h, task, "lease", expected, v)
    PROVE  \A r \in requests' : r \in requests \/ Admissible(r)
<1> DEFINE r == [from |-> <<h, task>>, object |-> "lease", expected |-> expected, value |-> v]
<1>1. requests' = requests \cup {r} /\ r.object = "lease"
  BY DEF Send
<1> HIDE DEF r
<1> QED
  BY <1>1 DEF Admissible

LEMMA StepSuccessors ==
    ASSUME Journal, Successors, [Next]_vars
    PROVE  Sends \/ \E r \in requests : Executes(r)
<1> DEFINE Goal == Sends \/ \E r \in requests : Executes(r)
<1> HIDE DEF Goal
<1>1. ASSUME UNCHANGED <<store, requests, commits>> PROVE Goal
  BY <1>1 DEF Goal, Sends
<1>2. ASSUME UNCHANGED <<store, commits>>, NEW h, NEW task, NEW x, NEW v,
             Send(h, task, "lease", x, v)
      PROVE  Goal
  BY <1>2, LeaseSent DEF Goal, Sends
<1>3. ASSUME NEW h \in Handles, HandleStep(h) PROVE Goal
  <2>1. CASE Permit(h)
    BY <1>1, <1>2, <2>1 DEF Permit, SendAcquire
  <2>2. CASE Validate(h) \/ Reconcile(h) \/ Load(h) \/ Recheck(h) \/ Settle(h)
    BY <1>1, <2>2 DEF Validate, Reconcile, Load, Recheck, Settle
  <2>3. CASE Publish(h)
    BY <2>3, PublishSuccessors DEF Publish, Goal, Sends
  <2>4. CASE Create(h)
    BY <2>4, CreateSuccessors DEF Create, Goal, Sends
  <2>5. CASE Barrier(h)
    BY <2>5, BarrierSuccessors DEF Barrier, Goal, Sends
  <2>6. CASE Activate(h)
    BY <1>2, <2>6 DEF Activate
  <2>7. ASSUME NEW task \in {"call", "renew"}, Answered(h, task) PROVE Goal
    BY <2>7 DEF Answered, Executes, Goal
  <2> QED
    BY <1>3, <2>1, <2>2, <2>3, <2>4, <2>5, <2>6, <2>7 DEF HandleStep
<1>4. ASSUME NEW h \in Handles, HandleStart(h) PROVE Goal
  <2>1. CASE Open(h) \/ Initialize(h)
    BY <1>1, <1>2, <2>1 DEF Open, Initialize, SendAcquire
  <2>2. CASE OpenReadOnly(h) \/ \E kind \in Kinds, op \in Ops \cup {Fresh(h)} : Call(h, kind, op)
    BY <1>1, <2>2 DEF OpenReadOnly, Call
  <2>3. CASE Renew(h) \/ BeginTakeover(h)
    BY <1>1, <1>2, <2>3 DEF Renew, BeginTakeover
  <2> QED
    BY <1>4, <2>1, <2>2, <2>3 DEF HandleStart
<1>5. ASSUME NEW r \in requests, Unnoticed(r) PROVE Goal
  BY <1>5 DEF Unnoticed, Executes, Goal
<1>6. ASSUME NEW h \in Handles, Crash(h) \/ \E task \in {"call", "renew"} : Lost(h, task)
      PROVE  Goal
  BY <1>1, <1>6 DEF Crash, Lost
<1>7. ASSUME Tick \/ UNCHANGED vars PROVE Goal
  BY <1>1, <1>7 DEF Tick, vars
<1> QED
  BY <1>3, <1>4, <1>5, <1>6, <1>7 DEF Next, Goal

\* An executed request leaves the ref alone or is the next value of it.
LEMMA ExecutedRef ==
    ASSUME Journal, NEW r \in requests, Executes(r)
    PROVE  \/ ref' = ref
           \/ /\ r \in RefRequests /\ r.object = "ref" /\ r.expected = ref.token
              /\ ref'.token = ref.token + 1 /\ ref'.value = r.value
<1>1. r \in LeaseRequests \/ r \in RefRequests
  BY DEF Journal, RequestOK
<1>2. DOMAIN store = {"lease", "ref"}
  BY DEF Journal, StoreOK
<1>3. CASE r \in LeaseRequests
  BY <1>2, <1>3 DEF Executes, LeaseRequests, ref
<1>4. CASE r \in RefRequests
  <2>1. r.object = "ref" /\ ref' = Executed(r)
    BY <1>2, <1>4 DEF Executes, RefRequests, ref
  <2>2. CASE ref.token = r.expected
    <3>1. Executed(r) = [token |-> r.expected + 1, value |-> r.value]
      BY <2>1, <2>2 DEF Executed, ref
    <3> QED
      BY <1>4, <2>1, <2>2, <3>1, SMT
  <2>3. CASE ref.token # r.expected
    BY <2>1, <2>3 DEF Executed, ref
  <2> QED
    BY <2>2, <2>3
<1> QED
  BY <1>1, <1>3, <1>4

LEMMA NextSuccessors ==
    ASSUME Journal, Successors, [Next]_vars
    PROVE  Successors'
<1>1. CASE Sends
  <2>1. ref' = ref /\ commits \subseteq commits'
    BY <1>1 DEF Sends, ref
  <2>2. ASSUME NEW r \in requests', r.object = "ref"
        PROVE  Names(r.value, commits') /\ (r.expected = ref.token => Successor(ref, r.value))
    BY <1>1, <2>1, <2>2 DEF Sends, Successors, Admissible, Names
  <2>3. \A v : Successor(ref, v) => Successor(ref', v)
    BY <2>1
  <2>4. Exists(ref') => Names(ref'.value, commits')
    BY <2>1 DEF Successors, Names
  <2> QED
    BY <2>1, <2>2, <2>3, <2>4 DEF Successors
<1>2. ASSUME NEW r \in requests, Executes(r) PROVE Successors'
  <2>1. requests' \subseteq requests /\ commits' = commits
    BY <1>2 DEF Executes
  <2>2. CASE ref' = ref
    BY <2>1, <2>2 DEF Successors
  <2>3. CASE r.object = "ref" /\ ref'.token = ref.token + 1 /\ ref'.value = r.value
    <3>1. ASSUME NEW q \in requests', q.object = "ref"
          PROVE  Names(q.value, commits') /\ q.expected # ref'.token
      <4>1. q \in RefRequests /\ q.expected <= ref.token
        BY <2>1, <3>1 DEF Journal, RequestOK, LeaseRequests
      <4>2. q.expected \in Nat /\ ref.token \in Nat
        BY <4>1, SMT DEF RefRequests, Journal, StoreOK, Absent, HeldRefs
      <4>3. q.expected # ref'.token
        BY <2>3, <4>1, <4>2, SMT
      <4> QED
        BY <2>1, <3>1, <4>3 DEF Successors
    <3>2. Names(ref'.value, commits')
      BY <2>1, <2>3 DEF Successors
    <3> QED
      BY <3>1, <3>2 DEF Successors
  <2> QED
    BY <1>2, <2>2, <2>3, ExecutedRef
<1> QED
  BY <1>1, <1>2, StepSuccessors

\* A receipt for an operation of the journal.
Receipt(op) == Applied(op, ref') /\ acked' = acked \cup ({op} \cap Ops)

branchVars == <<Log(ref), Exists(ref) /\ ref.value.tombstone, commits, acked>>

\* The steps that leave the ref alone store a commit or give a receipt.
Quiet ==
    \/ acked' = acked /\ commits \subseteq commits'
    \/ commits' = commits /\ \E op : Receipt(op)

LEMMA AcknowledgeStep ==
    ASSUME ref' = ref, Quiet
    PROVE  [Branch!Next]_branchVars
<1>1. /\ Log(ref') = Log(ref)
      /\ (Exists(ref') /\ ref'.value.tombstone) = (Exists(ref) /\ ref.value.tombstone)
  OBVIOUS
<1>2. CASE acked' = acked /\ commits \subseteq commits'
  BY <1>1, <1>2 DEF Branch!Next, Branch!Store
<1>3. ASSUME commits' = commits, NEW op, Receipt(op) PROVE Branch!Acknowledge
  <2>1. PICK i \in 1 .. Len(Log(ref)) : Log(ref)[i].op = op
    BY <1>1, <1>3 DEF Receipt, Applied
  <2>2. acked' = acked \cup ({Log(ref)[i].op} \cap Ops)
    BY <1>3, <2>1 DEF Receipt
  <2> QED
    BY <1>1, <1>3, <2>2 DEF Branch!Acknowledge
<1> QED
  BY <1>2, <1>3 DEF Branch!Next, Quiet

\* A task that looks its request up gives a receipt only for what it found.
LEMMA ConcludeReceipt ==
    ASSUME Journal, StoreOK', NEW h \in Handles, NEW task \in {"call", "renew"},
           sent[<<h, task>>] # None,
           NEW object, object = store'[sent[<<h, task>>].object], NEW unknown,
           IF task = "call" THEN Conclude(h, object, unknown) ELSE ConcludeRenewal(h, object)
    PROVE  \/ acked' = acked
           \/ LET v == sent[<<h, task>>].value
              IN  Receipt(v.log[Len(v.log)].op)
<1> DEFINE s == sent[<<h, task>>]
<1>1. CASE task = "renew"
  BY <1>1 DEF ConcludeRenewal
<1>2. CASE task = "call" /\ object.value # s.value
  BY <1>2 DEF Conclude, Failed
<1>3. CASE task = "call" /\ object.value = s.value
  <2>1. CallOK(ref, pc[h], call[h], s) /\ Succeeded(h, object)
    BY <1>3, Facts DEF Conclude
  <2>2. \/ pc[h] \in {"acquire", "pending", "active"}
        \/ pc[h] \in {"published", "barred"} /\ s \in RefRequests
    BY <2>1 DEF CallOK
  <2>3. CASE pc[h] = "published"
    <3>1. s.value.log[Len(s.value.log)].op = call[h].op /\ s \in RefRequests
      BY <2>1, <2>2, <2>3 DEF CallOK
    <3>2. acked' = acked \cup ({call[h].op} \cap Ops)
      BY <2>1, <2>3 DEF Succeeded
    <3>3. <<h, task>> \in Tasks
      BY DEF Tasks
    <3>4. Applied(s.value.log[Len(s.value.log)].op, ref')
      BY <1>3, <3>1, <3>3, Found
    <3> QED
      BY <3>1, <3>2, <3>4 DEF Receipt
  <2>4. CASE pc[h] \in {"acquire", "pending", "active", "barred"}
    BY <2>1, <2>4 DEF Succeeded
  <2> QED
    BY <2>2, <2>3, <2>4
<1> QED
  BY <1>1, <1>2, <1>3

\* The step of the log when the ref takes the value v.
LEMMA PublishStep ==
    ASSUME Journal, Successors, NEW r \in requests, r \in RefRequests, r.object = "ref",
           r.expected = ref.token, ref'.token = ref.token + 1, ref'.value = r.value,
           commits' = commits, acked' = acked \/ Receipt(r.value.log[Len(r.value.log)].op)
    PROVE  Branch!Publish
<1> DEFINE v == r.value
           e == v.log[Len(v.log)]
<1>1. /\ v \in RefValues /\ Len(v.log) = ref.token + 1
      /\ \A i \in 1 .. ref.token : v.log[i] = ref.value.log[i]
  BY DEF Journal, RequestOK, LeaseRequests, RefRequests
<1>2. ref = Absent \/ (ref \in HeldRefs /\ Len(ref.value.log) = ref.token)
  BY DEF Journal, StoreOK
<1>3. ref.token \in Nat
  BY <1>2, SMT DEF Absent, HeldRefs
<1>4. Exists(ref') /\ Log(ref') = v.log
  BY <1>3, SMT DEF Exists, Log
<1>5. v.log \in Seq(Events) /\ v.log # <<>> /\ v.tombstone \in BOOLEAN
  BY <1>1 DEF RefValues
<1>6. Log(ref) \in Seq(Events) /\ Len(Log(ref)) = ref.token
      /\ \A i \in 1 .. ref.token : Log(ref)[i] = v.log[i]
  <2>1. CASE ref = Absent
    <3>1. Log(ref) = <<>> /\ ref.token = 0
      BY <2>1 DEF Log, Exists, Absent
    <3> QED
      BY <3>1, SMT
  <2>2. CASE ref \in HeldRefs /\ Len(ref.value.log) = ref.token
    <3>1. Log(ref) = ref.value.log /\ ref.value.log \in Seq(Events)
      BY <2>2 DEF Log, Exists, HeldRefs, RefValues
    <3> QED
      BY <1>1, <2>2, <3>1
  <2> QED
    BY <1>2, <2>1, <2>2
<1>7. v.log = Append(Log(ref), e)
  <2>1. e \in Events /\ Len(v.log) = Len(Log(ref)) + 1 /\ v.log[Len(Log(ref)) + 1] = e
        /\ \A i \in 1 .. Len(Log(ref)) : v.log[i] = Log(ref)[i]
    BY <1>1, <1>5, <1>6, LastTyped
  <2> HIDE DEF e, v
  <2> QED
    BY <1>5, <1>6, <2>1, SMT
<1>8. Successor(ref, v) /\ e.target \in commits
  BY DEF Successors, Names
<1>9. acked' \in {acked, acked \cup ({e.op} \cap Ops)}
  BY DEF Receipt
<1>10. (Exists(ref) /\ ref.value.tombstone)' = v.tombstone
  BY <1>4, <1>5
<1>11. /\ Live(ref) <=> Branch!Open
       /\ Live(ref) => /\ Target(ref) = Branch!Latest.target
                        /\ Authority(ref) = Branch!Latest.authority
  <2>1. Live(ref) => Log(ref) = ref.value.log
    BY DEF Live, Log
  <2>2. Exists(ref) <=> Log(ref) # <<>>
    BY <1>3, <1>6, SMT DEF Exists
  <2> QED
    BY <2>1, <2>2 DEF Branch!Open, Branch!Latest, Live, Target, Authority, LastEvent
<1>12. Branch!Create(e) \/ Branch!Write(e) \/ Branch!TakeOver(e)
  BY <1>5, <1>8, <1>10, <1>11 DEF Successor, Branch!Create, Branch!Write, Branch!TakeOver,
     Branch!Commit, Branch!Reset, Branch!Delete
<1> QED
  BY <1>4, <1>5, <1>7, <1>8, <1>9, <1>12 DEF Branch!Publish

\* Receipts of the steps that leave the store alone.
LEMMA QuietReceipt ==
    ASSUME Journal, [Next]_vars, UNCHANGED store,
           \A h \in Handles, task \in {"call", "renew"} : ~Answered(h, task)
    PROVE  Quiet
<1>1. ref' = ref
  BY DEF ref
<1>2. ASSUME NEW h \in Handles, HandleStep(h) PROVE Quiet
  <2>1. CASE Permit(h) \/ Validate(h) \/ Load(h) \/ Publish(h) \/ Recheck(h)
    BY <2>1 DEF Permit, Validate, Load, Publish, Recheck, Quiet
  <2>2. CASE Create(h) \/ Barrier(h) \/ Activate(h)
    BY <2>2 DEF Create, Barrier, Activate, Quiet
  <2>3. CASE Reconcile(h) \/ Settle(h)
    <3>1. CallOK(ref, pc[h], call[h], sent[<<h, "call">>])
          /\ pc[h] \in {"reconcile", "settle"}
      BY <2>3, Facts DEF Reconcile, Settle
    <3>2. call[h].op \in Ops
      BY <3>1 DEF CallOK
    <3>3. /\ commits' = commits
          /\ \/ acked' = acked
             \/ Applied(call[h].op, ref) /\ acked' = acked \cup {call[h].op}
      BY <2>3, FindsApplied DEF Reconcile, Settle
    <3>4. {call[h].op} \cap Ops = {call[h].op}
      BY <3>2
    <3> QED
      BY <1>1, <3>3, <3>4 DEF Receipt, Quiet
  <2> QED
    BY <1>2, <2>1, <2>2, <2>3 DEF HandleStep
<1>3. ASSUME NEW h \in Handles, HandleStart(h) PROVE acked' = acked /\ commits' = commits
  BY <1>3 DEF HandleStart, Call, Open, OpenReadOnly, Initialize, Renew, BeginTakeover
<1>4. ASSUME NEW h \in Handles, NEW task \in {"call", "renew"}, Lost(h, task)
      PROVE  Quiet
  <2>1. StoreOK' /\ sent[<<h, task>>] # None /\ commits' = commits
    BY <1>4 DEF Journal, StoreOK, Lost, ref, lease
  <2>2. IF task = "call" THEN Conclude(h, store'[sent[<<h, task>>].object], TRUE)
                         ELSE ConcludeRenewal(h, store'[sent[<<h, task>>].object])
    BY <1>4 DEF Lost
  <2> QED
    BY <2>1, <2>2, ConcludeReceipt DEF Quiet
<1>5. CASE Tick \/ UNCHANGED vars \/ \E h \in Handles : Crash(h)
  BY <1>5 DEF Tick, vars, Crash, Quiet
<1>6. ASSUME NEW r \in requests, Unnoticed(r) PROVE acked' = acked /\ commits' = commits
  BY <1>6 DEF Unnoticed
<1> QED
  BY <1>2, <1>3, <1>4, <1>5, <1>6 DEF Next, Quiet

LEMMA ExecutionStep ==
    ASSUME Journal, Successors, NEW r \in requests, Executes(r),
           acked' = acked \/ Receipt(r.value.log[Len(r.value.log)].op)
    PROVE  [Branch!Next]_branchVars
<1>1. CASE ref' = ref
  BY <1>1, AcknowledgeStep DEF Executes, Quiet
<1>2. CASE /\ r \in RefRequests /\ r.object = "ref" /\ r.expected = ref.token
           /\ ref'.token = ref.token + 1 /\ ref'.value = r.value
  BY <1>2, PublishStep DEF Branch!Next, Executes
<1> QED
  BY <1>1, <1>2, ExecutedRef

LEMMA ContractStep ==
    ASSUME Journal, Successors, [Next]_vars
    PROVE  [Branch!Next]_branchVars
<1>1. ASSUME NEW h \in Handles, NEW task \in {"call", "renew"}, Answered(h, task)
      PROVE  [Branch!Next]_branchVars
  <2> DEFINE r == sent[<<h, task>>]
  <2>1. r # None /\ r \in requests /\ Executes(r)
    BY <1>1 DEF Answered, Executes
  <2>2. StoreOK' /\ store'[r.object] = Executed(r)
    BY <2>1, Execution DEF Executes
  <2>3. IF task = "call" THEN Conclude(h, store'[r.object], FALSE)
                         ELSE ConcludeRenewal(h, store'[r.object])
    BY <1>1, <2>2 DEF Answered
  <2>4. acked' = acked \/ Receipt(r.value.log[Len(r.value.log)].op)
    BY <2>1, <2>2, <2>3, ConcludeReceipt
  <2> HIDE DEF r
  <2> QED
    BY <2>1, <2>4, ExecutionStep
<1>2. ASSUME NEW r \in requests, Unnoticed(r)
      PROVE  [Branch!Next]_branchVars
  <2>1. Executes(r) /\ acked' = acked
    BY <1>2 DEF Unnoticed, Executes
  <2> QED
    BY <2>1, ExecutionStep
<1>3. CASE /\ \A h \in Handles, task \in {"call", "renew"} : ~Answered(h, task)
           /\ \A r \in requests : ~Unnoticed(r)
  <2>1. UNCHANGED store
    <3>1. ASSUME NEW h \in Handles, HandleStep(h) PROVE UNCHANGED store
      BY <1>3, <3>1 DEF HandleStep, Permit, Validate, Reconcile, Load, Publish, Recheck,
         Create, Barrier, Activate, Settle
    <3>2. ASSUME NEW h \in Handles, HandleStart(h) PROVE UNCHANGED store
      BY <3>2 DEF HandleStart, Call, Open, OpenReadOnly, Initialize, Renew, BeginTakeover
    <3>3. ASSUME NEW h \in Handles, Crash(h) \/ \E task \in {"call", "renew"} : Lost(h, task)
          PROVE  UNCHANGED store
      BY <3>3 DEF Crash, Lost
    <3>4. CASE Tick \/ UNCHANGED vars
      BY <3>4 DEF Tick, vars
    <3> QED
      BY <1>3, <3>1, <3>2, <3>3, <3>4 DEF Next
  <2>2. ref' = ref
    BY <2>1 DEF ref
  <2> QED
    BY <1>3, <2>1, <2>2, QuietReceipt, AcknowledgeStep
<1> QED
  BY <1>1, <1>2, <1>3

LEMMA ContractInit ==
    ASSUME Init
    PROVE  Successors /\ Branch!Init
<1>1. ref = Absent /\ requests = {} /\ acked = {} /\ commits = Imported
  BY DEF Init, ref, Absent
<1>2. ~Exists(ref)
  BY <1>1 DEF Exists, Absent
<1> QED
  BY <1>1, <1>2 DEF Successors, Branch!Init, Log

\* The protocol of leases and conditional writes (publish_commit_session, put_object_inner,
\* takeover_branch_writer, create, reset, delete) implements the log of BranchLog for every
\* number of handles, writers, operations and faults and every mix of calls: no event is lost
\* or replaced, every operation of a caller is a commit on top of the head of its moment, no
\* event names a commit that was not stored before, wherever a reset moves the head, and the
\* authority changes by the barrier of a takeover alone.
THEOREM BranchIsALog == Spec => BranchContract
<1>1. Init => Successors /\ Branch!Init
  BY ContractInit
<1>2. Journal /\ Successors /\ [Next]_vars => Successors'
  BY NextSuccessors
<1>3. Journal /\ Successors /\ [Next]_vars =>
         [Branch!Next]_<<Log(ref), Exists(ref) /\ ref.value.tombstone, commits, acked>>
  BY ContractStep DEF branchVars
<1> QED
  BY <1>1, <1>2, <1>3, JournalInvariant, PTL DEF Spec, BranchContract, Branch!Spec

-----------------------------------------------------------------------------
(* The second invariant: fencing, when no branch is deleted. *)

LastAuthority(v) == v.log[Len(v.log)].authority

\* Stamp a was an authority of lease l at some time: its generation is no
\* later than the lease's, and the lease's own when the two are equal.
Known(l, a) ==
    /\ l.token # 0
    /\ a.generation <= l.value.generation
    /\ a.generation = l.value.generation => a = Stamp(l.value)

FencedStore ==
    /\ Exists(ref) => ~ref.value.tombstone /\ Known(lease, Authority(ref))
    /\ Exists(lease) /\ lease.value.state = "active" =>
          IF Exists(ref) THEN Authority(ref) = Stamp(lease.value)
                         ELSE lease.value.generation = 1

\* The leases that may follow l when the ref is f.
LeaseFollows(l, f, v) ==
    \/ l.token = 0 /\ v.generation = 1 /\ v.state = "active"
    \/ /\ l.token # 0 /\ v.state = "active" /\ Stamp(v) = Stamp(l.value)
       /\ l.value.state = "pending" => f.token # 0 /\ Authority(f) = Stamp(l.value)
    \/ l.token # 0 /\ v.state = "pending" /\ v.generation = l.value.generation + 1

FencedRequest(r) ==
    /\ r.object = "lease" =>
          /\ r.expected <= lease.token
          /\ r.expected = lease.token => LeaseFollows(lease, ref, r.value)
    /\ r.object = "ref" =>
          /\ ~r.value.tombstone
          /\ Known(lease, LastAuthority(r.value))
          /\ r.expected = ref.token /\ ref.token # 0 =>
                \/ LastAuthority(r.value) = Authority(ref)
                \/ LastAuthority(r.value).generation = Authority(ref).generation + 1

\* A lease read with its token is the current one unless the token has moved.
SeenLease(l, seen) ==
    /\ seen.token <= l.token
    /\ seen.token = l.token => seen.lease = l.value

FencedCall(l, f, p, c, s) ==
    /\ p = "create" => Known(l, c.stamp)
    /\ p \in {"acquire", "active"} /\ s # None => s.value.state = "active"
    /\ p = "pending" /\ s # None => s.value.state = "pending"
    /\ p \in {"barrier", "barred", "activate"} =>
          /\ c.seen.lease.state = "pending"
          /\ SeenLease(l, c.seen)
          /\ Known(l, Stamp(c.seen.lease))
    /\ p = "barred" /\ s # None => LastAuthority(s.value) = Stamp(c.seen.lease)
    /\ p = "activate" =>
          f.token # 0 /\ Authority(f).generation >= c.seen.lease.generation

FencedPermit(l, m, n) ==
    /\ m # None => m.lease.state = "active" /\ SeenLease(l, m)
    /\ n # None => n.value.state = "active"

Fenced ==
    /\ FencedStore
    /\ \A r \in requests : FencedRequest(r)
    /\ \A h \in Handles :
          /\ FencedCall(lease, ref, pc[h], call[h], sent[<<h, "call">>])
          /\ FencedPermit(lease, permit[h], sent[<<h, "renew">>])

-----------------------------------------------------------------------------
(* Steps that leave the store alone. *)

LEMMA LocalFenced ==
    ASSUME Fenced, NEW h \in Handles, UNCHANGED store, Others(h),
           FencedCall(lease, ref, pc'[h], call'[h], sent'[<<h, "call">>]),
           FencedPermit(lease, permit'[h], sent'[<<h, "renew">>]),
           \A r \in requests' : r \in requests \/ FencedRequest(r)
    PROVE  Fenced'
<1>1. ref' = ref /\ lease' = lease
  BY DEF ref, lease
<1>2. FencedStore'
  BY <1>1 DEF Fenced, FencedStore, Known, Exists, Authority, LastEvent
<1>3. ASSUME NEW r \in requests' PROVE FencedRequest(r)'
  <2>1. FencedRequest(r)
    BY DEF Fenced
  <2> QED
    BY <1>1, <2>1 DEF FencedRequest, LeaseFollows, Known, Authority, LastEvent
<1>4. ASSUME NEW g \in Handles
      PROVE  /\ FencedCall(lease', ref', pc'[g], call'[g], sent'[<<g, "call">>])
             /\ FencedPermit(lease', permit'[g], sent'[<<g, "renew">>])
  <2>1. CASE g = h
    BY <1>1, <2>1
  <2>2. CASE g # h
    <3>1. /\ FencedCall(lease, ref, pc[g], call[g], sent[<<g, "call">>])
          /\ FencedPermit(lease, permit[g], sent[<<g, "renew">>])
      BY DEF Fenced
    <3> QED
      BY <1>1, <2>2, <3>1 DEF Others, Frame
  <2> QED
    BY <2>1, <2>2
<1> QED
  BY <1>2, <1>3, <1>4 DEF Fenced

LEMMA QuietFenced ==
    ASSUME Journal, Fenced, NEW h \in Handles, UNCHANGED <<store, requests, sent>>,
           Touched(pc, pc', h), Touched(call, call', h), Touched(permit, permit', h),
           permit'[h] \in {permit[h], None},
           FencedCall(lease, ref, pc'[h], call'[h], sent[<<h, "call">>])
    PROVE  Fenced'
<1>1. Types
  BY DEF Journal
<1>2. Others(h)
  BY <1>1, StepOthers
<1>3. FencedPermit(lease, permit[h], sent[<<h, "renew">>])
  BY DEF Fenced
<1>4. FencedPermit(lease, permit'[h], sent'[<<h, "renew">>])
  BY <1>3 DEF FencedPermit
<1> QED
  BY <1>2, <1>4, LocalFenced

\* A call that returns leaves nothing to hold.
LEMMA ReturnFenced ==
    ASSUME Journal, Fenced, NEW h \in Handles, Return(h),
           UNCHANGED <<store, requests, sent>>, UNCHANGED permit \/ Fence(h)
    PROVE  Fenced'
<1>1. /\ pc \in [Handles -> Labels] /\ call \in [Handles -> Calls \cup {NoCall}]
      /\ permit \in [Handles -> Permits \cup {None}]
  BY DEF Journal, Types, Rest
<1>2. /\ pc' = [pc EXCEPT ![h] = "idle"] /\ call' = [call EXCEPT ![h] = NoCall]
      /\ permit' = permit \/ permit' = [permit EXCEPT ![h] = None]
  BY DEF Return, Goto, Fence
<1>3. pc'[h] = "idle" /\ permit'[h] \in {permit[h], None}
  BY <1>1, <1>2
<1>4. Touched(pc, pc', h) /\ Touched(call, call', h) /\ Touched(permit, permit', h)
  BY <1>2 DEF Touched
<1>5. FencedCall(lease, ref, "idle", call'[h], sent[<<h, "call">>])
  BY DEF FencedCall
<1> QED
  BY <1>3, <1>4, <1>5, QuietFenced

LEMMA MoveFenced ==
    ASSUME Journal, Fenced, NEW h \in Handles, NEW label \in Labels, Goto(h, label),
           UNCHANGED <<store, requests, sent, permit>>, Touched(call, call', h),
           FencedCall(lease, ref, label, call'[h], sent[<<h, "call">>])
    PROVE  Fenced'
<1>1. pc \in [Handles -> Labels]
  BY DEF Journal, Types
<1>2. pc' = [pc EXCEPT ![h] = label]
  BY DEF Goto
<1>3. pc'[h] = label
  BY <1>1, <1>2
<1>4. Touched(pc, pc', h) /\ Touched(permit, permit', h)
  BY <1>2 DEF Touched
<1> QED
  BY <1>3, <1>4, QuietFenced

LEMMA SendFenced ==
    ASSUME Journal, Fenced, NEW h \in Handles, NEW label \in Labels, Goto(h, label),
           NEW object, NEW expected \in Nat, NEW value,
           Send(h, "call", object, expected, value),
           (object = "lease" /\ value \in Leases) \/ (object = "ref" /\ value \in RefValues),
           UNCHANGED <<store, permit>>, Touched(call, call', h),
           NEW r, r = [from |-> <<h, "call">>, object |-> object, expected |-> expected,
                       value |-> value],
           FencedCall(lease, ref, label, call'[h], r), FencedRequest(r)
    PROVE  Fenced'
<1>1. /\ Types /\ pc \in [Handles -> Labels]
      /\ sent \in [Tasks -> LeaseRequests \cup RefRequests \cup {None}]
      /\ <<h, "call">> \in Tasks
  BY DEF Journal, Types, Tasks
<1>2. /\ pc' = [pc EXCEPT ![h] = label] /\ sent' = [sent EXCEPT ![<<h, "call">>] = r]
      /\ requests' = requests \cup {r}
  BY DEF Goto, Send
<1>3. sent'[<<h, "call">>] = r
  BY <1>1, <1>2
<1>5. pc'[h] = label
  BY <1>1, <1>2
<1>6. Touched(pc, pc', h) /\ Touched(permit, permit', h)
  BY <1>2 DEF Touched
<1>7. Others(h) /\ sent'[<<h, "renew">>] = sent[<<h, "renew">>]
  BY <1>1, <1>2, <1>6, StepOthers
<1>8. FencedPermit(lease, permit'[h], sent'[<<h, "renew">>])
  BY <1>7 DEF Fenced
<1> QED
  BY <1>2, <1>3, <1>5, <1>7, <1>8, LocalFenced

-----------------------------------------------------------------------------
(* Fencing, action by action. *)

\* An acquisition creates the first lease or extends the active one.
LEMMA AcquireFenced ==
    ASSUME Journal, Fenced, NEW h \in Handles, NEW now \in Nat, NEW nonce \in Nonces,
           SendAcquire(h, now, nonce), Goto(h, "acquire"),
           UNCHANGED <<store, permit>>, Touched(call, call', h)
    PROVE  Fenced'
<1>1. /\ Exists(lease) => lease.value \in Leases
      /\ lease.token \in Nat
  BY Facts
<1>2. ASSUME NEW expected \in Nat, NEW v \in Leases, Send(h, "call", "lease", expected, v),
             expected = lease.token, v.state = "active", LeaseFollows(lease, ref, v)
      PROVE  Fenced'
  <2> DEFINE r == [from |-> <<h, "call">>, object |-> "lease", expected |-> expected,
                   value |-> v]
  <2>1. r.object = "lease" /\ r.expected = expected /\ r.value = v
    OBVIOUS
  <2> HIDE DEF r
  <2>2. FencedRequest(r)
    BY <1>1, <1>2, <2>1, SMT DEF FencedRequest
  <2>3. FencedCall(lease, ref, "acquire", call'[h], r)
    BY <1>2, <2>1 DEF FencedCall
  <2> QED
    BY <1>2, <2>2, <2>3, SendFenced DEF r, Labels
<1>3. CASE /\ ~Exists(lease)
           /\ Send(h, "call", "lease", 0, Lease(1, h, nonce, "active", now))
  <2> DEFINE v == Lease(1, h, nonce, "active", now)
  <2>1. v \in Leases
    BY LeaseTyped, SMT
  <2>2. v.generation = 1 /\ v.state = "active"
    BY DEF Lease
  <2>3. lease.token = 0
    BY <1>3 DEF Exists
  <2>4. LeaseFollows(lease, ref, v)
    BY <2>2, <2>3 DEF LeaseFollows
  <2> HIDE DEF v
  <2> QED
    BY <1>2, <1>3, <2>1, <2>2, <2>3, <2>4, SMT DEF v
<1>4. CASE /\ Exists(lease) /\ lease.value.state = "active"
           /\ Send(h, "call", "lease", lease.token,
                   [lease.value EXCEPT !.expires = now + LeaseTicks])
  <2> DEFINE v == [lease.value EXCEPT !.expires = now + LeaseTicks]
  <2>1. now + LeaseTicks \in Nat
    BY PublicationBoundsAssumption, SMT
  <2>2. v \in Leases /\ Stamp(v) = Stamp(lease.value) /\ v.state = "active"
    BY <1>1, <1>4, <2>1, Refreshed
  <2>3. LeaseFollows(lease, ref, v)
    <3> HIDE DEF v
    <3> QED
      BY <1>4, <2>2 DEF LeaseFollows, Exists
  <2> HIDE DEF v
  <2> QED
    BY <1>1, <1>2, <1>4, <2>2, <2>3 DEF v
<1> QED
  BY <1>3, <1>4 DEF SendAcquire

\* The labels at which the invariant says nothing of the call.
Free == {"permit", "validate", "reconcile", "load", "publish", "published", "settle",
         "recheck"}

LEMMA FreeFenced ==
    ASSUME Journal, Fenced, NEW h \in Handles, NEW label \in Free, Goto(h, label),
           UNCHANGED <<store, requests, sent, permit>>, Touched(call, call', h)
    PROVE  Fenced'
<1>1. FencedCall(lease, ref, label, call'[h], sent[<<h, "call">>])
  BY DEF FencedCall, Free
<1>2. label \in Labels
  BY DEF Free, Labels
<1> QED
  BY <1>1, <1>2, MoveFenced

LEMMA PermitFenced ==
    ASSUME Journal, Fenced, NEW h \in Handles, Permit(h)
    PROVE  Fenced'
<1>1. UNCHANGED store
  BY DEF Permit
<1>2. CASE Return(h) /\ UNCHANGED <<requests, sent, permit, fenced>>
  BY <1>1, <1>2, ReturnFenced
<1>3. CASE /\ Keep(h, "stamp", Stamp(permit[h].lease))
           /\ Goto(h, "validate")
           /\ UNCHANGED <<requests, sent, permit, fenced>>
  <2>1. Touched(call, call', h)
    BY <1>3, KeepTouched
  <2> QED
    BY <1>1, <1>3, <2>1, FreeFenced DEF Free
<1>4. CASE Fence(h) /\ Return(h) /\ UNCHANGED <<requests, sent>>
  BY <1>1, <1>4, ReturnFenced
<1>5. CASE /\ SendAcquire(h, call[h].now, call[h].id)
           /\ Goto(h, "acquire")
           /\ UNCHANGED <<call, permit, fenced>>
  <2>1. CallOK(ref, pc[h], call[h], sent[<<h, "call">>]) /\ pc[h] = "permit"
    BY Facts DEF Permit
  <2>2. call[h].id \in Nonces /\ call[h].now \in Nat
    BY <2>1 DEF CallOK, Calls
  <2>3. Touched(call, call', h)
    BY <1>5 DEF Touched
  <2> QED
    BY <1>1, <1>5, <2>2, <2>3, AcquireFenced
<1> QED
  BY <1>2, <1>3, <1>4, <1>5 DEF Permit

LEMMA ValidateFenced ==
    ASSUME Journal, Fenced, NEW h \in Handles, Validate(h)
    PROVE  Fenced'
<1>1. UNCHANGED <<store, requests, sent>>
  BY DEF Validate
<1>2. CASE Return(h) /\ UNCHANGED <<permit, fenced>>
  BY <1>1, <1>2, ReturnFenced
<1>3. CASE /\ Goto(h, AfterValidate(call[h].kind)) /\ UNCHANGED call
           /\ UNCHANGED <<permit, fenced>>
  <2>1. CallOK(ref, pc[h], call[h], sent[<<h, "call">>]) /\ pc[h] = "validate"
    BY Facts DEF Validate
  <2>2. call[h].kind \in OpKinds
    BY <2>1 DEF CallOK
  <2>3. AfterValidate(call[h].kind) \in Free
    BY <2>2 DEF AfterValidate, OpKinds, Free
  <2>4. Touched(call, call', h)
    BY <1>3 DEF Touched
  <2> QED
    BY <1>1, <1>3, <2>3, <2>4, FreeFenced
<1>4. CASE Fence(h) /\ Return(h)
  BY <1>1, <1>4, ReturnFenced
<1> QED
  BY <1>2, <1>3, <1>4 DEF Validate

LEMMA ReconcileFenced ==
    ASSUME Journal, Fenced, NEW h \in Handles, Reconcile(h)
    PROVE  Fenced'
<1>1. UNCHANGED <<store, requests, sent, permit>>
  BY DEF Reconcile, local
<1>2. CASE Return(h)
  BY <1>1, <1>2, ReturnFenced
<1>3. CASE /\ Goto(h, IF call[h].kind = "session" THEN "permit" ELSE "load")
           /\ UNCHANGED call
  BY <1>1, <1>3, FreeFenced DEF Free, Touched
<1> QED
  BY <1>2, <1>3 DEF Reconcile

LEMMA LoadFenced ==
    ASSUME Journal, Fenced, NEW h \in Handles, Load(h)
    PROVE  Fenced'
<1>1. UNCHANGED <<store, requests, sent, permit>>
  BY DEF Load, local
<1>2. CASE Return(h)
  BY <1>1, <1>2, ReturnFenced
<1>3. CASE /\ Keep(h, "seen", ref)
           /\ Goto(h, IF call[h].kind = "delete" THEN "permit" ELSE "publish")
  <2>1. Touched(call, call', h)
    BY <1>3, KeepTouched
  <2> QED
    BY <1>1, <1>3, <2>1, FreeFenced DEF Free
<1> QED
  BY <1>2, <1>3 DEF Load

\* A stamp that validates is the lease's own.
LEMMA Current ==
    ASSUME Journal, NEW h \in Handles, NEW stamp, NEW now, ValidActive(stamp, now)
    PROVE  Known(lease, stamp) /\ stamp = Stamp(lease.value) /\ lease.value.state = "active"
<1>1. lease.value \in Leases /\ Stamp(lease.value) = stamp /\ Exists(lease)
  BY Facts DEF ValidActive
<1>2. stamp.generation = lease.value.generation /\ stamp.generation \in Nat
  BY <1>1 DEF Stamp, Leases
<1> QED
  BY <1>1, <1>2, SMT DEF Known, Exists, ValidActive

LEMMA RecheckFenced ==
    ASSUME Journal, Fenced, NEW h \in Handles, Recheck(h)
    PROVE  Fenced'
<1>1. UNCHANGED <<store, requests, sent, permit>>
  BY DEF Recheck, local
<1>2. CASE Return(h)
  BY <1>1, <1>2, ReturnFenced
<1>3. CASE /\ ValidActive(call[h].stamp, call[h].now)
           /\ Goto(h, "create") /\ UNCHANGED call
  <2>1. Known(lease, call[h].stamp)
    BY <1>3, Current
  <2>2. FencedCall(lease, ref, "create", call'[h], sent[<<h, "call">>])
    BY <1>3, <2>1 DEF FencedCall
  <2> QED
    BY <1>1, <1>3, <2>2, MoveFenced DEF Labels, Touched
<1> QED
  BY <1>2, <1>3 DEF Recheck

LEMMA SettleFenced ==
    ASSUME Journal, Fenced, NEW h \in Handles, Settle(h)
    PROVE  Fenced'
BY ReturnFenced DEF Settle

\* A request for the ref made from the value f that the call has read.
LEMMA RefSendFenced ==
    ASSUME Journal, Fenced, NEW h \in Handles, NEW label \in {"published", "barred"},
           Goto(h, label), NEW f, f = Absent \/ SeenRef(ref, f), NEW e \in Events,
           Send(h, "call", "ref", f.token, RefValue(f, e, FALSE)),
           UNCHANGED <<store, permit, call>>,
           Known(lease, e.authority),
           f.token = ref.token /\ ref.token # 0 =>
              \/ e.authority = Authority(ref)
              \/ e.authority.generation = Authority(ref).generation + 1,
           label = "barred" =>
              /\ e.authority = Stamp(call[h].seen.lease)
              /\ pc[h] = "barrier"
    PROVE  Fenced'
<1> DEFINE v == RefValue(f, e, FALSE)
           r == [from |-> <<h, "call">>, object |-> "ref", expected |-> f.token, value |-> v]
<1>1. f = Absent \/ (f \in HeldRefs /\ Len(f.value.log) = f.token)
  BY DEF SeenRef
<1>2. v \in RefValues /\ ~v.tombstone /\ v.log[Len(v.log)] = e
  <2>1. PICK gone \in BOOLEAN : ~gone /\ v = RefValue(f, e, gone)
    OBVIOUS
  <2> HIDE DEF v
  <2>2. v \in RefValues /\ v.tombstone = gone /\ v.log[Len(v.log)] = e
    BY <1>1, <2>1, Continued, SMT
  <2> QED
    BY <2>1, <2>2
<1>3. f.token \in Nat
  BY <1>1, SMT DEF Absent, HeldRefs
<1>4. Send(h, "call", "ref", f.token, v)
  OBVIOUS
<1> HIDE DEF v
<1>5. r.object = "ref" /\ r.expected = f.token /\ r.value = v
  OBVIOUS
<1> HIDE DEF r
<1>6. LastAuthority(v) = e.authority
  BY <1>2 DEF LastAuthority
<1>7. FencedRequest(r)
  BY <1>2, <1>5, <1>6 DEF FencedRequest
<1>8. FencedCall(lease, ref, pc[h], call[h], sent[<<h, "call">>])
  BY DEF Fenced
<1>9. FencedCall(lease, ref, label, call'[h], r)
  BY <1>5, <1>6, <1>8 DEF FencedCall
<1>10. label \in Labels /\ Touched(call, call', h)
  BY DEF Labels, Touched
<1> QED
  BY <1>2, <1>3, <1>4, <1>7, <1>9, <1>10, SendFenced DEF r

LEMMA PublishFenced ==
    ASSUME Journal, Fenced, "delete" \notin Kinds, NEW h \in Handles, Publish(h)
    PROVE  Fenced'
<1> DEFINE seen == call[h].seen
           stamp == call[h].stamp
<1>1. CallOK(ref, pc[h], call[h], sent[<<h, "call">>])
  BY Facts
<1>2. pc[h] = "publish" /\ UNCHANGED <<store, permit>>
  BY DEF Publish, local
<1>3. /\ call[h].op \in OpIds /\ SeenRef(ref, seen) /\ call[h].now \in Nat
      /\ call[h].kind \in {"put", "session", "reset"}
  BY <1>1, <1>2 DEF CallOK, Calls
<1>4. CASE Return(h) /\ UNCHANGED <<requests, sent>>
  BY <1>2, <1>4, ReturnFenced
<1>5. ASSUME ValidActive(stamp, call[h].now), Authority(seen) = stamp,
             NEW target \in NewTargets(h),
             Send(h, "call", "ref", seen.token,
                  RefValue(seen, Event(call[h].op, target, stamp, call[h].now),
                           call[h].kind = "delete")),
             Goto(h, "published"), UNCHANGED call
      PROVE  Fenced'
  <2> DEFINE e == Event(call[h].op, target, stamp, call[h].now)
  <2>1. stamp \in Stamps
    BY <1>5, ActiveStamp
  <2>2. Known(lease, stamp)
    BY <1>5, Current
  <2>3. seen \in HeldRefs
    BY <1>3 DEF SeenRef
  <2>4. commits \subseteq Seq(OpIds) /\ Target(seen) \in Seq(OpIds)
    BY <2>3, Facts, TargetTyped DEF Rest
  <2>5. target \in Seq(OpIds)
    BY <1>3, <1>5, <2>4, SMT DEF NewTargets
  <2>6. e \in Events /\ e.authority = stamp
    BY <1>3, <2>1, <2>5, EventTyped DEF Event
  <2>7. (call[h].kind = "delete") = FALSE
    BY <1>3
  <2>8. Send(h, "call", "ref", seen.token, RefValue(seen, e, FALSE))
    BY <1>5, <2>7
  <2>9. seen.token = ref.token => e.authority = Authority(ref)
    BY <1>3, <1>5, <2>6 DEF SeenRef
  <2> HIDE DEF e, seen, stamp
  <2> QED
    BY <1>2, <1>3, <1>5, <2>2, <2>6, <2>8, <2>9, RefSendFenced
<1> QED
  BY <1>4, <1>5 DEF Publish

LEMMA CreateFenced ==
    ASSUME Journal, Fenced, NEW h \in Handles, Create(h)
    PROVE  Fenced'
<1> DEFINE base == IF call[h].kind = "init" THEN [token |-> 0, value |-> None] ELSE ref
<1>1. CallOK(ref, pc[h], call[h], sent[<<h, "call">>]) /\ StoreOK
  BY Facts
<1>2. pc[h] = "create" /\ UNCHANGED <<store, permit>>
  BY DEF Create, local
<1>3. /\ call[h].op \in OpIds /\ call[h].stamp \in Stamps /\ call[h].now \in Nat
      /\ call[h].kind \in {"create", "init"}
  BY <1>1, <1>2 DEF CallOK, Calls
<1>4. CASE Return(h) /\ UNCHANGED <<requests, sent>>
  BY <1>2, <1>4, ReturnFenced
<1>5. ASSUME call[h].kind = "create" => ~Live(ref),
             NEW target \in IF call[h].kind = "init" THEN {<<>>} ELSE commits,
             Send(h, "call", "ref", base.token,
                  RefValue(base, Event(call[h].op, target, call[h].stamp, call[h].now), FALSE)),
             Goto(h, "published"), UNCHANGED call
      PROVE  Fenced'
  <2> DEFINE e == Event(call[h].op, target, call[h].stamp, call[h].now)
  <2>1. base = Absent \/ SeenRef(ref, base)
    BY <1>1, SeenNow DEF Absent
  <2>2. ref.token # 0 => base.token # ref.token
    <3>1. CASE call[h].kind = "init"
      BY <3>1
    <3>2. CASE call[h].kind = "create"
      BY <1>5, <3>2 DEF Fenced, FencedStore, Live, Exists
    <3> QED
      BY <1>3, <3>1, <3>2
  <2> HIDE DEF base
  <2>4. commits \subseteq Seq(OpIds)
    BY Facts DEF Rest
  <2>5. <<>> \in Seq(OpIds)
    BY SMT
  <2>6. target \in Seq(OpIds)
    BY <1>5, <2>4, <2>5
  <2>7. e \in Events /\ e.authority = call[h].stamp
    BY <1>3, <2>6, EventTyped DEF Event
  <2>8. Known(lease, call[h].stamp)
    BY <1>2 DEF Fenced, FencedCall
  <2>9. Send(h, "call", "ref", base.token, RefValue(base, e, FALSE))
    BY <1>5
  <2> HIDE DEF e
  <2> QED
    BY <1>2, <1>5, <2>1, <2>2, <2>7, <2>8, <2>9, RefSendFenced
<1> QED
  BY <1>4, <1>5 DEF Create

LEMMA BarrierFenced ==
    ASSUME Journal, Fenced, NEW h \in Handles, Barrier(h)
    PROVE  Fenced'
<1> DEFINE stamp == Stamp(call[h].seen.lease)
           e == Event(call[h].op, Target(ref), stamp, call[h].now)
<1>1. /\ StoreOK /\ CallOK(ref, pc[h], call[h], sent[<<h, "call">>])
      /\ Exists(ref) => ref \in HeldRefs
  BY Facts
<1>2. pc[h] = "barrier" /\ UNCHANGED <<store, permit>>
  BY DEF Barrier, local
<1>3. /\ call[h] \in Calls /\ call[h].seen \in Permits /\ call[h].kind = "takeover"
      /\ call[h].op \in OpIds
  BY <1>1, <1>2 DEF CallOK
<1>4. CASE Return(h) /\ UNCHANGED <<requests, sent>>
  BY <1>2, <1>4, ReturnFenced
<1>5. CASE /\ Live(ref) /\ stamp.generation = Authority(ref).generation + 1
           /\ Send(h, "call", "ref", ref.token, RefValue(ref, e, FALSE))
           /\ Goto(h, "barred") /\ UNCHANGED call
  <2>1. ref \in HeldRefs
    BY <1>1, <1>5 DEF Live
  <2>2. Target(ref) \in Seq(OpIds)
    BY <2>1, TargetTyped
  <2>3. stamp \in Stamps
    BY <1>3, StampTyped DEF Permits
  <2>4. call[h].now \in Nat
    BY <1>3 DEF Calls
  <2>5. e \in Events /\ e.authority = stamp
    BY <1>3, <2>2, <2>3, <2>4, EventTyped DEF Event
  <2>6. Known(lease, stamp)
    BY <1>2 DEF Fenced, FencedCall
  <2>7. ref = Absent \/ SeenRef(ref, ref)
    BY <1>1, SeenNow
  <2> HIDE DEF e
  <2> QED
    BY <1>2, <1>5, <2>5, <2>6, <2>7, RefSendFenced
<1> QED
  BY <1>4, <1>5 DEF Barrier

LEMMA ActivateFenced ==
    ASSUME Journal, Fenced, NEW h \in Handles, Activate(h)
    PROVE  Fenced'
<1> DEFINE l == call[h].seen.lease
           n == call[h].seen.token
           v == [l EXCEPT !.state = "active", !.expires = call[h].now + LeaseTicks]
           r == [from |-> <<h, "call">>, object |-> "lease", expected |-> n, value |-> v]
<1>1. /\ CallOK(ref, pc[h], call[h], sent[<<h, "call">>])
      /\ Exists(ref) => ref \in HeldRefs
      /\ Exists(lease) => lease.value \in Leases
  BY Facts
<1>2. /\ pc[h] = "activate" /\ UNCHANGED <<store, permit, call>>
      /\ Goto(h, "active") /\ Send(h, "call", "lease", n, v)
  BY DEF Activate, local
<1>3. call[h] \in Calls /\ call[h].seen \in Permits
  BY <1>1, <1>2 DEF CallOK
<1>4. call[h].now + LeaseTicks \in Nat
  BY <1>3, PublicationBoundsAssumption, SMT DEF Calls
<1>5. l \in Leases /\ n \in Nat
  BY <1>3 DEF Permits
<1>6. /\ SeenLease(lease, call[h].seen) /\ Known(lease, Stamp(l))
      /\ ref.token # 0 /\ Authority(ref).generation >= l.generation
      /\ Exists(ref) => Known(lease, Authority(ref))
  BY <1>2 DEF Fenced, FencedStore, FencedCall
<1> HIDE DEF l
<1>7. v \in Leases /\ Stamp(v) = Stamp(l) /\ v.state = "active"
  BY <1>4, <1>5, Refreshed
<1>8. n = lease.token => LeaseFollows(lease, ref, v)
  <2>1. SUFFICES ASSUME n = lease.token PROVE LeaseFollows(lease, ref, v)
    OBVIOUS
  <2>2. l = lease.value
    BY <1>6, <2>1 DEF SeenLease, l
  <2>3. lease.token # 0 /\ Authority(ref).generation <= lease.value.generation
    BY <1>6 DEF Known, Exists
  <2>4. Authority(ref) \in Stamps
    BY <1>1, <1>6, TargetTyped DEF Exists
  <2>5. Authority(ref).generation \in Nat /\ lease.value.generation \in Nat
    BY <1>5, <2>2, <2>4 DEF Stamps, Leases
  <2>6. Authority(ref).generation = lease.value.generation
    BY <1>6, <2>2, <2>3, <2>5, SMT
  <2>7. Authority(ref) = Stamp(lease.value)
    BY <1>6, <2>6 DEF Known, Exists
  <2> HIDE DEF v
  <2> QED
    BY <1>6, <1>7, <2>2, <2>3, <2>7 DEF LeaseFollows
<1>9. r.object = "lease" /\ r.expected = n /\ r.value = v
  OBVIOUS
<1> HIDE DEF v, r
<1>10. FencedRequest(r)
  BY <1>6, <1>8, <1>9 DEF FencedRequest, SeenLease
<1>11. FencedCall(lease, ref, "active", call'[h], r)
  BY <1>7, <1>9 DEF FencedCall
<1> HIDE DEF n
<1> QED
  BY <1>2, <1>5, <1>7, <1>10, <1>11, SendFenced DEF r, Labels, Touched

LEMMA IdleFenced ==
    ASSUME Fenced, UNCHANGED <<store, requests, pc, call, sent, permit>>
    PROVE  Fenced'
<1>1. ref' = ref /\ lease' = lease
  BY DEF ref, lease
<1>2. FencedStore'
  BY <1>1 DEF Fenced, FencedStore, Known, Exists, Authority, LastEvent
<1>3. \A r \in requests' : FencedRequest(r)'
  BY <1>1 DEF Fenced, FencedRequest
<1>4. \A h \in Handles : FencedCall(lease, ref, pc[h], call[h], sent[<<h, "call">>])'
  BY <1>1 DEF Fenced, FencedCall
<1>5. \A h \in Handles : FencedPermit(lease, permit[h], sent[<<h, "renew">>])'
  BY <1>1 DEF Fenced, FencedPermit
<1> QED
  BY <1>2, <1>3, <1>4, <1>5 DEF Fenced

LEMMA CallFenced ==
    ASSUME Journal, Fenced, NEW h \in Handles, NEW kind, NEW op, Call(h, kind, op)
    PROVE  Fenced'
<1>1. UNCHANGED <<store, requests, sent, permit>> /\ Goto(h, FirstStep(kind))
  BY DEF Call, local
<1>2. Touched(call, call', h)
  BY DEF Call, Touched
<1>3. FirstStep(kind) \in Free
  BY DEF FirstStep, Free
<1> QED
  BY <1>1, <1>2, <1>3, FreeFenced

LEMMA OpenFenced ==
    ASSUME Journal, Fenced, NEW h \in Handles, Open(h) \/ Initialize(h)
    PROVE  Fenced'
<1>1. UNCHANGED <<store, permit>> /\ clock \in Nat /\ Fresh(h) \in Nonces
  BY Facts, FreshTyped DEF Open, Initialize, local
<1>2. CASE UNCHANGED <<requests, sent, pc, call>>
  BY <1>1, <1>2, IdleFenced
<1>3. CASE /\ SendAcquire(h, clock, Fresh(h)) /\ Goto(h, "acquire")
           /\ \E c : call' = [call EXCEPT ![h] = c]
  BY <1>1, <1>3, AcquireFenced DEF Touched
<1> QED
  BY <1>2, <1>3 DEF Open, Initialize

LEMMA BeginTakeoverFenced ==
    ASSUME Journal, Fenced, NEW h \in Handles, BeginTakeover(h)
    PROVE  Fenced'
<1>1. /\ Types /\ Rest /\ calls \in Nat /\ clock \in Nat
      /\ lease.token \in Nat
      /\ Exists(lease) => lease \in HeldLeases /\ lease.value \in Leases
  BY Facts
<1>2. UNCHANGED <<store, permit>> /\ Exists(lease)
  BY DEF BeginTakeover, local
<1>3. Fresh(h) \in Nonces /\ Fresh(h) \in OpIds
  BY <1>1, FreshTyped
<1>4. lease.value.generation \in Nat /\ lease.value.generation + 1 \in Nat \ {0}
  <2>1. lease.value.generation \in Nat
    BY <1>1, <1>2 DEF Leases
  <2> QED
    BY <2>1, SMT
<1>5. CASE /\ lease.value.state = "pending"
           /\ call' = [call EXCEPT ![h] =
                [NewCall(h, "takeover", Fresh(h)) EXCEPT
                    !.seen = [lease |-> lease.value, token |-> lease.token]]]
           /\ Goto(h, "barrier")
           /\ UNCHANGED <<requests, sent>>
  <2> DEFINE held == [lease |-> lease.value, token |-> lease.token]
             new == NewCall(h, "takeover", Fresh(h))
             c == [new EXCEPT !.seen = held]
  <2>1. held \in Permits /\ held.lease = lease.value /\ held.token = lease.token
    BY <1>1, <1>2 DEF Permits, Exists
  <2>2. c \in Calls /\ c.seen = held
    <3>1. new = NewCall(h, "takeover", Fresh(h))
      OBVIOUS
    <3> HIDE DEF held, new
    <3>2. new \in Calls
      BY <1>1, <1>3, <3>1, NewCallTyped
    <3> QED
      BY <2>1, <3>2 DEF Calls
  <2>3. call' = [call EXCEPT ![h] = c]
    BY <1>5
  <2> HIDE DEF c, held
  <2>4. call'[h] = c
    BY <1>1, <2>2, <2>3, Started
  <2>5. Touched(call, call', h)
    BY <2>3 DEF Touched
  <2>6. Stamp(lease.value).generation = lease.value.generation
    BY DEF Stamp
  <2>7. Known(lease, Stamp(lease.value))
    BY <1>2, <1>4, <2>6, SMT DEF Known, Exists
  <2>8. SeenLease(lease, held)
    BY <1>1, <2>1, SMT DEF SeenLease
  <2>9. FencedCall(lease, ref, "barrier", call'[h], sent[<<h, "call">>])
    BY <1>5, <2>1, <2>2, <2>4, <2>7, <2>8 DEF FencedCall
  <2> QED
    BY <1>2, <1>5, <2>5, <2>9, MoveFenced DEF Labels
<1>6. CASE /\ Send(h, "call", "lease", lease.token,
                   Lease(lease.value.generation + 1, h, Fresh(h), "pending", clock))
           /\ call' = [call EXCEPT ![h] = NewCall(h, "takeover", Fresh(h))]
           /\ Goto(h, "pending")
  <2> DEFINE v == Lease(lease.value.generation + 1, h, Fresh(h), "pending", clock)
             r == [from |-> <<h, "call">>, object |-> "lease", expected |-> lease.token,
                   value |-> v]
  <2>1. v \in Leases
    BY <1>1, <1>3, <1>4, LeaseTyped
  <2>2. v.state = "pending" /\ v.generation = lease.value.generation + 1
    BY DEF Lease
  <2>3. Send(h, "call", "lease", lease.token, v)
    BY <1>6
  <2> HIDE DEF v
  <2>4. r.object = "lease" /\ r.expected = lease.token /\ r.value = v
    OBVIOUS
  <2> HIDE DEF r
  <2>5. FencedRequest(r)
    BY <1>1, <1>2, <2>2, <2>4, SMT DEF FencedRequest, LeaseFollows, Exists
  <2>6. FencedCall(lease, ref, "pending", call'[h], r)
    BY <2>2, <2>4 DEF FencedCall
  <2> QED
    BY <1>1, <1>2, <1>6, <2>1, <2>3, <2>5, <2>6, SendFenced DEF r, Labels, Touched
<1> QED
  BY <1>5, <1>6 DEF BeginTakeover

LEMMA RenewFenced ==
    ASSUME Journal, Fenced, NEW h \in Handles, Renew(h)
    PROVE  Fenced'
<1>1. /\ Types /\ Rest /\ clock \in Nat
      /\ permit \in [Handles -> Permits \cup {None}]
      /\ sent \in [Tasks -> LeaseRequests \cup RefRequests \cup {None}]
      /\ <<h, "renew">> \in Tasks
  BY Facts DEF Types, Rest, Tasks
<1>2. UNCHANGED <<store, pc, call>> /\ permit[h] # None
  BY DEF Renew
<1>3. Touched(pc, pc', h) /\ Touched(call, call', h)
  BY <1>2 DEF Touched
<1>4. /\ FencedCall(lease, ref, pc[h], call[h], sent[<<h, "call">>])
      /\ FencedPermit(lease, permit[h], sent[<<h, "renew">>])
  BY DEF Fenced
<1>5. CASE Fence(h) /\ UNCHANGED <<requests, sent>>
  <2>1. permit' = [permit EXCEPT ![h] = None]
    BY <1>5 DEF Fence
  <2>2. permit'[h] = None /\ Touched(permit, permit', h)
    BY <1>1, <2>1 DEF Touched
  <2> QED
    BY <1>2, <1>3, <1>4, <1>5, <2>2, QuietFenced
<1>6. CASE /\ Send(h, "renew", "lease", permit[h].token,
                   [permit[h].lease EXCEPT !.expires = clock + LeaseTicks])
           /\ UNCHANGED <<permit, fenced>>
  <2> DEFINE l == permit[h].lease
             n == permit[h].token
             v == [l EXCEPT !.expires = clock + LeaseTicks]
             r == [from |-> <<h, "renew">>, object |-> "lease", expected |-> n, value |-> v]
  <2>1. l \in Leases /\ n \in Nat \ {0}
    BY <1>1, <1>2 DEF Permits
  <2>2. clock + LeaseTicks \in Nat
    BY <1>1, PublicationBoundsAssumption, SMT
  <2>3. l.state = "active" /\ n <= lease.token /\ (n = lease.token => l = lease.value)
    BY <1>2, <1>4 DEF FencedPermit, SeenLease
  <2>4. sent' = [sent EXCEPT ![<<h, "renew">>] = r] /\ requests' = requests \cup {r}
    BY <1>6 DEF Send
  <2> HIDE DEF l
  <2>5. v \in Leases /\ Stamp(v) = Stamp(l) /\ v.state = "active"
    BY <2>1, <2>2, <2>3, Refreshed
  <2> HIDE DEF v, n
  <2>6. r.object = "lease" /\ r.expected = n /\ r.value = v
    OBVIOUS
  <2> HIDE DEF r
  <2>7. FencedRequest(r)
    BY <2>1, <2>3, <2>5, <2>6 DEF FencedRequest, LeaseFollows
  <2>8. Touched(permit, permit', h)
    BY <1>6 DEF Touched
  <2>9. Others(h) /\ sent'[<<h, "call">>] = sent[<<h, "call">>]
    BY <1>1, <1>3, <2>4, <2>8, StepOthers
  <2>10. sent'[<<h, "renew">>] = r
    BY <1>1, <2>4
  <2>11. FencedPermit(lease, permit'[h], r)
    BY <1>4, <1>6, <2>5, <2>6 DEF FencedPermit
  <2> QED
    BY <1>2, <1>4, <2>4, <2>7, <2>9, <2>10, <2>11, LocalFenced
<1> QED
  BY <1>5, <1>6 DEF Renew

LEMMA CrashFenced ==
    ASSUME Journal, Fenced, NEW h \in Handles, Crash(h)
    PROVE  Fenced'
<1>1. Types /\ permit \in [Handles -> Permits \cup {None}]
  BY Facts DEF Rest
<1>2. UNCHANGED <<store, requests>> /\ permit' = [permit EXCEPT ![h] = None] /\ Return(h)
  BY DEF Crash
<1>3. /\ pc'[h] = "idle"
      /\ \A g \in Handles \ {h} : pc'[g] = pc[g] /\ call'[g] = call[g]
  BY <1>1, <1>2, Returned
<1>4. permit'[h] = None /\ \A g \in Handles \ {h} : permit'[g] = permit[g]
  BY <1>1, <1>2
<1>5. sent' = [t \in Tasks |-> IF t[1] = h THEN None ELSE sent[t]]
  BY DEF Crash
<1>6. ASSUME NEW g \in Handles, NEW task \in {"call", "renew"}
      PROVE  sent'[<<g, task>>] = IF g = h THEN None ELSE sent[<<g, task>>]
  BY <1>5 DEF Tasks
<1>7. Others(h)
  BY <1>3, <1>4, <1>6 DEF Others, Frame
<1>8. FencedCall(lease, ref, pc'[h], call'[h], sent'[<<h, "call">>])
  BY <1>3 DEF FencedCall
<1>9. FencedPermit(lease, permit'[h], sent'[<<h, "renew">>])
  BY <1>4, <1>6 DEF FencedPermit
<1> QED
  BY <1>2, <1>7, <1>8, <1>9, LocalFenced

-----------------------------------------------------------------------------
(* Steps of the store. *)

\* What a step of the store leaves of the invariant.
Carried ==
    /\ FencedStore'
    /\ \A r \in requests : FencedRequest(r)'
    /\ \A p, c, s : CallOK(ref, p, c, s) /\ FencedCall(lease, ref, p, c, s) =>
                       FencedCall(lease', ref', p, c, s)
    /\ \A m \in Permits \cup {None} : \A n :
          FencedPermit(lease, m, n) => FencedPermit(lease', m, n)

LEMMA LeaseReplaced ==
    ASSUME Journal, Fenced, ref' = ref, NEW v \in Leases, LeaseFollows(lease, ref, v),
           lease' = [token |-> lease.token + 1, value |-> v]
    PROVE  Carried
<1>1. /\ lease'.token = lease.token + 1 /\ lease'.value = v
      /\ lease = Absent \/ lease \in HeldLeases
      /\ ref = Absent \/ ref \in HeldRefs
  BY DEF Journal, StoreOK
<1>2. /\ lease.token \in Nat /\ lease'.token \in Nat
      /\ lease.token # 0 => lease.value \in Leases
  BY <1>1, SMT DEF Absent, HeldLeases
<1>3. /\ v.generation \in Nat
      /\ lease.token # 0 => lease.value.generation \in Nat
  BY <1>2 DEF Leases
<1>4. /\ Stamp(v).generation = v.generation
      /\ Stamp(lease.value).generation = lease.value.generation
  BY DEF Stamp
<1>5. ASSUME NEW a \in Stamps, Known(lease, a) PROVE Known(lease', a)
  <2>1. a.generation \in Nat
    BY DEF Stamps
  <2>2. lease.token # 0 /\ lease'.token # 0
    BY <1>1, <1>2, <1>5, SMT DEF Known
  <2>3. CASE Stamp(v) = Stamp(lease.value)
    BY <1>1, <1>4, <1>5, <2>2, <2>3 DEF Known
  <2>4. CASE v.generation = lease.value.generation + 1
    BY <1>1, <1>3, <1>5, <2>1, <2>2, <2>4, SMT DEF Known
  <2> QED
    BY <2>2, <2>3, <2>4 DEF LeaseFollows
<1>6. Exists(ref) => Authority(ref) \in Stamps
  BY <1>1, TargetTyped, SMT DEF Exists, Absent
<1>7. /\ Exists(ref) => ~ref.value.tombstone /\ Known(lease, Authority(ref))
      /\ lease.token # 0 /\ lease.value.state = "active" =>
            IF Exists(ref) THEN Authority(ref) = Stamp(lease.value)
                           ELSE lease.value.generation = 1
  BY DEF Fenced, FencedStore, Exists
<1>8. v.state = "active" =>
         IF Exists(ref) THEN Authority(ref) = Stamp(v) ELSE v.generation = 1
  <2>1. CASE lease.token = 0
    BY <1>7, <2>1 DEF LeaseFollows, Known
  <2>2. CASE lease.token # 0
    <3>1. lease.value.state \in {"active", "pending"}
      BY <1>2, <2>2 DEF Leases
    <3> QED
      BY <1>4, <1>7, <2>2, <3>1 DEF LeaseFollows, Exists
  <2> QED
    BY <2>1, <2>2
<1>9. FencedStore'
  <2>1. Exists(ref) => Known(lease', Authority(ref))
    BY <1>5, <1>6, <1>7
  <2>2. /\ Exists(ref') => ~ref'.value.tombstone /\ Known(lease', Authority(ref'))
        /\ Exists(lease') /\ lease'.value.state = "active" =>
              IF Exists(ref') THEN Authority(ref') = Stamp(lease'.value)
                              ELSE lease'.value.generation = 1
    BY <1>1, <1>7, <1>8, <2>1
  <2> QED
    BY <2>2 DEF FencedStore
<1>10. ASSUME NEW r \in requests PROVE FencedRequest(r)'
  <2>1. FencedRequest(r) /\ RequestOK(r)
    BY DEF Fenced, Journal
  <2>2. r.object = "lease" => r.expected \in Nat /\ r.expected < lease'.token
    <3>1. r.object = "lease" => r.expected \in Nat
      BY <2>1 DEF RequestOK, LeaseRequests, RefRequests
    <3>2. r.object = "lease" => r.expected <= lease.token
      BY <2>1 DEF FencedRequest
    <3> QED
      BY <1>1, <1>2, <3>1, <3>2, SMT
  <2>3. r.object = "ref" => LastAuthority(r.value) \in Stamps
    <3>1. r.object = "ref" => r.value \in RefValues
      BY <2>1 DEF RequestOK, LeaseRequests, RefRequests
    <3> QED
      BY <3>1, LastTyped DEF LastAuthority, Events
  <2>4. r.object = "ref" => Known(lease', LastAuthority(r.value))
    BY <1>5, <2>1, <2>3 DEF FencedRequest
  <2> QED
    BY <1>1, <1>2, <2>1, <2>2, <2>4, SMT DEF FencedRequest
<1>11. ASSUME NEW m \in Permits, SeenLease(lease, m) PROVE SeenLease(lease', m)
  <2>1. m.token \in Nat
    BY DEF Permits
  <2> QED
    BY <1>1, <1>2, <1>11, <2>1, SMT DEF SeenLease
<1>12. ASSUME NEW p, NEW c, NEW s, CallOK(ref, p, c, s), FencedCall(lease, ref, p, c, s)
       PROVE  FencedCall(lease', ref', p, c, s)
  <2>1. /\ p = "create" => c.stamp \in Stamps
        /\ p \in {"barrier", "barred", "activate"} =>
              c.seen \in Permits /\ Stamp(c.seen.lease) \in Stamps
    BY <1>12, StampTyped DEF CallOK, Permits
  <2>2. p = "create" => Known(lease', c.stamp)
    BY <1>5, <1>12, <2>1 DEF FencedCall
  <2>3. p \in {"barrier", "barred", "activate"} =>
           SeenLease(lease', c.seen) /\ Known(lease', Stamp(c.seen.lease))
    BY <1>5, <1>11, <1>12, <2>1 DEF FencedCall
  <2> QED
    BY <1>12, <2>2, <2>3 DEF FencedCall
<1>13. ASSUME NEW m \in Permits \cup {None}, NEW n, FencedPermit(lease, m, n)
       PROVE  FencedPermit(lease', m, n)
  BY <1>11, <1>13 DEF FencedPermit
<1> QED
  BY <1>9, <1>10, <1>12, <1>13 DEF Carried

LEMMA RefReplaced ==
    ASSUME Journal, Fenced, lease' = lease, NEW v \in RefValues, ~v.tombstone,
           Known(lease, LastAuthority(v)),
           ref.token # 0 =>
              \/ LastAuthority(v) = Authority(ref)
              \/ LastAuthority(v).generation = Authority(ref).generation + 1,
           ref' = [token |-> ref.token + 1, value |-> v]
    PROVE  Carried
<1> DEFINE a == LastAuthority(v)
<1>1. /\ ref'.token = ref.token + 1 /\ ref'.value = v
      /\ lease = Absent \/ lease \in HeldLeases
      /\ ref = Absent \/ ref \in HeldRefs
  BY DEF Journal, StoreOK
<1>2. /\ lease.token \in Nat /\ ref.token \in Nat /\ ref'.token # 0
      /\ lease.token # 0 => lease.value \in Leases /\ lease.value.generation \in Nat
  BY <1>1, SMT DEF Absent, HeldLeases, HeldRefs, Leases
<1>3. Authority(ref') = a
  BY <1>1 DEF Authority, LastEvent, LastAuthority
<1>4. a.generation \in Nat \ {0}
  BY LastTyped DEF LastAuthority, Events, Stamps
<1>5. ref.token # 0 => Authority(ref) \in Stamps /\ Authority(ref).generation \in Nat
  <2>1. ref.token # 0 => Authority(ref) \in Stamps
    BY <1>1, TargetTyped, SMT DEF Absent
  <2> QED
    BY <2>1 DEF Stamps
<1>6. /\ Exists(ref) => Known(lease, Authority(ref))
      /\ lease.token # 0 /\ lease.value.state = "active" =>
            IF Exists(ref) THEN Authority(ref) = Stamp(lease.value)
                           ELSE lease.value.generation = 1
  BY DEF Fenced, FencedStore, Exists
<1>7. Stamp(lease.value).generation = lease.value.generation
  BY DEF Stamp
<1> HIDE DEF a
<1>8. /\ lease.token # 0 /\ a.generation <= lease.value.generation
      /\ a.generation = lease.value.generation => a = Stamp(lease.value)
  BY DEF Known, a
<1>9. ref.token # 0 =>
         a = Authority(ref) \/ a.generation = Authority(ref).generation + 1
  BY DEF a
\* The authority of a ref that has it from the lease does not move.
<1>10. ref.token # 0 /\ Authority(ref) = Stamp(lease.value) => a = Stamp(lease.value)
  BY <1>2, <1>4, <1>7, <1>8, <1>9, SMT
<1>11. ref.token # 0 => a.generation >= Authority(ref).generation
  BY <1>4, <1>5, <1>9, SMT
<1>12. FencedStore'
  <2>1. lease.value.state = "active" => a = Stamp(lease.value)
    <3>1. CASE ref.token # 0
      BY <1>6, <1>8, <1>10, <3>1 DEF Exists
    <3>2. CASE ref.token = 0
      BY <1>2, <1>4, <1>6, <1>8, <3>2, SMT DEF Exists
    <3> QED
      BY <3>1, <3>2
  <2>2. Known(lease, a)
    BY DEF a
  <2>3. /\ Exists(ref') => ~ref'.value.tombstone /\ Known(lease', Authority(ref'))
        /\ Exists(lease') /\ lease'.value.state = "active" =>
              IF Exists(ref') THEN Authority(ref') = Stamp(lease'.value)
                              ELSE lease'.value.generation = 1
    BY <1>1, <1>2, <1>3, <2>1, <2>2 DEF Exists
  <2> QED
    BY <2>3 DEF FencedStore
<1>13. ASSUME NEW u, LeaseFollows(lease, ref, u) PROVE LeaseFollows(lease, ref', u)
  BY <1>2, <1>3, <1>10, <1>13 DEF LeaseFollows
<1>14. ASSUME NEW r \in requests PROVE FencedRequest(r)'
  <2>1. FencedRequest(r) /\ RequestOK(r)
    BY DEF Fenced, Journal
  <2>2. r.object = "ref" => r.expected # ref'.token
    <3>1. r.object = "ref" => r.expected \in Nat /\ r.expected <= ref.token
      BY <2>1 DEF RequestOK, LeaseRequests, RefRequests
    <3> QED
      BY <1>1, <1>2, <3>1, SMT
  <2> QED
    BY <1>13, <2>1, <2>2 DEF FencedRequest
<1>15. ASSUME NEW p, NEW c, NEW s, CallOK(ref, p, c, s), FencedCall(lease, ref, p, c, s)
       PROVE  FencedCall(lease', ref', p, c, s)
  <2>1. p = "activate" => c.seen.lease.generation \in Nat
    BY <1>15 DEF CallOK, Permits, Leases
  <2>2. p = "activate" => ref'.token # 0 /\ Authority(ref').generation >= c.seen.lease.generation
    <3>1. ASSUME p = "activate" PROVE a.generation >= c.seen.lease.generation
      <4>1. ref.token # 0 /\ Authority(ref).generation >= c.seen.lease.generation
        BY <1>15, <3>1 DEF FencedCall
      <4>2. a.generation \in Nat /\ a.generation >= Authority(ref).generation
        BY <1>4, <1>11, <4>1
      <4>3. Authority(ref).generation \in Nat /\ c.seen.lease.generation \in Nat
        BY <1>5, <2>1, <3>1, <4>1
      <4> QED
        BY <4>1, <4>2, <4>3, SMT
    <3> QED
      BY <1>2, <1>3, <3>1
  <2> QED
    BY <1>15, <2>2 DEF FencedCall
<1> QED
  BY <1>12, <1>14, <1>15 DEF Carried

LEMMA StoreFenced ==
    ASSUME Journal, Fenced, Carried, NEW h \in Handles, Others(h),
           requests' \subseteq requests,
           FencedCall(lease', ref', pc'[h], call'[h], sent'[<<h, "call">>]),
           FencedPermit(lease', permit'[h], sent'[<<h, "renew">>])
    PROVE  Fenced'
<1>1. ASSUME NEW g \in Handles
      PROVE  /\ FencedCall(lease', ref', pc'[g], call'[g], sent'[<<g, "call">>])
             /\ FencedPermit(lease', permit'[g], sent'[<<g, "renew">>])
  <2>1. CASE g # h
    <3>1. /\ FencedCall(lease, ref, pc[g], call[g], sent[<<g, "call">>])
          /\ FencedPermit(lease, permit[g], sent[<<g, "renew">>])
      BY DEF Fenced
    <3>2. /\ CallOK(ref, pc[g], call[g], sent[<<g, "call">>])
          /\ permit[g] \in Permits \cup {None}
      BY DEF Journal, Types, Rest
    <3>3. /\ pc'[g] = pc[g] /\ call'[g] = call[g] /\ permit'[g] = permit[g]
          /\ sent'[<<g, "call">>] = sent[<<g, "call">>]
          /\ sent'[<<g, "renew">>] = sent[<<g, "renew">>]
      BY <2>1 DEF Others, Frame
    <3> QED
      BY <3>1, <3>2, <3>3 DEF Carried
  <2> QED
    BY <2>1
<1>2. FencedStore' /\ \A r \in requests' : FencedRequest(r)'
  BY DEF Carried
<1>3. \A g \in Handles : FencedCall(lease, ref, pc[g], call[g], sent[<<g, "call">>])'
  BY <1>1
<1>4. \A g \in Handles : FencedPermit(lease, permit[g], sent[<<g, "renew">>])'
  BY <1>1
<1> QED
  BY <1>2, <1>3, <1>4 DEF Fenced

LEMMA KeptCarried ==
    ASSUME Fenced, UNCHANGED store
    PROVE  Carried
<1>1. ref' = ref /\ lease' = lease
  BY DEF ref, lease
<1>2. FencedStore'
  BY <1>1 DEF Fenced, FencedStore, Known, Exists, Authority, LastEvent
<1>3. \A r \in requests : FencedRequest(r)'
  BY <1>1 DEF Fenced, FencedRequest
<1> QED
  BY <1>1, <1>2, <1>3 DEF Carried

LEMMA ExecutionCarried ==
    ASSUME Journal, Fenced, NEW r \in requests,
           store' = [store EXCEPT ![r.object] = Executed(r)]
    PROVE  Carried
<1>1. StoreOK /\ RequestOK(r) /\ FencedRequest(r) /\ DOMAIN store = {"lease", "ref"}
  BY DEF Journal, StoreOK, Fenced
<1>2. r \in LeaseRequests \/ r \in RefRequests
  BY <1>1 DEF RequestOK
<1>3. CASE store[r.object].token # r.expected
  <2>1. r.object \in {"lease", "ref"}
    BY <1>2 DEF LeaseRequests, RefRequests
  <2>2. Executed(r) = store[r.object]
    BY <1>3 DEF Executed
  <2>3. store = [x \in {"lease", "ref"} |-> store[x]]
    BY <1>1 DEF StoreOK
  <2>4. store' = store
    BY <2>1, <2>2, <2>3
  <2> QED
    BY <2>4, KeptCarried
<1>4. CASE r \in LeaseRequests /\ store[r.object].token = r.expected
  <2>1. r.object = "lease" /\ r.value \in Leases
    BY <1>4 DEF LeaseRequests
  <2>2. r.expected = lease.token
    BY <1>4, <2>1 DEF lease
  <2>3. Executed(r) = [token |-> lease.token + 1, value |-> r.value]
    BY <1>4, <2>2 DEF Executed
  <2>4. lease' = Executed(r) /\ ref' = ref
    BY <1>1, <2>1 DEF lease, ref
  <2>5. LeaseFollows(lease, ref, r.value)
    BY <1>1, <2>1, <2>2 DEF FencedRequest
  <2> QED
    BY <2>1, <2>3, <2>4, <2>5, LeaseReplaced
<1>5. CASE r \in RefRequests /\ store[r.object].token = r.expected
  <2>1. r.object = "ref" /\ r.value \in RefValues
    BY <1>5 DEF RefRequests
  <2>2. r.expected = ref.token
    BY <1>5, <2>1 DEF ref
  <2>3. Executed(r) = [token |-> ref.token + 1, value |-> r.value]
    BY <1>5, <2>2 DEF Executed
  <2>4. ref' = Executed(r) /\ lease' = lease
    BY <1>1, <2>1 DEF lease, ref
  <2>5. /\ ~r.value.tombstone /\ Known(lease, LastAuthority(r.value))
        /\ ref.token # 0 =>
              \/ LastAuthority(r.value) = Authority(ref)
              \/ LastAuthority(r.value).generation = Authority(ref).generation + 1
    BY <1>1, <2>1, <2>2 DEF FencedRequest
  <2> QED
    BY <2>1, <2>3, <2>4, <2>5, RefReplaced
<1> QED
  BY <1>2, <1>3, <1>4, <1>5

LEMMA UnnoticedFenced ==
    ASSUME Journal, Fenced, NEW r \in requests, Unnoticed(r)
    PROVE  Fenced'
<1>1. /\ requests' \subseteq requests /\ UNCHANGED <<pc, call, sent, permit>>
      /\ store' = [store EXCEPT ![r.object] = Executed(r)]
  BY DEF Unnoticed, local
<1>2. Carried
  BY <1>1, ExecutionCarried
<1>3. ASSUME NEW g \in Handles
      PROVE  /\ FencedCall(lease', ref', pc'[g], call'[g], sent'[<<g, "call">>])
             /\ FencedPermit(lease', permit'[g], sent'[<<g, "renew">>])
  <2>1. /\ FencedCall(lease, ref, pc[g], call[g], sent[<<g, "call">>])
        /\ FencedPermit(lease, permit[g], sent[<<g, "renew">>])
    BY DEF Fenced
  <2>2. /\ CallOK(ref, pc[g], call[g], sent[<<g, "call">>])
        /\ permit[g] \in Permits \cup {None}
    BY DEF Journal, Types, Rest
  <2> QED
    BY <1>1, <1>2, <2>1, <2>2 DEF Carried
<1>4. FencedStore' /\ \A q \in requests' : FencedRequest(q)'
  BY <1>1, <1>2 DEF Carried
<1>5. \A g \in Handles : FencedCall(lease, ref, pc[g], call[g], sent[<<g, "call">>])'
  BY <1>3
<1>6. \A g \in Handles : FencedPermit(lease, permit[g], sent[<<g, "renew">>])'
  BY <1>3
<1> QED
  BY <1>4, <1>5, <1>6 DEF Fenced

-----------------------------------------------------------------------------
(* What a caller makes of the object it finds. *)

\* The permit of the lease that is installed.
LEMMA Granted ==
    ASSUME NEW m, m.lease = lease'.value, m.token = lease'.token, lease'.token \in Nat,
           lease'.value.state = "active", NEW old, NEW n, FencedPermit(lease, old, n)
    PROVE  FencedPermit(lease', m, n)
BY SMT DEF FencedPermit, SeenLease

LEMMA RenewalFenced ==
    ASSUME Journal, Fenced, Carried, NEW h \in Handles, sent[<<h, "renew">>] # None, StoreOK',
           requests' \subseteq requests,
           NEW object, object = store'[sent[<<h, "renew">>].object],
           ConcludeRenewal(h, object), sent' = [sent EXCEPT ![<<h, "renew">>] = None]
    PROVE  Fenced'
<1> DEFINE s == sent[<<h, "renew">>]
           held == [lease |-> object.value, token |-> object.token]
<1>1. /\ Types /\ permit \in [Handles -> Permits \cup {None}]
      /\ CallOK(ref, pc[h], call[h], sent[<<h, "call">>])
      /\ <<h, "renew">> \in Tasks
  BY Facts DEF Rest, Tasks
<1>2. UNCHANGED <<pc, call>>
  BY DEF ConcludeRenewal
<1>3. /\ FencedCall(lease, ref, pc[h], call[h], sent[<<h, "call">>])
      /\ FencedPermit(lease, permit[h], s)
  BY DEF Fenced
<1>4. sent'[<<h, "renew">>] = None
  BY <1>1, Answering
<1>5. permit' = [permit EXCEPT ![h] = held] \/ permit' = [permit EXCEPT ![h] = None]
  BY DEF ConcludeRenewal, Install, Fence
<1>6. Touched(pc, pc', h) /\ Touched(call, call', h) /\ Touched(permit, permit', h)
  BY <1>2, <1>5 DEF Touched
<1>7. Others(h) /\ sent'[<<h, "call">>] = sent[<<h, "call">>]
  BY <1>1, <1>6, StepOthers
<1>8. FencedCall(lease', ref', pc'[h], call'[h], sent'[<<h, "call">>])
  BY <1>1, <1>2, <1>3, <1>7 DEF Carried
<1>9. FencedPermit(lease', permit'[h], None)
  <2>1. CASE object.value = s.value
    <3>1. s \in LeaseRequests
      BY DEF Journal
    <3>2. object = lease' /\ lease' \in HeldLeases
      BY <1>1, <2>1, <3>1, Found
    <3>3. permit'[h] = held
      BY <1>1, <2>1 DEF ConcludeRenewal, Install
    <3>4. held.lease = lease'.value /\ held.token = lease'.token
      BY <3>2
    <3>5. lease'.value.state = "active" /\ lease'.token \in Nat
      BY <1>3, <2>1, <3>2 DEF FencedPermit, HeldLeases
    <3> HIDE DEF held
    <3> QED
      BY <3>3, <3>4, <3>5, SMT DEF FencedPermit, SeenLease
  <2>2. CASE object.value # s.value
    <3>1. permit'[h] = None
      BY <1>1, <2>2 DEF ConcludeRenewal, Fence
    <3> QED
      BY <3>1 DEF FencedPermit
  <2> QED
    BY <2>1, <2>2
<1> QED
  BY <1>4, <1>7, <1>8, <1>9, StoreFenced

LEMMA SucceededFenced ==
    ASSUME Journal, Fenced, Carried, NEW h \in Handles, sent[<<h, "call">>] # None, StoreOK',
           requests' \subseteq requests,
           NEW object, object = store'[sent[<<h, "call">>].object],
           object.value = sent[<<h, "call">>].value,
           Succeeded(h, object), sent' = [sent EXCEPT ![<<h, "call">>] = None]
    PROVE  Fenced'
<1> DEFINE s == sent[<<h, "call">>]
           c == call[h]
           held == [lease |-> object.value, token |-> object.token]
<1>1. /\ Types /\ permit \in [Handles -> Permits \cup {None}] /\ pc \in [Handles -> Labels]
      /\ CallOK(ref, pc[h], c, s)
      /\ <<h, "call">> \in Tasks
  BY Facts DEF Types, Rest, Tasks
<1>2. c \in Calls
  BY <1>1 DEF CallOK
<1>3. /\ FencedCall(lease, ref, pc[h], c, s)
      /\ FencedPermit(lease, permit[h], sent[<<h, "renew">>])
  BY DEF Fenced
<1>4. FencedPermit(lease', permit[h], sent[<<h, "renew">>])
  BY <1>1, <1>3 DEF Carried
<1>5. sent'[<<h, "call">>] = None
  BY <1>1, Answering
<1>6. /\ s \in LeaseRequests => object = lease' /\ lease' \in HeldLeases /\ held \in Permits
      /\ s \in RefRequests => ref' \in HeldRefs /\ ref'.value = s.value
  BY <1>1, Found
<1>7. \/ pc[h] \in {"acquire", "pending", "active"} /\ s \in LeaseRequests
      \/ pc[h] \in {"published", "barred"} /\ s \in RefRequests
  BY <1>1 DEF CallOK
<1>8. s \in LeaseRequests =>
         held.lease = lease'.value /\ held.token = lease'.token /\ lease'.token \in Nat \ {0}
  BY <1>6 DEF HeldLeases
<1> HIDE DEF held
\* Whatever label the call moves to.
<1>9. ASSUME NEW label, Goto(h, label), Touched(call, call', h), Touched(permit, permit', h),
             FencedCall(lease', ref', label, call'[h], None),
             FencedPermit(lease', permit'[h], sent[<<h, "renew">>])
      PROVE  Fenced'
  <2>1. pc' = [pc EXCEPT ![h] = label]
    BY <1>9 DEF Goto
  <2>2. pc'[h] = label /\ Touched(pc, pc', h)
    BY <1>1, <2>1 DEF Touched
  <2>3. Others(h) /\ sent'[<<h, "renew">>] = sent[<<h, "renew">>]
    BY <1>1, <1>9, <2>2, StepOthers
  <2> QED
    BY <1>5, <1>9, <2>2, <2>3, StoreFenced
<1>10. ASSUME NEW label \in {"idle", "recheck", "validate"}, Goto(h, label),
              Touched(call, call', h), Touched(permit, permit', h),
              FencedPermit(lease', permit'[h], sent[<<h, "renew">>])
       PROVE  Fenced'
  <2>1. FencedCall(lease', ref', label, call'[h], None)
    BY <1>10 DEF FencedCall
  <2> QED
    BY <1>9, <1>10, <2>1
<1>11. Return(h) => Goto(h, "idle") /\ Touched(call, call', h)
  BY DEF Return, Touched
<1>12. ASSUME Install(h, held), s \in LeaseRequests, s.value.state = "active"
       PROVE  /\ Touched(permit, permit', h)
              /\ FencedPermit(lease', permit'[h], sent[<<h, "renew">>])
  <2>1. permit' = [permit EXCEPT ![h] = held]
    BY <1>12 DEF Install
  <2>2. permit'[h] = held
    BY <1>1, <2>1
  <2>3. lease'.value.state = "active"
    BY <1>6, <1>12
  <2> QED
    BY <1>3, <1>8, <1>12, <2>1, <2>2, <2>3, Granted DEF Touched
<1>13. CASE pc[h] = "acquire"
  <2>1. s \in LeaseRequests /\ s.value.state = "active"
    BY <1>3, <1>7, <1>13 DEF FencedCall
  <2>2. /\ Install(h, held)
        /\ IF c.kind = "open" THEN Return(h)
           ELSE /\ Keep(h, "stamp", Stamp(held.lease))
                /\ Goto(h, IF c.kind = "init" THEN "recheck" ELSE "validate")
    BY <1>13 DEF Succeeded, held
  <2>3. /\ Touched(permit, permit', h)
        /\ FencedPermit(lease', permit'[h], sent[<<h, "renew">>])
    BY <1>12, <2>1, <2>2
  <2>4. Touched(call, call', h)
    BY <1>11, <2>2, KeepTouched
  <2>5. PICK label \in {"idle", "recheck", "validate"} : Goto(h, label)
    BY <1>11, <2>2
  <2> QED
    BY <1>10, <2>3, <2>4, <2>5
<1>14. CASE pc[h] = "published"
  <2>1. Return(h) /\ permit' = permit
    BY <1>14 DEF Succeeded
  <2> QED
    BY <1>4, <1>10, <1>11, <2>1 DEF Touched
<1>15. CASE pc[h] = "pending"
  <2>1. s \in LeaseRequests /\ s.value.state = "pending"
    BY <1>3, <1>7, <1>15 DEF FencedCall
  <2>2. Keep(h, "seen", held) /\ Goto(h, "barrier") /\ permit' = permit
    BY <1>15 DEF Succeeded, held, local
  <2>4. call'[h].seen = held
    BY <1>1, <1>2, <1>6, <2>1, <2>2, SeenKept
  <2>5. lease'.value.state = "pending" /\ lease'.value.generation \in Nat
    BY <1>6, <2>1 DEF HeldLeases, Leases
  <2>6. SeenLease(lease', held)
    BY <1>8, <2>1, SMT DEF SeenLease
  <2>7. Stamp(held.lease).generation = lease'.value.generation
    BY <1>8, <2>1 DEF Stamp
  <2>8. Known(lease', Stamp(held.lease))
    BY <1>8, <2>1, <2>5, <2>7, SMT DEF Known
  <2>9. FencedCall(lease', ref', "barrier", call'[h], None)
    BY <1>8, <2>1, <2>4, <2>5, <2>6, <2>8 DEF FencedCall
  <2>10. Touched(call, call', h) /\ Touched(permit, permit', h)
    BY <2>2, KeepTouched DEF Touched
  <2> QED
    BY <1>4, <1>9, <2>2, <2>9, <2>10
<1>16. CASE pc[h] = "barred"
  <2>1. Goto(h, "activate") /\ permit' = permit /\ call' = call
    BY <1>16 DEF Succeeded, local
  <2>2. FencedCall(lease', ref', "barred", c, s)
    BY <1>1, <1>3, <1>16 DEF Carried
  <2>3. ref' \in HeldRefs /\ ref'.value = s.value /\ LastAuthority(s.value) = Stamp(c.seen.lease)
    BY <1>3, <1>6, <1>7, <1>16 DEF FencedCall
  <2>4. Authority(ref') = Stamp(c.seen.lease)
    BY <2>3 DEF Authority, LastEvent, LastAuthority
  <2>5. Authority(ref').generation = c.seen.lease.generation
    BY <2>4, SMT DEF Stamp
  <2>6. c.seen.lease.generation \in Nat
    BY <1>1, <1>16 DEF CallOK, Permits, Leases
  <2>7. ref'.token # 0 /\ Authority(ref').generation >= c.seen.lease.generation
    <3>1. ref'.token # 0
      BY <2>3 DEF HeldRefs
    <3> QED
      BY <2>5, <2>6, <3>1, SMT
  <2>8. FencedCall(lease', ref', "activate", call'[h], None)
    BY <2>1, <2>2, <2>7 DEF FencedCall
  <2> QED
    BY <1>4, <1>9, <2>1, <2>8 DEF Touched
<1>17. CASE pc[h] = "active"
  <2>1. s \in LeaseRequests /\ s.value.state = "active"
    BY <1>3, <1>7, <1>17 DEF FencedCall
  <2>2. Install(h, held) /\ Return(h)
    BY <1>17 DEF Succeeded, held
  <2>3. /\ Touched(permit, permit', h)
        /\ FencedPermit(lease', permit'[h], sent[<<h, "renew">>])
    BY <1>12, <2>1, <2>2
  <2> QED
    BY <1>10, <1>11, <2>2, <2>3
<1> QED
  BY <1>7, <1>13, <1>14, <1>15, <1>16, <1>17

LEMMA FailedFenced ==
    ASSUME Journal, Fenced, Carried, NEW h \in Handles, requests' \subseteq requests,
           NEW unknown \in BOOLEAN, Failed(h, unknown),
           sent' = [sent EXCEPT ![<<h, "call">>] = None]
    PROVE  Fenced'
<1>1. /\ Types /\ permit \in [Handles -> Permits \cup {None}] /\ pc \in [Handles -> Labels]
  BY Facts DEF Types, Rest
<1>2. FencedPermit(lease, permit[h], sent[<<h, "renew">>])
  BY DEF Fenced
<1>3. FencedPermit(lease', permit[h], sent[<<h, "renew">>])
  BY <1>1, <1>2 DEF Carried
<1>4. permit' = permit \/ permit' = [permit EXCEPT ![h] = None]
  BY DEF Failed, Fence
<1>5. permit'[h] = permit[h] \/ permit'[h] = None
  BY <1>1, <1>4
<1>6. FencedPermit(lease', permit'[h], sent[<<h, "renew">>])
  BY <1>3, <1>5 DEF FencedPermit
<1>7. PICK label \in {"idle", "settle"} : pc' = [pc EXCEPT ![h] = label]
  BY DEF Failed, Return, Goto
<1>8. pc'[h] \in {"idle", "settle"}
  BY <1>1, <1>7
<1>9. Touched(pc, pc', h) /\ Touched(permit, permit', h)
  BY <1>4, <1>7 DEF Touched
<1>10. Touched(call, call', h)
  BY DEF Failed, Return, Touched
<1>11. Others(h) /\ sent'[<<h, "renew">>] = sent[<<h, "renew">>]
  BY <1>1, <1>9, <1>10, StepOthers
<1>12. FencedCall(lease', ref', pc'[h], call'[h], sent'[<<h, "call">>])
  BY <1>8 DEF FencedCall
<1> QED
  BY <1>6, <1>11, <1>12, StoreFenced

LEMMA ConcludeFenced ==
    ASSUME Journal, Fenced, Carried, NEW h \in Handles, NEW task \in {"call", "renew"},
           sent[<<h, task>>] # None, StoreOK', requests' \subseteq requests,
           NEW object, object = store'[sent[<<h, task>>].object], NEW unknown \in BOOLEAN,
           IF task = "call" THEN Conclude(h, object, unknown) ELSE ConcludeRenewal(h, object),
           sent' = [sent EXCEPT ![<<h, task>>] = None]
    PROVE  Fenced'
<1>1. CASE task = "renew"
  BY <1>1, RenewalFenced
<1>2. CASE task = "call"
  <2>1. CASE object.value = sent[<<h, "call">>].value
    BY <1>2, <2>1, SucceededFenced DEF Conclude
  <2>2. CASE object.value # sent[<<h, "call">>].value
    BY <1>2, <2>2, FailedFenced DEF Conclude
  <2> QED
    BY <2>1, <2>2
<1> QED
  BY <1>1, <1>2

LEMMA AnsweredFenced ==
    ASSUME Journal, Fenced, NEW h \in Handles, NEW task \in {"call", "renew"},
           Answered(h, task)
    PROVE  Fenced'
<1> DEFINE r == sent[<<h, task>>]
<1>1. /\ r # None /\ r \in requests /\ requests' \subseteq requests
      /\ store' = [store EXCEPT ![r.object] = Executed(r)]
      /\ sent' = [sent EXCEPT ![<<h, task>>] = None]
      /\ IF task = "call" THEN Conclude(h, Executed(r), FALSE)
                          ELSE ConcludeRenewal(h, Executed(r))
  BY DEF Answered
<1>2. StoreOK' /\ Executed(r) = store'[r.object]
  BY <1>1, Execution
<1>3. Carried
  BY <1>1, ExecutionCarried
<1> QED
  BY <1>1, <1>2, <1>3, ConcludeFenced

LEMMA LostFenced ==
    ASSUME Journal, Fenced, NEW h \in Handles, NEW task \in {"call", "renew"}, Lost(h, task)
    PROVE  Fenced'
<1> DEFINE r == sent[<<h, task>>]
<1>1. /\ r # None /\ requests' = requests /\ store' = store
      /\ sent' = [sent EXCEPT ![<<h, task>>] = None]
      /\ IF task = "call" THEN Conclude(h, store'[r.object], TRUE)
                          ELSE ConcludeRenewal(h, store'[r.object])
  BY DEF Lost
<1>2. ref' = ref /\ lease' = lease /\ StoreOK
  BY <1>1 DEF ref, lease, Journal
<1>3. StoreOK'
  BY <1>1, <1>2 DEF StoreOK
<1>4. Carried
  BY <1>1, KeptCarried
<1> QED
  BY <1>1, <1>3, <1>4, ConcludeFenced

-----------------------------------------------------------------------------
(* The second invariant holds of every behaviour. *)

LEMMA InitFenced ==
    ASSUME Init
    PROVE  Fenced
<1>1. lease = Absent /\ ref = Absent /\ requests = {}
  BY DEF Init, lease, ref, Absent
<1>2. FencedStore
  BY <1>1 DEF FencedStore, Exists, Absent
<1>3. \A h \in Handles : /\ pc[h] = "idle" /\ permit[h] = None
                         /\ sent[<<h, "renew">>] = None
  BY DEF Init, Tasks
<1>4. \A h \in Handles : FencedCall(lease, ref, pc[h], call[h], sent[<<h, "call">>])
  BY <1>3 DEF FencedCall
<1>5. \A h \in Handles : FencedPermit(lease, permit[h], sent[<<h, "renew">>])
  BY <1>3 DEF FencedPermit
<1> QED
  BY <1>1, <1>2, <1>4, <1>5 DEF Fenced

LEMMA StepFenced ==
    ASSUME Journal, Fenced, "delete" \notin Kinds, NEW h \in Handles, HandleStep(h)
    PROVE  Fenced'
<1>1. ASSUME NEW task \in {"call", "renew"}, Answered(h, task)
      PROVE  Fenced'
  BY <1>1, AnsweredFenced
<1> QED
  BY <1>1, PermitFenced, ValidateFenced, ReconcileFenced, LoadFenced, PublishFenced,
     RecheckFenced, CreateFenced, BarrierFenced, ActivateFenced, SettleFenced
     DEF HandleStep

LEMMA StartFenced ==
    ASSUME Journal, Fenced, NEW h \in Handles, HandleStart(h)
    PROVE  Fenced'
<1>1. ASSUME NEW kind \in Kinds, NEW op \in Ops \cup {Fresh(h)}, Call(h, kind, op)
      PROVE  Fenced'
  BY <1>1, CallFenced
<1>2. ASSUME OpenReadOnly(h) PROVE Fenced'
  BY <1>2, IdleFenced DEF OpenReadOnly
<1> QED
  BY <1>1, <1>2, OpenFenced, RenewFenced, BeginTakeoverFenced DEF HandleStart

LEMMA NextFenced ==
    ASSUME Journal, Fenced, "delete" \notin Kinds, [Next]_vars
    PROVE  Fenced'
<1>1. CASE Tick \/ UNCHANGED vars
  BY <1>1, IdleFenced DEF Tick, vars, local
<1>2. ASSUME NEW h \in Handles, NEW task \in {"call", "renew"}, Lost(h, task)
      PROVE  Fenced'
  BY <1>2, LostFenced
<1>3. ASSUME NEW r \in requests, Unnoticed(r)
      PROVE  Fenced'
  BY <1>3, UnnoticedFenced
<1> QED
  BY <1>1, <1>2, <1>3, StepFenced, StartFenced, CrashFenced DEF Next

\* Where no branch is deleted, the ref is under the authority of the active lease: a
\* takeover activates its lease only after the barrier has moved the ref to its stamp
\* (takeover_branch_writer), and no write of the writer it replaced can succeed from then on.
THEOREM ActiveLeaseOwnsTheRef ==
    ASSUME "delete" \notin Kinds
    PROVE  Spec => []ActiveLeaseOwnsRef
<1>1. Init => Fenced
  BY InitFenced
<1>2. Journal /\ Fenced /\ [Next]_vars => Fenced'
  BY NextFenced
<1>3. Fenced => ActiveLeaseOwnsRef
  BY DEF Fenced, FencedStore, ActiveLeaseOwnsRef
<1> QED
  BY <1>1, <1>2, <1>3, JournalInvariant, PTL DEF Spec
=============================================================================
