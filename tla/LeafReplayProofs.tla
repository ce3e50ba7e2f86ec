-------------------------- MODULE LeafReplayProofs --------------------------
(***************************************************************************)
(* Proofs about the emitter of a level and the writer that replays leaves, *)
(* for every format, every boundary rule and size function, every tree and *)
(* every batch.                                                            *)
(*                                                                         *)
(* The nodes of a level are its chunks: each ends at the first entry where *)
(* the rule hits or the byte cap is reached, counted from where it began.  *)
(* So they depend on the entries alone, and a rewrite that starts at a     *)
(* node, keeps its first entry and ends with nothing open leaves the nodes *)
(* before and after it as they were.  The rounds of the sequential writer  *)
(* are such rewrites, and so are the islands of the parallel one, which    *)
(* lie apart and hold each mutation once.                                  *)
(***************************************************************************)
EXTENDS LeafReplay, WellFoundedInduction, FiniteSetTheorems, TLAPS

\* Zenon is tried on every leaf; the leaves that need arithmetic or the extensionality
\* of functions, records and sequences cite SMT.
USE Zenon

-----------------------------------------------------------------------------
(* Induction over the naturals, for the set of numbers that have a property. *)

\* A set of naturals that is not empty has a least member.
LEMMA Least ==
    ASSUME NEW T \in SUBSET Nat, T # {}
    PROVE  \E n \in T : \A m \in T : n <= m
<1> DEFINE R == OpToRel(<, Nat)
<1>1. IsWellFoundedOn(R, Nat)
  BY NatLessThanWellFounded
<1>2. \A m, n \in Nat : m < n => <<m, n>> \in R
  BY SMT DEF OpToRel
<1> HIDE DEF R
<1>3. PICK n \in T : \A m \in T : <<m, n>> \notin R
  BY <1>1, WFMin
<1>4. ASSUME NEW m \in T PROVE n <= m
  <2>1. m \in Nat /\ n \in Nat
    OBVIOUS
  <2>2. ~ (m < n)
    BY <1>2, <1>3, <2>1
  <2> QED
    BY <2>1, <2>2, SMT
<1> QED
  BY <1>4

\* A set that holds 0, and the successor of each natural in it, holds every natural.
LEMMA Induction ==
    ASSUME NEW T, 0 \in T, \A n \in Nat : n \in T => n + 1 \in T
    PROVE  \A n \in Nat : n \in T
<1>1. SUFFICES ASSUME Nat \ T # {} PROVE FALSE
  OBVIOUS
<1>2. PICK n \in Nat \ T : \A m \in Nat \ T : n <= m
  BY <1>1, Least
<1>3. n # 0 /\ n - 1 \in Nat /\ n - 1 + 1 = n
  BY <1>2, SMT
<1>4. n - 1 \in T
  BY <1>2, <1>3, SMT
<1> QED
  BY <1>2, <1>3, <1>4, SMT

-----------------------------------------------------------------------------
(* The recursive functions are defined. *)

\* g is Pushes, up to the entry n.
PushedTo(f, level, em, s, g, n) ==
    g = [i \in 0 .. n |-> IF i = 0 THEN em ELSE Push(f, level, g[i - 1], s[i])]

\* The recursive definition of Pushes has a solution, up to every length.
LEMMA PushesExist ==
    ASSUME NEW f, NEW level, NEW em, NEW s
    PROVE  \A n \in Nat : \E g : PushedTo(f, level, em, s, g, n)
<1> DEFINE T == {n \in Nat : \E g : PushedTo(f, level, em, s, g, n)}
<1>1. 0 \in T
  <2>1. PushedTo(f, level, em, s, [i \in 0 .. 0 |-> em], 0)
    BY SMT DEF PushedTo
  <2> QED
    BY <2>1
<1>2. ASSUME NEW n \in Nat, n \in T PROVE n + 1 \in T
  <2>1. PICK g : PushedTo(f, level, em, s, g, n)
    BY <1>2
  <2> DEFINE h == [i \in 0 .. n + 1 |-> IF i = n + 1 THEN Push(f, level, g[n], s[n + 1]) ELSE g[i]]
  <2>2. \A i \in 0 .. n : g[i] = IF i = 0 THEN em ELSE Push(f, level, g[i - 1], s[i])
    BY <2>1 DEF PushedTo
  <2>3. PushedTo(f, level, em, s, h, n + 1)
    <3>1. \A i \in 0 .. n + 1 : h[i] = IF i = 0 THEN em ELSE Push(f, level, h[i - 1], s[i])
      BY <2>2, SMT
    <3> QED
      BY <3>1, SMT DEF PushedTo
  <2>4. n + 1 \in Nat
    BY SMT
  <2> QED
    BY <2>3, <2>4
<1> HIDE DEF T
<1>3. \A n \in Nat : n \in T
  BY <1>1, <1>2, Induction
<1> QED
  BY <1>3 DEF T

\* So Pushes satisfies its own definition.
LEMMA PushesDef ==
    ASSUME NEW f, NEW level, NEW em, NEW s, Len(s) \in Nat
    PROVE  PushedTo(f, level, em, s, Pushes(f, level, em, s), Len(s))
<1>1. \E g : PushedTo(f, level, em, s, g, Len(s))
  BY PushesExist
<1> QED
  BY <1>1 DEF Pushes, PushedTo

\* g is Candidates, up to the mutation n.
CandidatesTo(L, ms, g, n) ==
    g = [i \in 0 .. n |-> IF i = 0 THEN <<>> ELSE Joined(g[i - 1], TargetLeaf(L, ms[i].key), ms[i].key)]

\* g is Plans, up to the candidate n.
PlannedTo(cs, count, g, n) ==
    g = [i \in 0 .. n |-> IF i = 0 THEN <<>> ELSE Planned(g[i - 1], cs[i], count)]

-----------------------------------------------------------------------------
(* The least and the greatest of some numbers. *)

\* The greater of two numbers.
LEMMA MaxOfTwo ==
    ASSUME NEW a \in Int, NEW b \in Int
    PROVE  Max({a, b}) \in {a, b} /\ Max({a, b}) >= a /\ Max({a, b}) >= b
<1>1. \E x \in {a, b} : \A y \in {a, b} : x >= y
  <2>1. CASE a >= b
    <3>1. a >= a
      BY SMT
    <3> QED
      BY <2>1, <3>1
  <2>2. CASE ~ (a >= b)
    <3>1. b >= a /\ b >= b
      BY <2>2, SMT
    <3> QED
      BY <3>1
  <2> QED
    BY <2>1, <2>2
<1> QED
  BY <1>1 DEF Max

-----------------------------------------------------------------------------
(* The plan of the islands. *)

\* The mutations ms have keys in K and follow the order of the leaves they belong to.
Aimed(L, K, ms) ==
    /\ Len(L) \in Nat /\ Len(ms) \in Nat
    /\ \A k \in K : TargetLeaf(L, k) \in 1 .. Len(L)
    /\ \A p \in 1 .. Len(ms) : ms[p].key \in K
    /\ \A p, q \in 1 .. Len(ms) : p < q => TargetLeaf(L, ms[p].key) <= TargetLeaf(L, ms[q].key)

\* The sequence `new` is cs with x at the end, in place of its last member or after it.
Extends(S, cs, new, x) ==
    /\ new \in Seq(S) /\ Len(new) \in Nat /\ Len(new) > 0 /\ new[Len(new)] = x
    /\ \A j \in 1 .. Len(new) : j # Len(new) => j \in 1 .. Len(cs) /\ new[j] = cs[j]

\* Replacing the last member of a sequence.
LEMMA LastReplaced ==
    ASSUME NEW S, NEW cs \in Seq(S), NEW x \in S, Len(cs) > 0
    PROVE  /\ Extends(S, cs, [cs EXCEPT ![Len(cs)] = x], x)
           /\ Len([cs EXCEPT ![Len(cs)] = x]) = Len(cs)
<1> DEFINE n == Len(cs)
           new == [cs EXCEPT ![n] = x]
<1>1. n \in Nat /\ n \in 1 .. n /\ DOMAIN cs = 1 .. n /\ \A j \in 1 .. n : cs[j] \in S
  BY SMT
<1>2. DOMAIN new = 1 .. n /\ new[n] = x /\ \A j \in 1 .. n : j # n => new[j] = cs[j]
  BY <1>1
<1>3. new \in [1 .. n -> S]
  BY <1>1
<1> HIDE DEF new
<1>4. new \in Seq(S) /\ Len(new) = n
  BY <1>1, <1>3, SMT
<1> QED
  BY <1>1, <1>2, <1>4 DEF Extends, new

\* Appending a member to a sequence.
LEMMA LastAppended ==
    ASSUME NEW S, NEW cs \in Seq(S), NEW x \in S
    PROVE  Extends(S, cs, Append(cs, x), x) /\ Len(Append(cs, x)) = Len(cs) + 1
<1> DEFINE new == Append(cs, x)
<1>1. /\ new \in Seq(S) /\ Len(new) = Len(cs) + 1 /\ Len(cs) \in Nat /\ new[Len(cs) + 1] = x
      /\ \A j \in 1 .. Len(cs) : new[j] = cs[j]
  BY SMT
<1> HIDE DEF new
<1>2. /\ Len(new) \in Nat /\ Len(new) > 0
      /\ \A j \in 1 .. Len(new) : j # Len(new) => j \in 1 .. Len(cs)
  BY <1>1, SMT
<1> QED
  BY <1>1, <1>2 DEF Extends, new

\* A candidate: the leaves it reaches over and the keys of its mutations.
CandidateSet(L, K) == [first : 1 .. Len(L), last : 1 .. Len(L), keys : SUBSET K]

\* The mutations of a candidate fall into its leaves.
Spans(L, c) ==
    /\ c.first <= c.last
    /\ \A k \in c.keys : c.first <= TargetLeaf(L, k) /\ TargetLeaf(L, k) <= c.last

\* The candidates cs after i mutations: they hold these mutations, start in order, and
\* end before the leaf of the next mutation or in it.
CandidatesInv(L, K, ms, i, cs) ==
    /\ cs \in Seq(CandidateSet(L, K))
    /\ \A j \in 1 .. Len(cs) : Spans(L, cs[j])
    /\ \A j, l \in 1 .. Len(cs) : j < l => cs[j].first <= cs[l].first
    /\ \A p \in 1 .. i : \E j \in 1 .. Len(cs) : ms[p].key \in cs[j].keys
    /\ \A j \in 1 .. Len(cs) : \A p \in 1 .. Len(ms) : i <= p => cs[j].last <= TargetLeaf(L, ms[p].key)

\* The candidates hold all the mutations.
LEMMA CandidatesEnd ==
    ASSUME NEW L, NEW K, NEW ms, Aimed(L, K, ms)
    PROVE  CandidatesInv(L, K, ms, Len(ms), Candidates(L, ms)[Len(ms)])
\* One mutation more: it joins the last candidate or starts one.
<1>1. ASSUME NEW i \in Nat, i + 1 <= Len(ms), NEW cs, CandidatesInv(L, K, ms, i, cs)
      PROVE  CandidatesInv(L, K, ms, i + 1, Joined(cs, TargetLeaf(L, ms[i + 1].key), ms[i + 1].key))
  <2> USE <1>1
  <2> DEFINE S == CandidateSet(L, K)
             n == Len(cs)
             key == ms[i + 1].key
             leaf == TargetLeaf(L, key)
             new == Joined(cs, leaf, key)
  <2>1. /\ Len(L) \in Nat
        /\ Len(ms) \in Nat /\ i + 1 \in 1 .. Len(ms) /\ i + 1 \in Nat
        /\ \A p \in 1 .. Len(ms) : ms[p].key \in K
        /\ \A p \in 1 .. i + 1 : p \in 1 .. i \/ p = i + 1
        /\ \A p \in 1 .. Len(ms) : i + 1 <= p => i <= p /\ (p = i + 1 \/ i + 1 < p)
        /\ i <= i + 1
    <3>1. Len(L) \in Nat /\ Len(ms) \in Nat /\ \A p \in 1 .. Len(ms) : ms[p].key \in K
      BY DEF Aimed
    <3> QED
      BY <3>1, SMT
  <2>2. \A p \in 1 .. Len(ms) : TargetLeaf(L, ms[p].key) \in 1 .. Len(L)
    BY <2>1 DEF Aimed
  <2>3. \A p \in 1 .. Len(ms) : i + 1 <= p => leaf <= TargetLeaf(L, ms[p].key)
    <3> SUFFICES ASSUME NEW p \in 1 .. Len(ms), i + 1 <= p PROVE leaf <= TargetLeaf(L, ms[p].key)
      OBVIOUS
    <3>1. CASE p = i + 1
      <4>1. leaf \in 1 .. Len(L)
        BY <2>1, <2>2
      <4> HIDE DEF leaf
      <4>2. leaf <= leaf
        BY <2>1, <4>1, SMT
      <4> QED
        BY <3>1, <4>2 DEF leaf
    <3>2. CASE i + 1 < p
      BY <2>1, <3>2 DEF Aimed
    <3> QED
      BY <2>1, <3>1, <3>2
  <2>4. key \in K /\ leaf \in 1 .. Len(L)
    BY <2>1, <2>2
  <2>5. /\ cs \in Seq(S) /\ n \in Nat
        /\ \A j \in 1 .. n : cs[j] \in S /\ Spans(L, cs[j])
        /\ \A j, l \in 1 .. n : j < l => cs[j].first <= cs[l].first
        /\ \A p \in 1 .. i : \E j \in 1 .. n : ms[p].key \in cs[j].keys
        /\ \A j \in 1 .. n : cs[j].last <= leaf
    <3>1. /\ cs \in Seq(S)
          /\ \A j \in 1 .. n : Spans(L, cs[j])
          /\ \A j, l \in 1 .. n : j < l => cs[j].first <= cs[l].first
          /\ \A p \in 1 .. i : \E j \in 1 .. n : ms[p].key \in cs[j].keys
          /\ \A j \in 1 .. n : cs[j].last <= leaf
      BY <2>1 DEF CandidatesInv
    <3>2. n \in Nat /\ \A j \in 1 .. n : cs[j] \in S
      <4> HIDE DEF S
      <4> QED
        BY <3>1, SMT
    <3> QED
      BY <3>1, <3>2
  <2>6. ASSUME NEW c \in S
        PROVE  /\ c.first \in 1 .. Len(L) /\ c.last \in 1 .. Len(L) /\ c.keys \in SUBSET K
               /\ c.first \in Int /\ c.last \in Int
    <3>1. c.first \in 1 .. Len(L) /\ c.last \in 1 .. Len(L) /\ c.keys \in SUBSET K
      BY DEF CandidateSet
    <3> QED
      BY <2>1, <3>1, SMT
  <2>9. \A k \in K : TargetLeaf(L, k) \in Int
    <3>1. \A k \in K : TargetLeaf(L, k) \in 1 .. Len(L)
      BY DEF Aimed
    <3>2. \A a \in 1 .. Len(L) : a \in Int
      BY SMT
    <3> QED
      BY <3>1, <3>2
  <2> HIDE DEF S, leaf, key
  <2>7. ASSUME NEW x \in S, Extends(S, cs, new, x), x.last = leaf, Spans(L, x),
               \A j \in 1 .. n : j < Len(new) => cs[j].first <= x.first,
               key \in x.keys,
               \A j \in 1 .. n : j \in 1 .. Len(new) /\ (j # Len(new) \/ cs[j].keys \subseteq x.keys)
        PROVE  CandidatesInv(L, K, ms, i + 1, new)
    <3> DEFINE N == Len(new)
    <3>1. /\ new \in Seq(S) /\ N \in Nat /\ N > 0 /\ new[N] = x
          /\ \A j \in 1 .. N : j # N => j \in 1 .. n /\ new[j] = cs[j]
      BY <2>7 DEF Extends
    <3>2. N \in 1 .. N /\ \A j, l \in 1 .. N : j < l => j # N /\ j < N
      BY <3>1, SMT
    <3> HIDE DEF new, N
    <3>3. \A j \in 1 .. N : Spans(L, new[j])
      BY <2>5, <2>7, <3>1
    <3>4. ASSUME NEW j \in 1 .. N, NEW l \in 1 .. N, j < l PROVE new[j].first <= new[l].first
      <4>1. j # N /\ j \in 1 .. n /\ new[j] = cs[j] /\ j < N
        BY <3>1, <3>2, <3>4
      <4>2. CASE l = N
        BY <2>7, <3>1, <4>1, <4>2 DEF N
      <4>3. CASE l # N
        BY <2>5, <3>1, <3>4, <4>1, <4>3
      <4> QED
        BY <4>2, <4>3
    <3>5. ASSUME NEW p \in 1 .. i + 1 PROVE \E j \in 1 .. N : ms[p].key \in new[j].keys
      <4>1. CASE p = i + 1
        BY <2>7, <3>1, <3>2, <4>1 DEF key
      <4>2. CASE p \in 1 .. i
        <5>1. PICK j \in 1 .. n : ms[p].key \in cs[j].keys
          BY <2>5, <4>2
        <5>2. j \in 1 .. N /\ (j # N \/ cs[j].keys \subseteq x.keys)
          BY <2>7 DEF N
        <5>3. CASE j # N
          BY <3>1, <5>1, <5>2, <5>3
        <5>4. CASE j = N
          <6>1. new[j] = x /\ cs[j].keys \subseteq x.keys
            BY <3>1, <5>2, <5>4
          <6> QED
            BY <5>1, <5>2, <6>1
        <5> QED
          BY <5>3, <5>4
      <4> QED
        BY <2>1, <4>1, <4>2
    <3>6. ASSUME NEW j \in 1 .. N, NEW p \in 1 .. Len(ms), i + 1 <= p
          PROVE  new[j].last <= TargetLeaf(L, ms[p].key)
      <4>1. leaf <= TargetLeaf(L, ms[p].key) /\ TargetLeaf(L, ms[p].key) \in 1 .. Len(L)
        BY <2>2, <2>3, <3>6 DEF leaf, key
      <4>2. CASE j = N
        BY <2>7, <3>1, <4>1, <4>2
      <4>3. CASE j # N
        <5>1. new[j] = cs[j] /\ j \in 1 .. n
          BY <3>1, <4>3
        <5>2. cs[j].last <= leaf /\ cs[j].last \in Int
          BY <2>5, <2>6, <5>1
        <5> DEFINE a == cs[j].last
                   b == TargetLeaf(L, ms[p].key)
        <5>3. a <= leaf /\ a \in Int /\ leaf <= b /\ b \in 1 .. Len(L)
          BY <4>1, <5>2
        <5> HIDE DEF a, b
        <5>4. a <= b
          BY <2>1, <2>4, <5>3, SMT
        <5> QED
          BY <5>1, <5>4 DEF a, b
      <4> QED
        BY <4>2, <4>3
    <3> QED
      BY <3>1, <3>3, <3>4, <3>5, <3>6 DEF CandidatesInv, N, S
  <2>8. ASSUME n > 0, leaf <= cs[n].last + 1
        PROVE  CandidatesInv(L, K, ms, i + 1, new)
    <3> DEFINE c == cs[n]
               x == [first |-> c.first, last |-> Max({c.last, leaf}), keys |-> c.keys \cup {key}]
    <3>1. n \in 1 .. n /\ \A j \in 1 .. n : j < n => j # n
      BY <2>5, <2>8, SMT
    <3>2. c \in S /\ Spans(L, c) /\ c.last <= leaf
      BY <2>5, <3>1
    <3>3. /\ c.first \in 1 .. Len(L) /\ c.last \in 1 .. Len(L) /\ c.keys \in SUBSET K
          /\ c.first \in Int /\ c.last \in Int /\ leaf \in Int
      BY <2>1, <2>4, <2>6, <3>2, SMT
    <3>4. new = [cs EXCEPT ![n] = x]
      BY <2>8 DEF Joined
    <3> HIDE DEF c
    <3>5. Max({c.last, leaf}) = leaf
      <4>1. Max({c.last, leaf}) \in {c.last, leaf} /\ Max({c.last, leaf}) >= leaf
        BY <3>3, MaxOfTwo
      <4> QED
        BY <3>2, <3>3, <4>1, SMT
    <3>6. x.first = c.first /\ x.last = leaf /\ x.keys = c.keys \cup {key}
      BY <3>5
    <3>7. x \in S
      <4>1. c.keys \cup {key} \in SUBSET K
        BY <2>4, <3>3
      <4> QED
        BY <2>4, <3>3, <3>5, <4>1 DEF S, CandidateSet
    <3> HIDE DEF x
    <3>8. Spans(L, x)
      <4>1. c.first <= c.last /\ \A k \in c.keys : c.first <= TargetLeaf(L, k) /\ TargetLeaf(L, k) <= c.last
        BY <3>2 DEF Spans
      <4>2. c.first <= leaf /\ leaf <= leaf
        BY <3>2, <3>3, <4>1, SMT
      <4>3. ASSUME NEW k \in c.keys PROVE TargetLeaf(L, k) <= leaf
        <5> DEFINE a == TargetLeaf(L, k)
        <5>1. a \in Int /\ a <= c.last
          BY <2>9, <3>3, <4>1
        <5> HIDE DEF a
        <5>2. a <= leaf
          BY <3>2, <3>3, <5>1, SMT
        <5> QED
          BY <5>2 DEF a
      <4>4. TargetLeaf(L, key) = leaf
        BY DEF leaf
      <4> QED
        BY <3>6, <4>1, <4>2, <4>3, <4>4 DEF Spans
    <3>9. Extends(S, cs, new, x) /\ Len(new) = n
      <4>1. /\ Extends(S, cs, [cs EXCEPT ![Len(cs)] = x], x)
            /\ Len([cs EXCEPT ![Len(cs)] = x]) = Len(cs)
        BY <2>5, <2>8, <3>7, LastReplaced
      <4> QED
        BY <3>4, <4>1
    <3> HIDE DEF new
    <3>10. \A j \in 1 .. n : j < Len(new) => cs[j].first <= x.first
      BY <2>5, <3>1, <3>6, <3>9 DEF c
    <3>11. key \in x.keys
      BY <3>6
    <3>12. \A j \in 1 .. n : j \in 1 .. Len(new) /\ (j # Len(new) \/ cs[j].keys \subseteq x.keys)
      BY <3>6, <3>9 DEF c
    <3> QED
      BY <2>7, <3>6, <3>7, <3>8, <3>9, <3>10, <3>11, <3>12
  <2>10. ASSUME ~ (n > 0 /\ leaf <= cs[n].last + 1)
         PROVE  CandidatesInv(L, K, ms, i + 1, new)
    <3> DEFINE x == [first |-> leaf, last |-> leaf, keys |-> {key}]
    <3>1. new = Append(cs, x)
      BY <2>10 DEF Joined
    <3>2. x.first = leaf /\ x.last = leaf /\ x.keys = {key}
      OBVIOUS
    <3>3. x \in S
      <4>1. {key} \in SUBSET K
        BY <2>4
      <4> QED
        BY <2>4, <4>1 DEF S, CandidateSet
    <3> HIDE DEF x
    <3>4. Spans(L, x)
      <4>1. leaf <= leaf
        BY <2>1, <2>4, SMT
      <4> QED
        BY <3>2, <4>1 DEF Spans, leaf
    <3>5. Extends(S, cs, new, x) /\ Len(new) = n + 1
      <4>1. Extends(S, cs, Append(cs, x), x) /\ Len(Append(cs, x)) = Len(cs) + 1
        <5> HIDE DEF S
        <5> QED
          BY <2>5, <3>3, LastAppended
      <4> QED
        BY <3>1, <4>1
    <3> HIDE DEF new
    <3>6. ASSUME NEW j \in 1 .. n PROVE cs[j].first <= x.first
      <4>1. cs[j].first <= cs[j].last /\ cs[j].last <= leaf /\ cs[j].first \in Int /\ cs[j].last \in Int
        BY <2>5, <2>6 DEF Spans
      <4> DEFINE a == cs[j].first
                 b == cs[j].last
      <4>2. a <= b /\ b <= leaf /\ a \in Int /\ b \in Int
        BY <4>1
      <4> HIDE DEF a, b
      <4>3. a <= leaf
        BY <2>1, <2>4, <4>2, SMT
      <4> QED
        BY <3>2, <4>3 DEF a
    <3>7. \A j \in 1 .. n : j \in 1 .. n + 1 /\ j # n + 1
      BY <2>5, SMT
    <3>8. \A j \in 1 .. n : j \in 1 .. Len(new) /\ j # Len(new)
      BY <3>5, <3>7
    <3>9. key \in x.keys
      BY <3>2
    <3> QED
      BY <2>7, <3>2, <3>3, <3>4, <3>5, <3>6, <3>8, <3>9
  <2> QED
    BY <2>8, <2>10 DEF leaf, key
\* The recursive definition of Candidates has a solution, up to every mutation.
<1>2. \A n \in Nat : \E g : CandidatesTo(L, ms, g, n)
  <2> DEFINE T == {n \in Nat : \E g : CandidatesTo(L, ms, g, n)}
             z == <<>>
  <2>1. 0 \in T
    <3>1. CandidatesTo(L, ms, [i \in 0 .. 0 |-> z], 0)
      <4>1. \A i \in 0 .. 0 : i = 0
        BY SMT
      <4> QED
        BY <4>1 DEF CandidatesTo
    <3>2. 0 \in Nat
      BY SMT
    <3> QED
      BY <3>1, <3>2
  <2>2. ASSUME NEW n \in Nat, n \in T PROVE n + 1 \in T
    <3>1. PICK g : CandidatesTo(L, ms, g, n)
      BY <2>2
    <3> DEFINE x == Joined(g[n], TargetLeaf(L, ms[n + 1].key), ms[n + 1].key)
               h == [i \in 0 .. n + 1 |-> IF i = n + 1 THEN x ELSE g[i]]
    <3>2. \A i \in 0 .. n : g[i] = IF i = 0 THEN z ELSE Joined(g[i - 1], TargetLeaf(L, ms[i].key), ms[i].key)
      BY <3>1 DEF CandidatesTo
    <3>3. /\ n + 1 # 0 /\ (n + 1) - 1 = n /\ n # n + 1 /\ n \in 0 .. n + 1
          /\ \A i \in 0 .. n + 1 : i # n + 1 => i \in 0 .. n
          /\ \A i \in 0 .. n + 1 : i # n + 1 /\ i # 0 => i - 1 # n + 1 /\ i - 1 \in 0 .. n + 1
          /\ n + 1 \in Nat
      BY SMT
    <3> HIDE DEF z
    <3>4. ASSUME NEW i \in 0 .. n + 1
          PROVE  h[i] = IF i = 0 THEN z ELSE Joined(h[i - 1], TargetLeaf(L, ms[i].key), ms[i].key)
      <4>1. CASE i = n + 1
        <5>1. h[i - 1] = g[n] /\ h[i] = x
          BY <3>3, <4>1
        <5> QED
          BY <3>3, <4>1, <5>1
      <4>2. CASE i # n + 1 /\ i = 0
        BY <3>2, <3>3, <4>2
      <4>3. CASE i # n + 1 /\ i # 0
        <5>1. h[i] = g[i] /\ h[i - 1] = g[i - 1]
          BY <3>3, <4>3
        <5> QED
          BY <3>2, <3>3, <4>3, <5>1
      <4> QED
        BY <4>1, <4>2, <4>3
    <3>5. CandidatesTo(L, ms, h, n + 1)
      BY <3>4 DEF CandidatesTo, z
    <3> QED
      BY <3>3, <3>5
  <2> HIDE DEF T
  <2>3. \A n \in Nat : n \in T
    BY <2>1, <2>2, Induction
  <2> QED
    BY <2>3 DEF T
<1> DEFINE g == Candidates(L, ms)
           T == {n \in Nat : n <= Len(ms) => CandidatesInv(L, K, ms, n, g[n])}
<1>3. Len(ms) \in Nat
  BY DEF Aimed
<1>4. CandidatesTo(L, ms, g, Len(ms))
  <2>1. \E h : CandidatesTo(L, ms, h, Len(ms))
    BY <1>3, <1>2
  <2> QED
    BY <2>1 DEF Candidates, CandidatesTo
<1> HIDE DEF g
<1>5. \A i \in 0 .. Len(ms) :
          g[i] = IF i = 0 THEN <<>> ELSE Joined(g[i - 1], TargetLeaf(L, ms[i].key), ms[i].key)
  BY <1>4 DEF CandidatesTo
<1>6. 0 \in T
  <2>1. 0 \in 0 .. Len(ms) /\ 0 \in Nat /\ 1 .. 0 = {}
    BY <1>3, SMT
  <2>2. g[0] = <<>>
    BY <1>5, <2>1
  <2> DEFINE cs == <<>>
             S == CandidateSet(L, K)
  <2>3. cs \in Seq(S) /\ Len(cs) = 0
    BY SMT
  <2> HIDE DEF cs
  <2>4. CandidatesInv(L, K, ms, 0, cs)
    BY <2>1, <2>3 DEF CandidatesInv
  <2> QED
    BY <2>1, <2>2, <2>4 DEF cs
<1>7. ASSUME NEW n \in Nat, n \in T PROVE n + 1 \in T
  <2>1. /\ n + 1 \in Nat /\ n + 1 # 0 /\ (n + 1) - 1 = n
        /\ n + 1 <= Len(ms) => n <= Len(ms) /\ n + 1 \in 0 .. Len(ms)
    BY <1>3, SMT
  <2>2. ASSUME n + 1 <= Len(ms) PROVE CandidatesInv(L, K, ms, n + 1, g[n + 1])
    <3>1. CandidatesInv(L, K, ms, n, g[n])
      BY <1>7, <2>1, <2>2
    <3>2. g[n + 1] = Joined(g[n], TargetLeaf(L, ms[n + 1].key), ms[n + 1].key)
      <4>1. g[(n + 1) - 1] = g[n]
        BY <2>1
      <4> QED
        BY <1>5, <2>1, <2>2, <4>1
    <3>3. CandidatesInv(L, K, ms, n + 1, Joined(g[n], TargetLeaf(L, ms[n + 1].key), ms[n + 1].key))
      BY <2>2, <3>1, <1>1
    <3> QED
      BY <3>2, <3>3
  <2> QED
    BY <2>1, <2>2
<1> HIDE DEF T
<1>8. \A n \in Nat : n \in T
  BY <1>6, <1>7, Induction
<1>9. Len(ms) <= Len(ms)
  BY <1>3, SMT
<1> QED
  BY <1>3, <1>8, <1>9 DEF T, g

\* An island: the leaves from which it is replayed and at which it ends, and its keys.
IslandSet(L, K) == [from : 1 .. Len(L), stop : 1 .. Len(L), keys : SUBSET K]

\* The mutations of an island fall into its leaves, and none into its first unless that is
\* the first leaf of the tree.
Encloses(L, island) ==
    /\ island.from <= island.stop
    /\ \A k \in island.keys :
          /\ island.from <= TargetLeaf(L, k) /\ TargetLeaf(L, k) <= island.stop
          /\ island.from > 1 => island.from < TargetLeaf(L, k)

\* Islands lie apart, in order.
Apart(is) == \A a, b \in 1 .. Len(is) : a < b => is[a].stop < is[b].from

\* The first leaf of the island of a candidate.
Context(c) == Max({c.first - 2, 1})

\* The islands `is` after i candidates: they hold the mutations of these candidates, lie
\* apart, and start before the context of the next candidate or with it.
PlansInv(L, K, cs, i, is) ==
    /\ is \in Seq(IslandSet(L, K))
    /\ \A j \in 1 .. Len(is) : Encloses(L, is[j])
    /\ Apart(is)
    /\ \A p \in 1 .. i : \A k \in cs[p].keys : \E j \in 1 .. Len(is) : k \in is[j].keys
    /\ \A j \in 1 .. Len(is) : \A p \in 1 .. Len(cs) : i <= p => is[j].from <= Context(cs[p])

\* The context of a candidate: at most two leaves before it.
LEMMA ContextOf ==
    ASSUME NEW n \in Nat, NEW c, c.first \in 1 .. n
    PROVE  /\ Context(c) \in 1 .. n /\ Context(c) <= c.first
           /\ Context(c) > 1 => Context(c) = c.first - 2
           /\ c.first - 2 <= Context(c)
<1> DEFINE a == c.first
           m == Max({a - 2, 1})
<1>1. a \in 1 .. n
  OBVIOUS
<1> HIDE DEF a
<1>2. a - 2 \in Int /\ 1 \in Int /\ a \in Int
  BY <1>1, SMT
<1>3. m \in {a - 2, 1} /\ m >= a - 2 /\ m >= 1
  BY <1>2, MaxOfTwo
<1> HIDE DEF m
<1>4. m \in 1 .. n /\ m <= a /\ (m > 1 => m = a - 2) /\ a - 2 <= m
  BY <1>1, <1>2, <1>3, SMT
<1>5. Context(c) = m
  BY DEF Context, m, a
<1> QED
  BY <1>4, <1>5 DEF a

\* The islands hold the mutations of all the candidates.
LEMMA PlansEnd ==
    ASSUME NEW L, NEW K, NEW ms, Aimed(L, K, ms), NEW m, NEW cs, CandidatesInv(L, K, ms, m, cs)
    PROVE  PlansInv(L, K, cs, Len(cs), Plans(cs, Len(L))[Len(cs)])
\* One candidate more: its island touches the last one and becomes part of it, or is new.
<1>1. ASSUME NEW i \in Nat, i + 1 <= Len(cs), NEW is, PlansInv(L, K, cs, i, is)
      PROVE  PlansInv(L, K, cs, i + 1, Planned(is, cs[i + 1], Len(L)))
  <2> USE <1>1
  \* The lesser of two numbers.
  <2>1. ASSUME NEW a \in Int, NEW b \in Int
        PROVE  Min({a, b}) \in {a, b} /\ Min({a, b}) <= a /\ Min({a, b}) <= b
    <3>1. \E x \in {a, b} : \A y \in {a, b} : x <= y
      <4>1. CASE a <= b
        <5>1. a <= a
          BY SMT
        <5> QED
          BY <4>1, <5>1
      <4>2. CASE ~ (a <= b)
        <5>1. b <= a /\ b <= b
          BY <4>2, SMT
        <5> QED
          BY <5>1
      <4> QED
        BY <4>1, <4>2
    <3> QED
      BY <3>1 DEF Min
  <2> DEFINE S == IslandSet(L, K)
             n == Len(is)
             c == cs[i + 1]
             from == Context(c)
             stop == Min({c.last + Guard, Len(L)})
             new == Planned(is, c, Len(L))
  <2>2. Len(L) \in Nat /\ Len(cs) \in Nat
    <3>1. Len(L) \in Nat /\ cs \in Seq(CandidateSet(L, K))
      BY DEF Aimed, CandidatesInv
    <3>2. Len(cs) \in Nat
      BY <3>1, SMT
    <3> QED
      BY <3>1, <3>2
  <2>3. /\ i + 1 \in 1 .. Len(cs) /\ i <= i + 1
        /\ \A p \in 1 .. i + 1 : p \in 1 .. i \/ p = i + 1
        /\ \A p \in 1 .. Len(cs) : i + 1 <= p => i <= p /\ (p = i + 1 \/ i + 1 < p)
    BY <2>2, SMT
  <2>4. ASSUME NEW p \in 1 .. Len(cs)
        PROVE  /\ cs[p].first \in 1 .. Len(L) /\ cs[p].last \in 1 .. Len(L) /\ cs[p].keys \in SUBSET K
               /\ Spans(L, cs[p])
    <3>1. cs \in Seq(CandidateSet(L, K)) /\ Spans(L, cs[p])
      BY DEF CandidatesInv
    <3> DEFINE C == CandidateSet(L, K)
    <3>2. cs \in Seq(C)
      BY <3>1
    <3> HIDE DEF C
    <3>3. cs[p] \in C
      BY <3>2, SMT
    <3>4. cs[p].first \in 1 .. Len(L) /\ cs[p].last \in 1 .. Len(L) /\ cs[p].keys \in SUBSET K
      BY <3>3 DEF C, CandidateSet
    <3> QED
      BY <3>1, <3>4
  <2>5. /\ c.first \in 1 .. Len(L) /\ c.last \in 1 .. Len(L) /\ c.keys \in SUBSET K
        /\ c.first <= c.last
        /\ \A k \in c.keys : c.first <= TargetLeaf(L, k) /\ TargetLeaf(L, k) <= c.last
    BY <2>3, <2>4 DEF Spans
  <2>6. ASSUME NEW p \in 1 .. Len(cs), i + 1 <= p PROVE from <= Context(cs[p])
    <3> DEFINE q == Context(cs[p])
               a == c.first
               b == cs[p].first
    <3>1. /\ from \in 1 .. Len(L) /\ (from > 1 => from = a - 2)
          /\ q \in 1 .. Len(L) /\ b - 2 <= q
      BY <2>2, <2>4, <2>5, ContextOf
    <3>2. a \in 1 .. Len(L) /\ b \in 1 .. Len(L)
      BY <2>4, <2>5
    <3>3. i + 1 < p => a <= b
      BY <2>3 DEF CandidatesInv
    <3>4. p = i + 1 => a = b
      OBVIOUS
    <3>5. p = i + 1 \/ i + 1 < p
      BY <2>3, <2>6
    <3> HIDE DEF a, b, q, from
    <3>6. from <= q
      BY <2>2, <3>1, <3>2, <3>3, <3>4, <3>5, SMT
    <3> QED
      BY <3>6 DEF q, from
  <2>7. from \in 1 .. Len(L) /\ from <= c.first /\ (from > 1 => from = c.first - 2)
    BY <2>2, <2>5, ContextOf
  <2>8. stop \in 1 .. Len(L) /\ c.last <= stop
    <3> DEFINE b == c.last
    <3>1. b \in 1 .. Len(L)
      BY <2>5
    <3> HIDE DEF b
    <3>2. b + Guard \in Int /\ Len(L) \in Int /\ Guard \in Nat
      BY <2>2, <3>1, GuardTyped, SMT
    <3> DEFINE z == Min({b + Guard, Len(L)})
    <3>3. z \in {b + Guard, Len(L)} /\ z <= b + Guard /\ z <= Len(L)
      BY <3>2, <2>1
    <3> HIDE DEF z
    <3>4. z \in 1 .. Len(L) /\ b <= z
      BY <2>2, <3>1, <3>2, <3>3, SMT
    <3> QED
      BY <3>4 DEF z, b
  <2>9. ASSUME NEW k \in c.keys
        PROVE  /\ from <= TargetLeaf(L, k) /\ TargetLeaf(L, k) <= stop
               /\ from > 1 => from < TargetLeaf(L, k)
               /\ TargetLeaf(L, k) \in Int
    <3> DEFINE t == TargetLeaf(L, k)
               a == c.first
               b == c.last
    <3>1. t \in 1 .. Len(L)
      BY <2>5 DEF Aimed
    <3>2. a <= t /\ t <= b /\ a \in 1 .. Len(L) /\ b \in 1 .. Len(L) /\ b <= stop
          /\ from <= a /\ (from > 1 => from = a - 2)
      BY <2>5, <2>7, <2>8
    <3> HIDE DEF t, a, b, from, stop
    <3>3. from <= t /\ t <= stop /\ (from > 1 => from < t) /\ t \in Int
      BY <2>2, <2>7, <2>8, <3>1, <3>2, SMT
    <3> QED
      BY <3>3 DEF t
  <2>10. from <= stop
    <3> DEFINE a == c.first
               b == c.last
    <3>1. a <= b /\ a \in 1 .. Len(L) /\ b \in 1 .. Len(L) /\ b <= stop /\ from <= a
      BY <2>5, <2>7, <2>8
    <3> HIDE DEF a, b, from, stop
    <3> QED
      BY <2>2, <2>7, <2>8, <3>1, SMT
  <2>11. /\ is \in Seq(S) /\ n \in Nat
         /\ \A j \in 1 .. n : is[j] \in S /\ Encloses(L, is[j]) /\ is[j].from <= from
         /\ Apart(is)
         /\ \A p \in 1 .. i : \A k \in cs[p].keys : \E j \in 1 .. n : k \in is[j].keys
    <3>1. /\ is \in Seq(S)
          /\ \A j \in 1 .. n : Encloses(L, is[j]) /\ is[j].from <= from
          /\ Apart(is)
          /\ \A p \in 1 .. i : \A k \in cs[p].keys : \E j \in 1 .. n : k \in is[j].keys
      BY <2>3 DEF PlansInv
    <3>2. n \in Nat /\ \A j \in 1 .. n : is[j] \in S
      <4> HIDE DEF S
      <4> QED
        BY <3>1, SMT
    <3> QED
      BY <3>1, <3>2
  <2>12. ASSUME NEW x \in S
         PROVE  /\ x.from \in 1 .. Len(L) /\ x.stop \in 1 .. Len(L) /\ x.keys \in SUBSET K
    BY DEF IslandSet
  <2> HIDE DEF S, from, stop, c
  <2>13. ASSUME NEW x \in S, Extends(S, is, new, x), Encloses(L, x), x.from <= from,
                \A j \in 1 .. n : j < Len(new) => is[j].stop < x.from,
                c.keys \subseteq x.keys,
                \A j \in 1 .. n : j \in 1 .. Len(new) /\ (j # Len(new) \/ is[j].keys \subseteq x.keys)
         PROVE  PlansInv(L, K, cs, i + 1, new)
    <3> DEFINE N == Len(new)
    <3>1. /\ new \in Seq(S) /\ N \in Nat /\ N > 0 /\ new[N] = x
          /\ \A j \in 1 .. N : j # N => j \in 1 .. n /\ new[j] = is[j]
      BY <2>13 DEF Extends
    <3>2. N \in 1 .. N /\ \A j, l \in 1 .. N : j < l => j # N /\ j < N
      BY <3>1, SMT
    <3> HIDE DEF new, N
    <3>3. \A j \in 1 .. N : Encloses(L, new[j])
      BY <2>11, <2>13, <3>1
    <3>4. Apart(new)
      <4> SUFFICES ASSUME NEW j \in 1 .. N, NEW l \in 1 .. N, j < l PROVE new[j].stop < new[l].from
        BY DEF Apart, N
      <4>1. j # N /\ j \in 1 .. n /\ new[j] = is[j] /\ j < N
        BY <3>1, <3>2
      <4>2. CASE l = N
        BY <2>13, <3>1, <4>1, <4>2 DEF N
      <4>3. CASE l # N
        BY <2>11, <3>1, <4>1, <4>3 DEF Apart
      <4> QED
        BY <4>2, <4>3
    <3>5. ASSUME NEW p \in 1 .. i + 1, NEW k \in cs[p].keys PROVE \E j \in 1 .. N : k \in new[j].keys
      <4>1. CASE p = i + 1
        BY <2>13, <3>1, <3>2, <4>1 DEF c
      <4>2. CASE p \in 1 .. i
        <5>1. PICK j \in 1 .. n : k \in is[j].keys
          BY <2>11, <4>2
        <5>2. j \in 1 .. N /\ (j # N \/ is[j].keys \subseteq x.keys)
          BY <2>13 DEF N
        <5>3. CASE j # N
          BY <3>1, <5>1, <5>2, <5>3
        <5>4. CASE j = N
          <6>1. new[j] = x /\ is[j].keys \subseteq x.keys
            BY <3>1, <5>2, <5>4
          <6> QED
            BY <5>1, <5>2, <6>1
        <5> QED
          BY <5>3, <5>4
      <4> QED
        BY <2>3, <4>1, <4>2
    <3>6. ASSUME NEW j \in 1 .. N, NEW p \in 1 .. Len(cs), i + 1 <= p
          PROVE  new[j].from <= Context(cs[p])
      <4> DEFINE a == new[j].from
                 b == Context(cs[p])
      <4>1. a <= from /\ a \in 1 .. Len(L)
        <5>1. CASE j = N
          BY <2>12, <2>13, <3>1, <5>1
        <5>2. CASE j # N
          <6>1. new[j] = is[j] /\ j \in 1 .. n
            BY <3>1, <5>2
          <6> QED
            BY <2>11, <2>12, <6>1
        <5> QED
          BY <5>1, <5>2
      <4>2. from <= b /\ b \in 1 .. Len(L)
        <5>1. cs[p].first \in 1 .. Len(L)
          BY <2>4
        <5>2. b \in 1 .. Len(L)
          BY <2>2, <5>1, ContextOf
        <5> QED
          BY <2>6, <3>6, <5>2
      <4> HIDE DEF a, b
      <4>3. a <= b
        BY <2>2, <2>7, <4>1, <4>2, SMT
      <4> QED
        BY <4>3 DEF a, b
    <3> QED
      BY <3>1, <3>3, <3>4, <3>5, <3>6 DEF PlansInv, N, S
  <2>14. ASSUME n > 0, is[n].stop >= from
         PROVE  PlansInv(L, K, cs, i + 1, new)
    <3> DEFINE last == is[n]
               end == Max({last.stop, stop})
               x == [from |-> last.from, stop |-> end, keys |-> last.keys \cup c.keys]
    <3>1. n \in 1 .. n /\ \A j \in 1 .. n : j < n => j # n
      BY <2>11, <2>14, SMT
    <3>2. last \in S /\ Encloses(L, last) /\ last.from <= from
      BY <2>11, <3>1
    <3>3. last.from \in 1 .. Len(L) /\ last.stop \in 1 .. Len(L) /\ last.keys \in SUBSET K
      BY <2>12, <3>2
    <3>4. new = [is EXCEPT ![n] = x]
      BY <2>14 DEF Planned, from, stop, Context
    <3> DEFINE a == last.from
               b == last.stop
    <3>5. a \in 1 .. Len(L) /\ b \in 1 .. Len(L) /\ a <= from /\ a <= b
      BY <3>2, <3>3 DEF Encloses
    <3>6. end = Max({b, stop}) /\ x.from = a /\ x.stop = end /\ x.keys = last.keys \cup c.keys
      OBVIOUS
    <3> HIDE DEF a, b, end
    <3>7. end \in 1 .. Len(L) /\ b <= end /\ stop <= end
      <4>1. b \in Int /\ stop \in Int
        BY <2>2, <2>8, <3>5, SMT
      <4>2. end \in {b, stop} /\ end >= b /\ end >= stop
        BY <3>6, <4>1, MaxOfTwo
      <4> QED
        BY <2>2, <2>8, <3>5, <4>1, <4>2, SMT
    <3>8. x \in S
      <4>1. last.keys \cup c.keys \in SUBSET K
        BY <2>5, <3>3 DEF c
      <4> QED
        BY <3>3, <3>7, <4>1 DEF S, IslandSet
    <3> HIDE DEF x
    <3>9. Encloses(L, x)
      <4>1. a <= end
        BY <2>2, <3>5, <3>7, SMT
      <4>2. ASSUME NEW k \in last.keys
            PROVE  a <= TargetLeaf(L, k) /\ TargetLeaf(L, k) <= end /\ (a > 1 => a < TargetLeaf(L, k))
        <5> DEFINE t == TargetLeaf(L, k)
        <5>1. a <= t /\ t <= b /\ (a > 1 => a < t)
          BY <3>2 DEF Encloses, a, b
        <5>2. t \in 1 .. Len(L)
          BY <3>3 DEF Aimed
        <5> HIDE DEF t
        <5>3. t <= end
          BY <2>2, <3>5, <3>7, <5>1, <5>2, SMT
        <5> QED
          BY <5>1, <5>3 DEF t
      <4>3. ASSUME NEW k \in c.keys
            PROVE  a <= TargetLeaf(L, k) /\ TargetLeaf(L, k) <= end /\ (a > 1 => a < TargetLeaf(L, k))
        <5> DEFINE t == TargetLeaf(L, k)
        <5>1. from <= t /\ t <= stop /\ (from > 1 => from < t) /\ t \in Int
          BY <2>9
        <5> HIDE DEF t
        <5>2. a <= t /\ t <= end /\ (a > 1 => a < t)
          BY <2>2, <2>7, <2>8, <3>5, <3>7, <5>1, SMT
        <5> QED
          BY <5>2 DEF t
      <4> QED
        BY <3>6, <4>1, <4>2, <4>3 DEF Encloses
    <3>10. Extends(S, is, new, x) /\ Len(new) = n
      <4>1. /\ Extends(S, is, [is EXCEPT ![Len(is)] = x], x)
            /\ Len([is EXCEPT ![Len(is)] = x]) = Len(is)
        BY <2>11, <2>14, <3>8, LastReplaced
      <4> QED
        BY <3>4, <4>1
    <3> HIDE DEF new
    <3>11. \A j \in 1 .. n : j < Len(new) => is[j].stop < x.from
      BY <2>11, <3>1, <3>6, <3>10 DEF Apart, a
    <3>12. c.keys \subseteq x.keys /\ x.from <= from
      BY <3>5, <3>6
    <3>13. \A j \in 1 .. n : j \in 1 .. Len(new) /\ (j # Len(new) \/ is[j].keys \subseteq x.keys)
      BY <3>6, <3>10
    <3> QED
      BY <2>13, <3>8, <3>9, <3>10, <3>11, <3>12, <3>13
  <2>15. ASSUME ~ (n > 0 /\ is[n].stop >= from)
         PROVE  PlansInv(L, K, cs, i + 1, new)
    <3> DEFINE x == [from |-> from, stop |-> stop, keys |-> c.keys]
    <3>1. new = Append(is, x)
      BY <2>15 DEF Planned, from, stop, Context
    <3>2. x.from = from /\ x.stop = stop /\ x.keys = c.keys
      OBVIOUS
    <3>3. x \in S
      BY <2>5, <2>7, <2>8 DEF S, IslandSet, c
    <3> HIDE DEF x
    <3>4. Encloses(L, x)
      BY <2>9, <2>10, <3>2 DEF Encloses
    <3>5. Extends(S, is, new, x) /\ Len(new) = n + 1
      <4>1. Extends(S, is, Append(is, x), x) /\ Len(Append(is, x)) = Len(is) + 1
        BY <2>11, <3>3, LastAppended
      <4> QED
        BY <3>1, <4>1
    <3> HIDE DEF new
    <3>6. ASSUME NEW j \in 1 .. n PROVE is[j].stop < x.from
      <4> DEFINE a == is[j].stop
                 b == is[n].from
                 d == is[n].stop
      <4>1. n > 0 /\ n \in 1 .. n /\ (j = n \/ j < n)
        BY <2>11, SMT
      <4>2. ~ (d >= from) /\ a \in 1 .. Len(L) /\ b \in 1 .. Len(L) /\ d \in 1 .. Len(L) /\ b <= d
        BY <2>11, <2>12, <2>15, <4>1 DEF Encloses
      <4>3. j < n => a < b
        BY <2>11, <4>1 DEF Apart
      <4>4. j = n => a = d
        OBVIOUS
      <4> HIDE DEF a, b, d
      <4>5. a < from
        BY <2>2, <2>7, <4>1, <4>2, <4>3, <4>4, SMT
      <4> QED
        BY <3>2, <4>5 DEF a
    <3>7. \A j \in 1 .. n : j \in 1 .. n + 1 /\ j # n + 1
      BY <2>11, SMT
    <3>8. \A j \in 1 .. n : j \in 1 .. Len(new) /\ j # Len(new)
      BY <3>5, <3>7
    <3>9. c.keys \subseteq x.keys /\ x.from <= from
      <4>1. from <= from
        BY <2>2, <2>7, SMT
      <4> QED
        BY <3>2, <4>1
    <3> QED
      BY <2>13, <3>3, <3>4, <3>5, <3>6, <3>8, <3>9
  <2> QED
    BY <2>14, <2>15 DEF c
\* The recursive definition of Plans has a solution, up to every candidate.
<1>2. ASSUME NEW count
      PROVE  \A n \in Nat : \E g : PlannedTo(cs, count, g, n)
  <2> DEFINE T == {n \in Nat : \E g : PlannedTo(cs, count, g, n)}
             z == <<>>
  <2>1. 0 \in T
    <3>1. PlannedTo(cs, count, [i \in 0 .. 0 |-> z], 0)
      <4>1. \A i \in 0 .. 0 : i = 0
        BY SMT
      <4> QED
        BY <4>1 DEF PlannedTo
    <3>2. 0 \in Nat
      BY SMT
    <3> QED
      BY <3>1, <3>2
  <2>2. ASSUME NEW n \in Nat, n \in T PROVE n + 1 \in T
    <3>1. PICK g : PlannedTo(cs, count, g, n)
      BY <2>2
    <3> DEFINE x == Planned(g[n], cs[n + 1], count)
               h == [i \in 0 .. n + 1 |-> IF i = n + 1 THEN x ELSE g[i]]
    <3>2. \A i \in 0 .. n : g[i] = IF i = 0 THEN z ELSE Planned(g[i - 1], cs[i], count)
      BY <3>1 DEF PlannedTo
    <3>3. /\ n + 1 # 0 /\ (n + 1) - 1 = n /\ n # n + 1 /\ n \in 0 .. n + 1
          /\ \A i \in 0 .. n + 1 : i # n + 1 => i \in 0 .. n
          /\ \A i \in 0 .. n + 1 : i # n + 1 /\ i # 0 => i - 1 # n + 1 /\ i - 1 \in 0 .. n + 1
          /\ n + 1 \in Nat
      BY SMT
    <3> HIDE DEF z
    <3>4. ASSUME NEW i \in 0 .. n + 1
          PROVE  h[i] = IF i = 0 THEN z ELSE Planned(h[i - 1], cs[i], count)
      <4>1. CASE i = n + 1
        <5>1. h[i - 1] = g[n] /\ h[i] = x
          BY <3>3, <4>1
        <5> QED
          BY <3>3, <4>1, <5>1
      <4>2. CASE i # n + 1 /\ i = 0
        BY <3>2, <3>3, <4>2
      <4>3. CASE i # n + 1 /\ i # 0
        <5>1. h[i] = g[i] /\ h[i - 1] = g[i - 1]
          BY <3>3, <4>3
        <5> QED
          BY <3>2, <3>3, <4>3, <5>1
      <4> QED
        BY <4>1, <4>2, <4>3
    <3>5. PlannedTo(cs, count, h, n + 1)
      BY <3>4 DEF PlannedTo, z
    <3> QED
      BY <3>3, <3>5
  <2> HIDE DEF T
  <2>3. \A n \in Nat : n \in T
    BY <2>1, <2>2, Induction
  <2> QED
    BY <2>3 DEF T
<1> DEFINE g == Plans(cs, Len(L))
           T == {n \in Nat : n <= Len(cs) => PlansInv(L, K, cs, n, g[n])}
<1>3. Len(cs) \in Nat
  <2> DEFINE C == CandidateSet(L, K)
  <2>1. cs \in Seq(C)
    BY DEF CandidatesInv
  <2> HIDE DEF C
  <2> QED
    BY <2>1, SMT
<1>4. PlannedTo(cs, Len(L), g, Len(cs))
  <2>1. \E h : PlannedTo(cs, Len(L), h, Len(cs))
    BY <1>3, <1>2
  <2> QED
    BY <2>1 DEF Plans, PlannedTo
<1> HIDE DEF g
<1>5. \A i \in 0 .. Len(cs) : g[i] = IF i = 0 THEN <<>> ELSE Planned(g[i - 1], cs[i], Len(L))
  BY <1>4 DEF PlannedTo
<1>6. 0 \in T
  <2>1. 0 \in 0 .. Len(cs) /\ 0 \in Nat /\ 1 .. 0 = {}
    BY <1>3, SMT
  <2>2. g[0] = <<>>
    BY <1>5, <2>1
  <2> DEFINE is == <<>>
             S == IslandSet(L, K)
  <2>3. is \in Seq(S) /\ Len(is) = 0
    BY SMT
  <2> HIDE DEF is
  <2>4. PlansInv(L, K, cs, 0, is)
    BY <2>1, <2>3 DEF PlansInv, Apart
  <2> QED
    BY <2>1, <2>2, <2>4 DEF is
<1>7. ASSUME NEW n \in Nat, n \in T PROVE n + 1 \in T
  <2>1. /\ n + 1 \in Nat /\ n + 1 # 0 /\ (n + 1) - 1 = n
        /\ n + 1 <= Len(cs) => n <= Len(cs) /\ n + 1 \in 0 .. Len(cs)
    BY <1>3, SMT
  <2>2. ASSUME n + 1 <= Len(cs) PROVE PlansInv(L, K, cs, n + 1, g[n + 1])
    <3>1. PlansInv(L, K, cs, n, g[n])
      BY <1>7, <2>1, <2>2
    <3>2. g[n + 1] = Planned(g[n], cs[n + 1], Len(L))
      <4>1. g[(n + 1) - 1] = g[n]
        BY <2>1
      <4> QED
        BY <1>5, <2>1, <2>2, <4>1
    <3>3. PlansInv(L, K, cs, n + 1, Planned(g[n], cs[n + 1], Len(L)))
      BY <2>2, <3>1, <1>1
    <3> QED
      BY <3>2, <3>3
  <2> QED
    BY <2>1, <2>2
<1> HIDE DEF T
<1>8. \A n \in Nat : n \in T
  BY <1>6, <1>7, Induction
<1>9. Len(cs) <= Len(cs)
  BY <1>3, SMT
<1> QED
  BY <1>3, <1>8, <1>9 DEF T, g

\* The islands lie apart among the leaves, and each mutation has one of them.
Laid(L, K, is) ==
    /\ Len(L) \in Nat /\ Len(is) \in Nat /\ DOMAIN is = 1 .. Len(is)
    /\ \A k \in K : TargetLeaf(L, k) \in 1 .. Len(L)
    /\ \A j \in 1 .. Len(is) :
          /\ is[j].from \in 1 .. Len(L) /\ is[j].stop \in 1 .. Len(L) /\ is[j].keys \in SUBSET K
          /\ Encloses(L, is[j])
    /\ Apart(is)
    /\ \A k \in K : \E j \in 1 .. Len(is) : k \in is[j].keys

\* The planned islands are laid in this way.
LEMMA PlanLaid ==
    ASSUME NEW L, NEW K, NEW ms, Aimed(L, K, ms), \A k \in K : \E p \in 1 .. Len(ms) : ms[p].key = k,
           NEW cs, cs = Candidates(L, ms)[Len(ms)]
    PROVE  Laid(L, K, Plans(cs, Len(L))[Len(cs)])
<1> DEFINE is == Plans(cs, Len(L))[Len(cs)]
           S == IslandSet(L, K)
<1>1. CandidatesInv(L, K, ms, Len(ms), cs)
  BY CandidatesEnd
<1>2. PlansInv(L, K, cs, Len(cs), is)
  BY <1>1, PlansEnd
<1> HIDE DEF is
<1>3. is \in Seq(S) /\ Apart(is) /\ \A j \in 1 .. Len(is) : Encloses(L, is[j])
  BY <1>2 DEF PlansInv
<1> HIDE DEF S
<1>4. Len(is) \in Nat /\ DOMAIN is = 1 .. Len(is) /\ \A j \in 1 .. Len(is) : is[j] \in S
  BY <1>3, SMT
<1>5. \A j \in 1 .. Len(is) :
          is[j].from \in 1 .. Len(L) /\ is[j].stop \in 1 .. Len(L) /\ is[j].keys \in SUBSET K
  BY <1>4 DEF S, IslandSet
<1>6. ASSUME NEW k \in K PROVE \E j \in 1 .. Len(is) : k \in is[j].keys
  <2>1. PICK p \in 1 .. Len(ms) : ms[p].key = k
    OBVIOUS
  <2>2. PICK q \in 1 .. Len(cs) : k \in cs[q].keys
    BY <1>1, <2>1 DEF CandidatesInv
  <2> QED
    BY <1>2, <2>2 DEF PlansInv
<1>7. Laid(L, K, is)
  BY <1>3, <1>4, <1>5, <1>6 DEF Laid, Aimed
<1> QED
  BY <1>7 DEF is

\* The leaf of a mutation lies in the island of the mutation, and in no other.
LEMMA IslandTarget ==
    ASSUME NEW L, NEW K, NEW is, Laid(L, K, is), NEW k \in K, NEW j \in 1 .. Len(is),
           NEW l \in 1 .. Len(is), k \in is[l].keys
    PROVE  /\ l < j => TargetLeaf(L, k) < is[j].from
           /\ j < l => is[j].stop < TargetLeaf(L, k)
<1> DEFINE t == TargetLeaf(L, k)
           a == is[j].from
           b == is[j].stop
           c == is[l].from
           d == is[l].stop
<1>1. /\ Len(L) \in Nat /\ t \in 1 .. Len(L) /\ a \in 1 .. Len(L) /\ b \in 1 .. Len(L)
      /\ c \in 1 .. Len(L) /\ d \in 1 .. Len(L) /\ c <= t /\ t <= d
  BY DEF Laid, Encloses
<1>2. (l < j => d < a) /\ (j < l => b < c)
  BY DEF Laid, Apart
<1> HIDE DEF t, a, b, c, d
<1>3. (l < j => t < a) /\ (j < l => b < t)
  BY <1>1, <1>2, SMT
<1> QED
  BY <1>3 DEF t, a, b

\* The context of an island has no mutation of its own: what is due up to its first leaf
\* belongs to the islands before.
LEMMA BeforeIsland ==
    ASSUME NEW L, NEW K, NEW is, Laid(L, K, is), NEW i \in Nat, i + 1 \in 1 .. Len(is),
           is[i + 1].from > 1, NEW k \in K, TargetLeaf(L, k) <= is[i + 1].from
    PROVE  \E l \in 1 .. i : k \in is[l].keys
<1> DEFINE t == TargetLeaf(L, k)
           a == is[i + 1].from
           b == is[i + 1].stop
<1>1. PICK l \in 1 .. Len(is) : k \in is[l].keys
  BY DEF Laid
<1>2. /\ Len(L) \in Nat /\ Len(is) \in Nat /\ t \in 1 .. Len(L) /\ a \in 1 .. Len(L)
      /\ b \in 1 .. Len(L) /\ a <= b
  BY DEF Laid, Encloses
<1>3. i + 1 < l => b < t
  BY <1>1, IslandTarget
<1>4. l = i + 1 => a < t
  BY <1>1 DEF Laid, Encloses
<1>5. t <= a
  OBVIOUS
<1> HIDE DEF t, a, b
<1>6. l \in 1 .. i
  BY <1>2, <1>3, <1>4, <1>5, SMT
<1> QED
  BY <1>1, <1>6

-----------------------------------------------------------------------------
(* Sequences. *)

\* The entries a + 1 .. b of a sequence.
LEMMA SubTyped ==
    ASSUME NEW E, NEW s \in Seq(E), NEW a \in Nat, NEW b \in 0 .. Len(s), a <= b
    PROVE  /\ SubSeq(s, a + 1, b) \in Seq(E)
           /\ Len(SubSeq(s, a + 1, b)) = b - a
           /\ \A i \in 1 .. b - a : SubSeq(s, a + 1, b)[i] = s[a + i]
BY SMT

\* A stretch grows by the entry after it.
LEMMA SubAppend ==
    ASSUME NEW E, NEW s \in Seq(E), NEW a \in Nat, NEW b \in Nat, a <= b, b + 1 \in 1 .. Len(s)
    PROVE  Append(SubSeq(s, a + 1, b), s[b + 1]) = SubSeq(s, a + 1, b + 1)
BY SMT

\* Appending leaves the prefixes as they were.
LEMMA SubPrefix ==
    ASSUME NEW E, NEW s \in Seq(E), NEW e \in E, NEW k \in 0 .. Len(s)
    PROVE  SubSeq(Append(s, e), 1, k) = SubSeq(s, 1, k)
BY SMT

\* Sequences with the same entries are the same.
LEMMA SameSeq ==
    ASSUME NEW E, NEW x \in Seq(E), NEW y \in Seq(E), Len(x) = Len(y),
           \A i \in 1 .. Len(x) : x[i] = y[i]
    PROVE  x = y
BY SMT

\* Two stretches that meet are one.
LEMMA SubJoin ==
    ASSUME NEW E, NEW s \in Seq(E), NEW p \in 0 .. Len(s), NEW q \in 0 .. Len(s), p <= q
    PROVE  SubSeq(s, 1, p) \o SubSeq(s, p + 1, q) = SubSeq(s, 1, q)
\* The entries of a concatenation.
<1>1. ASSUME NEW x \in Seq(E), NEW y \in Seq(E)
      PROVE  /\ x \o y \in Seq(E) /\ Len(x \o y) = Len(x) + Len(y)
             /\ \A i \in 1 .. Len(x) : (x \o y)[i] = x[i]
             /\ \A i \in 1 .. Len(y) : (x \o y)[Len(x) + i] = y[i]
  BY SMT
<1> DEFINE x == SubSeq(s, 1, p)
           y == SubSeq(s, p + 1, q)
           z == SubSeq(s, 1, q)
           u == x \o y
<1>2. p \in Nat /\ q \in Nat /\ Len(s) \in Nat
  BY SMT
<1>3. x \in Seq(E) /\ Len(x) = p /\ \A i \in 1 .. p : x[i] = s[i]
  BY <1>2, SMT
<1>4. y \in Seq(E) /\ Len(y) = q - p /\ \A i \in 1 .. q - p : y[i] = s[p + i]
  BY <1>2, SubTyped
<1>5. z \in Seq(E) /\ Len(z) = q /\ \A i \in 1 .. q : z[i] = s[i]
  BY <1>2, SMT
<1> HIDE DEF x, y, z
<1>6. /\ u \in Seq(E) /\ Len(u) = Len(x) + Len(y)
      /\ \A i \in 1 .. p : u[i] = x[i]
      /\ \A i \in 1 .. q - p : u[p + i] = y[i]
  <2>1. /\ x \o y \in Seq(E) /\ Len(x \o y) = Len(x) + Len(y)
        /\ \A i \in 1 .. Len(x) : (x \o y)[i] = x[i]
        /\ \A i \in 1 .. Len(y) : (x \o y)[Len(x) + i] = y[i]
    <3>1. x \in Seq(E) /\ y \in Seq(E)
      BY <1>3, <1>4
    <3> QED
      BY <3>1, <1>1, SMT
  <2> QED
    BY <1>3, <1>4, <2>1
<1> HIDE DEF u
<1>7. Len(u) = q
  BY <1>2, <1>3, <1>4, <1>6, SMT
<1>8. ASSUME NEW i \in 1 .. q PROVE u[i] = z[i]
  <2>1. CASE i <= p
    <3>1. i \in 1 .. p
      BY <1>2, <2>1, SMT
    <3> QED
      BY <1>3, <1>5, <1>6, <3>1
  <2>2. CASE ~ (i <= p)
    <3>1. i - p \in 1 .. q - p /\ p + (i - p) = i
      BY <1>2, <2>2, SMT
    <3>2. u[p + (i - p)] = s[p + (i - p)]
      BY <1>4, <1>6, <3>1
    <3> QED
      BY <1>5, <3>1, <3>2
  <2> QED
    BY <2>1, <2>2
<1>9. u = z
  BY <1>5, <1>6, <1>7, <1>8, SameSeq
<1> QED
  BY <1>9 DEF u, x, y, z

\* Concatenation of the three is associative.
Associates(x, y, z) == (x \o y) \o z = x \o (y \o z)

\* Concatenation is associative.
LEMMA Associative ==
    ASSUME NEW E, NEW x \in Seq(E), NEW y \in Seq(E), NEW z \in Seq(E)
    PROVE  Associates(x, y, z)
BY SMT DEF Associates

\* Appending to the concatenation is appending to its second part.
AppendsLast(d, s, e) == Append(d \o s, e) = d \o Append(s, e)

\* Appending to a concatenation appends to its second part.
LEMMA AppendConcat ==
    ASSUME NEW E, NEW d \in Seq(E), NEW s \in Seq(E), NEW e \in E
    PROVE  AppendsLast(d, s, e)
BY SMT DEF AppendsLast

-----------------------------------------------------------------------------
(* The emitter. *)

\* The closed nodes of a level, and an emitter, over entries from E.
Nodes(level, E) == {Node(level, c) : c \in Seq(E)}

Emitters(level, E) == [done : Seq(Nodes(level, E)), open : Seq(E)]

\* The emitter em with the nodes d closed before its own.
Behind(d, em) == [done |-> d \o em.done, open |-> em.open]

\* Without entries the emitter stays as it is.
LEMMA PushNone ==
    ASSUME NEW f, NEW level, NEW em
    PROVE  PushAll(f, level, em, <<>>) = em
<1> DEFINE z == <<>>
           g == Pushes(f, level, em, z)
<1>1. Len(z) = 0 /\ 0 \in Nat /\ 0 \in 0 .. 0
  BY SMT
<1> HIDE DEF z
<1>2. g[0] = em
  <2>1. PushedTo(f, level, em, z, g, 0)
    BY <1>1, PushesDef
  <2> HIDE DEF g
  <2> QED
    BY <1>1, <2>1 DEF PushedTo
<1>3. PushAll(f, level, em, z) = em
  BY <1>1, <1>2 DEF PushAll
<1> QED
  BY <1>3 DEF z

\* A level without entries has no nodes.
LEMMA LevelNone ==
    ASSUME NEW f, NEW level
    PROVE  Level(f, level, <<>>) = <<>>
<1>1. PushAll(f, level, Fresh, <<>>) = Fresh
  BY PushNone
<1>2. Fresh.open = <<>> /\ Fresh.done = <<>>
  BY DEF Fresh
<1> QED
  BY <1>1, <1>2 DEF Level, Flush

\* The emitter after i + 1 entries is the one after i entries, with the next one pushed.
LEMMA PushedStep ==
    ASSUME NEW f, NEW level, NEW em, NEW E, NEW s \in Seq(E)
    PROVE  /\ Pushes(f, level, em, s)[0] = em
           /\ \A i \in Nat : i + 1 \in 1 .. Len(s) =>
                  Pushes(f, level, em, s)[i + 1] =
                      Push(f, level, Pushes(f, level, em, s)[i], s[i + 1])
<1>1. Len(s) \in Nat
  BY SMT
<1>2. PushedTo(f, level, em, s, Pushes(f, level, em, s), Len(s))
  BY <1>1, PushesDef
<1> DEFINE g == Pushes(f, level, em, s)
<1> HIDE DEF g
<1>3. \A i \in 0 .. Len(s) : g[i] = IF i = 0 THEN em ELSE Push(f, level, g[i - 1], s[i])
  BY <1>2 DEF g, PushedTo
<1>4. 0 \in 0 .. Len(s)
  BY <1>1, SMT
<1>5. ASSUME NEW i \in Nat, i + 1 \in 1 .. Len(s)
      PROVE  g[i + 1] = Push(f, level, g[i], s[i + 1])
  <2>1. i + 1 \in 0 .. Len(s) /\ i + 1 # 0 /\ i + 1 - 1 = i
    BY <1>1, <1>5, SMT
  <2> QED
    BY <1>3, <2>1, SMT
<1> QED
  BY <1>3, <1>4, <1>5 DEF g

\* An emitter stays one when an entry is pushed.
LEMMA PushTyped ==
    ASSUME NEW f, NEW level, NEW E, NEW em \in Emitters(level, E), NEW e \in E
    PROVE  Push(f, level, em, e) \in Emitters(level, E)
<1>1. em.done \in Seq(Nodes(level, E)) /\ em.open \in Seq(E)
  BY DEF Emitters
<1>2. Append(em.open, e) \in Seq(E) /\ <<e>> \in Seq(E) /\ <<>> \in Seq(E)
  BY <1>1, SMT
<1>3. ASSUME NEW d \in Seq(Nodes(level, E)), NEW c \in Seq(E)
      PROVE  /\ Append(d, Node(level, c)) \in Seq(Nodes(level, E))
             /\ Observed(f, level, d, c) \in Emitters(level, E)
  <2>1. Node(level, c) \in Nodes(level, E)
    BY DEF Nodes
  <2>2. Append(d, Node(level, c)) \in Seq(Nodes(level, E))
    BY <2>1, SMT
  <2> QED
    BY <1>2, <2>2 DEF Observed, Emitters
<1> QED
  BY <1>1, <1>2, <1>3 DEF Push

\* And after every prefix of the entries.
LEMMA PushesTyped ==
    ASSUME NEW f, NEW level, NEW E, NEW em \in Emitters(level, E), NEW s \in Seq(E)
    PROVE  \A i \in 0 .. Len(s) : Pushes(f, level, em, s)[i] \in Emitters(level, E)
<1> DEFINE g == Pushes(f, level, em, s)
           T == {i \in Nat : i <= Len(s) => g[i] \in Emitters(level, E)}
<1> HIDE DEF g
<1>1. 0 \in T
  BY PushedStep, SMT DEF g
<1>2. ASSUME NEW n \in Nat, n \in T PROVE n + 1 \in T
  <2>1. n + 1 \in Nat
    BY SMT
  <2>2. SUFFICES ASSUME n + 1 <= Len(s) PROVE g[n + 1] \in Emitters(level, E)
    BY <2>1
  <2>3. n <= Len(s) /\ n + 1 \in 1 .. Len(s) /\ s[n + 1] \in E
    BY <2>2, SMT
  <2>4. g[n + 1] = Push(f, level, g[n], s[n + 1])
    BY <2>3, PushedStep, SMT DEF g
  <2> QED
    BY <1>2, <2>3, <2>4, PushTyped
<1> HIDE DEF T
<1>3. \A n \in Nat : n \in T
  BY <1>1, <1>2, Induction
<1>4. ASSUME NEW i \in 0 .. Len(s) PROVE i \in Nat /\ i <= Len(s)
  BY SMT
<1> QED
  BY <1>3, <1>4 DEF T, g

\* And after all of them.
LEMMA PushAllTyped ==
    ASSUME NEW f, NEW level, NEW E, NEW em \in Emitters(level, E), NEW s \in Seq(E)
    PROVE  PushAll(f, level, em, s) \in Emitters(level, E)
<1>1. Len(s) \in 0 .. Len(s)
  BY SMT
<1> QED
  BY <1>1, PushesTyped DEF PushAll

\* What is already closed has no say in what follows.
LEMMA PushBehind ==
    ASSUME NEW f, NEW level, NEW E, NEW em \in Emitters(level, E), NEW e \in E,
           NEW d \in Seq(Nodes(level, E))
    PROVE  Push(f, level, Behind(d, em), e) = Behind(d, Push(f, level, em, e))
<1>1. em.done \in Seq(Nodes(level, E)) /\ em.open \in Seq(E)
  BY DEF Emitters
<1>2. Append(em.open, e) \in Seq(E) /\ <<e>> \in Seq(E)
  BY <1>1, SMT
<1>3. ASSUME NEW x \in Seq(Nodes(level, E)), NEW c \in Seq(E)
      PROVE  /\ Append(x, Node(level, c)) \in Seq(Nodes(level, E))
             /\ Append(d \o x, Node(level, c)) = d \o Append(x, Node(level, c))
             /\ Observed(f, level, d \o x, c) = Behind(d, Observed(f, level, x, c))
  <2>1. Node(level, c) \in Nodes(level, E)
    BY DEF Nodes
  <2>2. Append(x, Node(level, c)) \in Seq(Nodes(level, E))
    BY <2>1, SMT
  <2>3. Append(d \o x, Node(level, c)) = d \o Append(x, Node(level, c))
    <3> DEFINE S == Nodes(level, E)
               n == Node(level, c)
    <3>1. d \in Seq(S) /\ x \in Seq(S) /\ n \in S
      BY <2>1
    <3> HIDE DEF S, n
    <3>2. AppendsLast(d, x, n)
      BY <3>1, AppendConcat
    <3> QED
      BY <3>2 DEF AppendsLast, n
  <2> QED
    BY <2>2, <2>3 DEF Observed, Behind
<1>4. Behind(d, em).done = d \o em.done /\ Behind(d, em).open = em.open
  BY SMT DEF Behind
<1>5. CASE em.open # <<>> /\ Size(Append(em.open, e)) > f.cap
  <2> DEFINE y == Append(em.done, Node(level, em.open))
  <2>1. y \in Seq(Nodes(level, E)) /\ Append(d \o em.done, Node(level, em.open)) = d \o y
    BY <1>1, <1>3
  <2>2. /\ Push(f, level, Behind(d, em), e) = Observed(f, level, d \o y, <<e>>)
        /\ Push(f, level, em, e) = Observed(f, level, y, <<e>>)
    BY <1>4, <1>5, <2>1 DEF Push
  <2> HIDE DEF y
  <2> QED
    BY <1>2, <1>3, <2>1, <2>2
<1>6. CASE ~ (em.open # <<>> /\ Size(Append(em.open, e)) > f.cap)
  <2>1. /\ Push(f, level, Behind(d, em), e) = Observed(f, level, d \o em.done, Append(em.open, e))
        /\ Push(f, level, em, e) = Observed(f, level, em.done, Append(em.open, e))
    BY <1>4, <1>6 DEF Push
  <2>2. Observed(f, level, d \o em.done, Append(em.open, e))
            = Behind(d, Observed(f, level, em.done, Append(em.open, e)))
    BY <1>1, <1>2, <1>3
  <2> QED
    BY <2>1, <2>2
<1> QED
  BY <1>5, <1>6

\* The same for a sequence of entries.
LEMMA PushesBehind ==
    ASSUME NEW f, NEW level, NEW E, NEW em \in Emitters(level, E), NEW s \in Seq(E),
           NEW d \in Seq(Nodes(level, E))
    PROVE  PushAll(f, level, Behind(d, em), s) = Behind(d, PushAll(f, level, em, s))
<1> DEFINE g == Pushes(f, level, em, s)
           h == Pushes(f, level, Behind(d, em), s)
           T == {i \in Nat : i <= Len(s) => h[i] = Behind(d, g[i])}
<1> HIDE DEF g, h
<1>1. 0 \in T
  BY PushedStep, SMT DEF g, h
<1>2. ASSUME NEW n \in Nat, n \in T PROVE n + 1 \in T
  <2>1. n + 1 \in Nat
    BY SMT
  <2>2. SUFFICES ASSUME n + 1 <= Len(s) PROVE h[n + 1] = Behind(d, g[n + 1])
    BY <2>1
  <2>3. /\ n <= Len(s) /\ n \in 0 .. Len(s) /\ n + 1 \in 1 .. Len(s)
        /\ s[n + 1] \in E
    BY <2>2, SMT
  <2>4. /\ g[n + 1] = Push(f, level, g[n], s[n + 1])
        /\ h[n + 1] = Push(f, level, h[n], s[n + 1])
    BY <2>3, PushedStep, SMT DEF g, h
  <2>5. g[n] \in Emitters(level, E)
    BY <2>3, PushesTyped DEF g
  <2>6. h[n] = Behind(d, g[n])
    BY <1>2, <2>3
  <2>7. Push(f, level, Behind(d, g[n]), s[n + 1]) = Behind(d, Push(f, level, g[n], s[n + 1]))
    BY <2>3, <2>5, PushBehind, SMT
  <2> QED
    BY <2>4, <2>6, <2>7
<1> HIDE DEF T
<1>3. \A n \in Nat : n \in T
  BY <1>1, <1>2, Induction
<1>4. Len(s) \in Nat /\ Len(s) <= Len(s)
  BY SMT
<1> QED
  BY <1>3, <1>4 DEF T, g, h, PushAll

\* Sequences with a common prefix take the emitter through the same states.
LEMMA PushesPrefix ==
    ASSUME NEW f, NEW level, NEW em, NEW E, NEW s \in Seq(E), NEW t \in Seq(E), NEW m \in Nat,
           m <= Len(s), m <= Len(t), \A i \in 1 .. m : s[i] = t[i]
    PROVE  \A i \in 0 .. m : Pushes(f, level, em, s)[i] = Pushes(f, level, em, t)[i]
<1> DEFINE g == Pushes(f, level, em, s)
           h == Pushes(f, level, em, t)
           T == {i \in Nat : i <= m => h[i] = g[i]}
<1> HIDE DEF g, h
<1>1. 0 \in T
  BY PushedStep, SMT DEF g, h
<1>2. ASSUME NEW n \in Nat, n \in T PROVE n + 1 \in T
  <2>1. n + 1 \in Nat
    BY SMT
  <2>2. SUFFICES ASSUME n + 1 <= m PROVE h[n + 1] = g[n + 1]
    BY <2>1
  <2>3. /\ n <= m /\ n + 1 \in 1 .. Len(s) /\ n + 1 \in 1 .. Len(t)
        /\ s[n + 1] = t[n + 1]
    BY <2>2, SMT
  <2>4. /\ g[n + 1] = Push(f, level, g[n], s[n + 1])
        /\ h[n + 1] = Push(f, level, h[n], t[n + 1])
    BY <2>3, PushedStep, SMT DEF g, h
  <2> QED
    BY <1>2, <2>3, <2>4
<1> HIDE DEF T
<1>3. \A n \in Nat : n \in T
  BY <1>1, <1>2, Induction
<1>4. ASSUME NEW i \in 0 .. m PROVE i \in Nat /\ i <= m
  BY SMT
<1> QED
  BY <1>3, <1>4 DEF T, g, h

\* The emitter that has seen s and goes on with t has seen s \o t.
LEMMA PushesConcat ==
    ASSUME NEW f, NEW level, NEW E, NEW em, NEW s \in Seq(E), NEW t \in Seq(E)
    PROVE  PushAll(f, level, em, s \o t) = PushAll(f, level, PushAll(f, level, em, s), t)
<1> DEFINE u == s \o t
           mid == PushAll(f, level, em, s)
           g == Pushes(f, level, em, u)
           h == Pushes(f, level, mid, t)
           T == {i \in Nat : i <= Len(t) => g[Len(s) + i] = h[i]}
<1>1. /\ u \in Seq(E) /\ Len(u) = Len(s) + Len(t)
      /\ \A i \in 1 .. Len(s) : u[i] = s[i]
      /\ \A i \in 1 .. Len(t) : u[Len(s) + i] = t[i]
      /\ Len(s) \in Nat /\ Len(t) \in Nat
  BY SMT
<1> HIDE DEF u, mid, g, h, T
<1>6. u \in Seq(E)
  BY <1>1
<1>7. Len(s) \in Nat /\ \A i \in 1 .. Len(s) : u[i] = s[i]
  BY <1>1
<1> USE DEF T
<1>2. 0 \in T
  <2>1. g[Len(s)] = Pushes(f, level, em, s)[Len(s)]
    <3>1. Len(s) \in 0 .. Len(s) /\ Len(s) <= Len(u) /\ Len(s) <= Len(s)
      BY <1>1, SMT
    <3>2. \A i \in 0 .. Len(s) : Pushes(f, level, em, u)[i] = Pushes(f, level, em, s)[i]
      BY <1>6, <1>7, <3>1, PushesPrefix, SMT
    <3> QED
      BY <3>1, <3>2 DEF g
  <2>2. h[0] = mid
    BY PushedStep, SMT DEF h
  <2>3. Len(s) + 0 = Len(s)
    BY <1>1, SMT
  <2>4. g[Len(s)] = h[0]
    BY <2>1, <2>2 DEF mid, PushAll
  <2> QED
    BY <2>3, <2>4, SMT
<1>3. ASSUME NEW n \in Nat, n \in T PROVE n + 1 \in T
  <2>1. n + 1 \in Nat
    BY SMT
  <2>2. SUFFICES ASSUME n + 1 <= Len(t) PROVE g[Len(s) + (n + 1)] = h[n + 1]
    BY <2>1
  <2>3. /\ n <= Len(t) /\ n + 1 \in 1 .. Len(t)
        /\ Len(s) + n \in Nat /\ (Len(s) + n) + 1 \in 1 .. Len(u)
        /\ (Len(s) + n) + 1 = Len(s) + (n + 1)
    BY <1>1, <2>2, SMT
  <2>4. u[Len(s) + (n + 1)] = t[n + 1]
    BY <1>1, <2>3
  <2>5. g[(Len(s) + n) + 1] = Push(f, level, g[Len(s) + n], u[(Len(s) + n) + 1])
    <3> DEFINE m == Len(s) + n
    <3>1. m \in Nat /\ m + 1 \in 1 .. Len(u)
      BY <2>3
    <3> HIDE DEF m
    <3>2. Pushes(f, level, em, u)[m + 1] = Push(f, level, Pushes(f, level, em, u)[m], u[m + 1])
      BY <1>6, <3>1, PushedStep, SMT
    <3> QED
      BY <3>2 DEF g, m
  <2>6. h[n + 1] = Push(f, level, h[n], t[n + 1])
    BY <1>1, <2>3, PushedStep, SMT DEF h
  <2> QED
    BY <1>3, <2>3, <2>4, <2>5, <2>6
<1> HIDE DEF T
<1>4. \A n \in Nat : n \in T
  BY <1>2, <1>3, Induction
<1>5. g[Len(u)] = h[Len(t)]
  BY <1>1, <1>4, SMT DEF T
<1> QED
  BY <1>5 DEF u, mid, g, h, PushAll

-----------------------------------------------------------------------------
(* What the emitter has closed. *)

\* The entries a + 1 .. b of s may be in one node: no shorter chunk closes, and none
\* after the first overflows the byte cap.
Chunk(f, level, s, a, b) ==
    /\ \A i \in a + 1 .. b - 1 : ~ Closes(f, level, SubSeq(s, a + 1, i))
    /\ \A i \in a + 2 .. b : ~ (Size(SubSeq(s, a + 1, i)) > f.cap)

\* And the node ends there: the detector says so, the next entry does not fit, or there
\* is none.
Ended(f, level, s, a, b) ==
    \/ Closes(f, level, SubSeq(s, a + 1, b))
    \/ b < Len(s) /\ Size(SubSeq(s, a + 1, b + 1)) > f.cap
    \/ b = Len(s)

\* The nodes are the chunks of s, one after the other: the node k ends with the entry
\* ends[k].
Chunks(f, level, s, nodes, ends) ==
    /\ ends \in [0 .. Len(nodes) -> 0 .. Len(s)]
    /\ ends[0] = 0
    /\ ends[Len(nodes)] = Len(s)
    /\ \A k \in 1 .. Len(nodes) :
          /\ ends[k - 1] < ends[k]
          /\ nodes[k] = Node(level, SubSeq(s, ends[k - 1] + 1, ends[k]))
          /\ Chunk(f, level, s, ends[k - 1], ends[k])
          /\ Ended(f, level, s, ends[k - 1], ends[k])

\* The emitter at the entry p with which the node k of d ends, if another follows: the
\* node is closed, or is the open chunk and will not take the next entry.
Settled(f, level, s, d, k, p) ==
    p < Len(s) =>
        \/ Pushes(f, level, Fresh, s)[p] = [done |-> SubSeq(d, 1, k), open |-> <<>>]
        \/ /\ Pushes(f, level, Fresh, s)[p]
                   = [done |-> SubSeq(d, 1, k - 1), open |-> d[k].entries]
           /\ d[k].entries # <<>>
           /\ Size(Append(d[k].entries, s[p + 1])) > f.cap

\* The node k of d holds the entries a + 1 .. b.
NodeEnds(f, level, s, d, k, a, b) ==
    /\ a < b
    /\ d[k] = Node(level, SubSeq(s, a + 1, b))
    /\ Chunk(f, level, s, a, b)
    /\ Ended(f, level, s, a, b)
    /\ Settled(f, level, s, d, k, b)

\* The nodes d and the chunk o hold the first n entries of s; the node k ends with the
\* entry ends[k].
Holds(f, level, s, n, d, o, ends) ==
    /\ ends \in [0 .. Len(d) -> 0 .. n]
    /\ ends[0] = 0
    /\ \A k \in 1 .. Len(d) : NodeEnds(f, level, s, d, k, ends[k - 1], ends[k])
    /\ o = SubSeq(s, ends[Len(d)] + 1, n)
    /\ Chunk(f, level, s, ends[Len(d)], n)

\* An open chunk that has ended becomes the next node.
LEMMA HoldsClose ==
    ASSUME NEW f, NEW level, NEW E, NEW s \in Seq(E), NEW n \in Nat, n <= Len(s),
           NEW d \in Seq(Nodes(level, E)), NEW o \in Seq(E), NEW ends,
           Holds(f, level, s, n, d, o, ends), o # <<>>,
           Ended(f, level, s, ends[Len(d)], n),
           Settled(f, level, s, Append(d, Node(level, o)), Len(d) + 1, n)
    PROVE  \E new : Holds(f, level, s, n, Append(d, Node(level, o)), <<>>, new)
\* A stretch that ends before it starts is empty.
<1>1. ASSUME NEW a \in Nat
      PROVE  SubSeq(s, a + 1, a) = <<>>
  BY SMT
<1> DEFINE a == ends[Len(d)]
           D == Append(d, Node(level, o))
           new == [k \in 0 .. Len(d) + 1 |-> IF k = Len(d) + 1 THEN n ELSE ends[k]]
<1>2. /\ ends \in [0 .. Len(d) -> 0 .. n]
      /\ ends[0] = 0
      /\ \A k \in 1 .. Len(d) : NodeEnds(f, level, s, d, k, ends[k - 1], ends[k])
      /\ o = SubSeq(s, a + 1, n)
      /\ Chunk(f, level, s, a, n)
  BY DEF Holds
<1>3. Len(d) \in Nat /\ Len(d) \in 0 .. Len(d)
  BY SMT
<1>4. a \in 0 .. n
  BY <1>2, <1>3
<1>5. a \in Nat /\ a <= n /\ n \in 0 .. Len(s)
  BY <1>4, SMT
<1>6. Node(level, o) \in Nodes(level, E)
  BY DEF Nodes
<1>7. /\ D \in Seq(Nodes(level, E)) /\ Len(D) = Len(d) + 1
      /\ \A k \in 1 .. Len(d) : D[k] = d[k]
      /\ D[Len(d) + 1] = Node(level, o)
      /\ \A k \in 0 .. Len(d) : SubSeq(D, 1, k) = SubSeq(d, 1, k)
  <2> DEFINE S == Nodes(level, E)
             x == Node(level, o)
  <2>1. d \in Seq(S) /\ x \in S
    BY <1>6
  <2> HIDE DEF S, x
  <2>2. /\ Append(d, x) \in Seq(S) /\ Len(Append(d, x)) = Len(d) + 1
        /\ \A k \in 1 .. Len(d) : Append(d, x)[k] = d[k]
        /\ Append(d, x)[Len(d) + 1] = x
    BY <2>1, SMT
  <2>3. \A k \in 0 .. Len(d) : SubSeq(Append(d, x), 1, k) = SubSeq(d, 1, k)
    BY <2>1, SubPrefix
  <2> QED
    BY <2>2, <2>3 DEF S, x
<1>8. Len(o) = n - a
  <2>1. Len(SubSeq(s, a + 1, n)) = n - a
    BY <1>5, SubTyped
  <2> QED
    BY <1>2, <2>1
<1>9. a < n
  <2>1. Len(o) # 0
    BY SMT
  <2> QED
    BY <1>5, <1>8, <2>1, SMT
<1>10. /\ new \in [0 .. Len(d) + 1 -> 0 .. n]
      /\ new[0] = 0 /\ new[Len(d) + 1] = n
      /\ \A k \in 0 .. Len(d) : new[k] = ends[k]
  BY <1>2, <1>3, SMT
<1> HIDE DEF D, new, a
<1>11. ASSUME NEW k \in 1 .. Len(d) + 1
       PROVE  NodeEnds(f, level, s, D, k, new[k - 1], new[k])
  <2>1. CASE k = Len(d) + 1
    <3>1. k - 1 = Len(d) /\ k - 1 \in 0 .. Len(d)
      BY <1>3, <2>1, SMT
    <3>2. new[k - 1] = a /\ new[k] = n
      BY <1>10, <2>1, <3>1 DEF a
    <3> QED
      BY <1>2, <1>7, <1>9, <2>1, <3>2 DEF NodeEnds, D, a
  <2>2. CASE k # Len(d) + 1
    <3>1. k \in 1 .. Len(d) /\ k \in 0 .. Len(d) /\ k - 1 \in 0 .. Len(d)
      BY <1>3, <2>2, SMT
    <3>2. new[k - 1] = ends[k - 1] /\ new[k] = ends[k]
      BY <1>10, <3>1
    <3>3. NodeEnds(f, level, s, d, k, ends[k - 1], ends[k])
      BY <1>2, <3>1
    <3>4. D[k] = d[k] /\ SubSeq(D, 1, k) = SubSeq(d, 1, k) /\ SubSeq(D, 1, k - 1) = SubSeq(d, 1, k - 1)
      BY <1>7, <3>1
    <3> QED
      BY <3>2, <3>3, <3>4 DEF NodeEnds, Settled
  <2> QED
    BY <2>1, <2>2
<1>12. SubSeq(s, n + 1, n) = <<>>
  BY <1>1
<1>13. Chunk(f, level, s, n, n)
  <2>1. n + 1 .. n - 1 = {} /\ n + 2 .. n = {}
    BY SMT
  <2> QED
    BY <2>1 DEF Chunk
<1>14. Holds(f, level, s, n, D, <<>>, new)
  BY <1>7, <1>10, <1>11, <1>12, <1>13 DEF Holds
<1> QED
  BY <1>14 DEF D

\* The open chunk has not closed.
Emitted(f, level, s, n, em) ==
    /\ \E ends : Holds(f, level, s, n, em.done, em.open, ends)
    /\ em.open # <<>> => ~ Closes(f, level, em.open)

\* What Observed returns: the chunk stays open, or is closed where the detector says so.
LEMMA EmittedObserved ==
    ASSUME NEW f, NEW level, NEW E, NEW s \in Seq(E), NEW n \in Nat, n <= Len(s),
           NEW d \in Seq(Nodes(level, E)), NEW c \in Seq(E), c # <<>>, NEW ends,
           Holds(f, level, s, n, d, c, ends),
           Pushes(f, level, Fresh, s)[n] = Observed(f, level, d, c)
    PROVE  Emitted(f, level, s, n, Observed(f, level, d, c))
<1>1. CASE ~ Closes(f, level, c)
  <2>1. Observed(f, level, d, c) = [done |-> d, open |-> c]
    BY <1>1 DEF Observed
  <2>2. Observed(f, level, d, c).done = d /\ Observed(f, level, d, c).open = c
    BY <2>1, SMT
  <2> QED
    BY <1>1, <2>2 DEF Emitted
<1>2. CASE Closes(f, level, c)
  <2> DEFINE D == Append(d, Node(level, c))
  <2>1. Observed(f, level, d, c) = [done |-> D, open |-> <<>>]
    BY <1>2 DEF Observed
  <2>2. Observed(f, level, d, c).done = D /\ Observed(f, level, d, c).open = <<>>
    BY <2>1, SMT
  <2>3. SubSeq(D, 1, Len(d) + 1) = D
    <3> DEFINE S == Nodes(level, E)
               x == Node(level, c)
    <3>1. d \in Seq(S) /\ x \in S
      BY DEF Nodes
    <3> HIDE DEF S, x
    <3>2. SubSeq(Append(d, x), 1, Len(d) + 1) = Append(d, x)
      BY <3>1, SMT
    <3> QED
      BY <3>2 DEF x
  <2>4. Settled(f, level, s, D, Len(d) + 1, n)
    BY <2>1, <2>3 DEF Settled
  <2>5. c = SubSeq(s, ends[Len(d)] + 1, n)
    BY DEF Holds
  <2>6. Ended(f, level, s, ends[Len(d)], n)
    BY <1>2, <2>5 DEF Ended
  <2>7. \E new : Holds(f, level, s, n, D, <<>>, new)
    BY <2>4, <2>6, HoldsClose
  <2> QED
    BY <2>2, <2>7 DEF Emitted
<1> QED
  BY <1>1, <1>2

\* The nodes and the open chunk hold the entries pushed so far, after each of them.
LEMMA EmittedAlways ==
    ASSUME NEW f, NEW level, NEW E, NEW s \in Seq(E)
    PROVE  \A n \in 0 .. Len(s) : Emitted(f, level, s, n, Pushes(f, level, Fresh, s)[n])
\* One push_entry_with: the nodes and the open chunk hold one entry more.
<1>1. ASSUME NEW n \in Nat, n + 1 <= Len(s), NEW em \in Emitters(level, E),
             Pushes(f, level, Fresh, s)[n] = em,
             Pushes(f, level, Fresh, s)[n + 1] = Push(f, level, em, s[n + 1]),
             Emitted(f, level, s, n, em)
      PROVE  Emitted(f, level, s, n + 1, Push(f, level, em, s[n + 1]))
  <2> USE <1>1
  \* An entry that neither overflows nor follows a closed chunk joins the open chunk.
  <2>1. ASSUME NEW d \in Seq(Nodes(level, E)), NEW o \in Seq(E), NEW ends,
               Holds(f, level, s, n, d, o, ends),
               o # <<>> => ~ Closes(f, level, o) /\ ~ (Size(Append(o, s[n + 1])) > f.cap)
        PROVE  Holds(f, level, s, n + 1, d, Append(o, s[n + 1]), ends)
    <3> USE <2>1
    <3> DEFINE a == ends[Len(d)]
    <3>1. /\ ends \in [0 .. Len(d) -> 0 .. n]
          /\ ends[0] = 0
          /\ \A k \in 1 .. Len(d) : NodeEnds(f, level, s, d, k, ends[k - 1], ends[k])
          /\ o = SubSeq(s, a + 1, n)
          /\ Chunk(f, level, s, a, n)
      BY DEF Holds
    <3>2. Len(d) \in 0 .. Len(d)
      BY SMT
    <3>3. a \in 0 .. n
      BY <3>1, <3>2
    <3> HIDE DEF a
    <3>4. a \in Nat /\ a <= n /\ n + 1 \in 1 .. Len(s) /\ n \in 0 .. Len(s)
      BY <3>3, SMT
    <3>5. Append(o, s[n + 1]) = SubSeq(s, a + 1, n + 1)
      BY <3>1, <3>4, SubAppend
    <3>6. Len(o) = n - a
      BY <3>1, <3>4, SubTyped
    <3>7. o # <<>> \/ n = a
      BY <3>4, <3>6, SMT
    <3>8. ends \in [0 .. Len(d) -> 0 .. n + 1]
      BY <3>1, SMT
    <3>9. Chunk(f, level, s, a, n + 1)
      <4>1. ASSUME NEW i \in a + 1 .. n + 1 - 1 PROVE ~ Closes(f, level, SubSeq(s, a + 1, i))
        <5>1. CASE i = n
          <6>1. n # a
            BY <3>4, <5>1, SMT
          <6> QED
            BY <3>1, <3>7, <5>1, <6>1
        <5>2. CASE i # n
          <6>1. i \in a + 1 .. n - 1
            BY <3>4, <5>2, SMT
          <6> QED
            BY <3>1, <6>1 DEF Chunk
        <5> QED
          BY <5>1, <5>2
      <4>2. ASSUME NEW i \in a + 2 .. n + 1 PROVE ~ (Size(SubSeq(s, a + 1, i)) > f.cap)
        <5>1. CASE i = n + 1
          <6>1. n # a
            BY <3>4, <5>1, SMT
          <6> QED
            BY <3>5, <3>7, <5>1, <6>1
        <5>2. CASE i # n + 1
          <6>1. i \in a + 2 .. n
            BY <3>4, <5>2, SMT
          <6> QED
            BY <3>1, <6>1 DEF Chunk
        <5> QED
          BY <5>1, <5>2
      <4> QED
        BY <4>1, <4>2, SMT DEF Chunk
    <3> QED
      BY <3>1, <3>5, <3>8, <3>9 DEF Holds, a
  <2> DEFINE d == em.done
             o == em.open
             e == s[n + 1]
             D == Append(d, Node(level, o))
  <2>2. d \in Seq(Nodes(level, E)) /\ o \in Seq(E)
    BY DEF Emitters
  <2>3. /\ n + 1 \in Nat /\ n <= Len(s) /\ n < Len(s) /\ e \in E
        /\ Append(o, e) \in Seq(E) /\ Append(o, e) # <<>>
        /\ Append(<<>>, e) = <<e>> /\ <<e>> \in Seq(E) /\ <<e>> # <<>> /\ <<>> \in Seq(E)
    BY <2>2, SMT
  <2>4. em = [done |-> d, open |-> o]
    BY SMT DEF Emitters
  <2>5. PICK ends : Holds(f, level, s, n, d, o, ends)
    BY DEF Emitted
  <2>6. o # <<>> => ~ Closes(f, level, o)
    BY DEF Emitted
  <2> HIDE DEF d, o, e, D
  <2>7. CASE o # <<>> /\ Size(Append(o, e)) > f.cap
    <3>1. Push(f, level, em, e) = Observed(f, level, D, <<e>>)
      BY <2>7 DEF Push, d, o, D
    <3>2. /\ D \in Seq(Nodes(level, E)) /\ D[Len(d) + 1] = Node(level, o)
          /\ SubSeq(D, 1, Len(d) + 1 - 1) = d
      <4> DEFINE S == Nodes(level, E)
                 x == Node(level, o)
      <4>1. d \in Seq(S) /\ x \in S
        BY <2>2 DEF Nodes
      <4> HIDE DEF S, x
      <4>2. /\ Append(d, x) \in Seq(S) /\ Append(d, x)[Len(d) + 1] = x
            /\ SubSeq(Append(d, x), 1, Len(d) + 1 - 1) = d
        BY <4>1, SMT
      <4> QED
        BY <4>2 DEF S, x, D
    <3>3. D[Len(d) + 1].entries = o
      BY <3>2, SMT DEF Node
    <3>4. Settled(f, level, s, D, Len(d) + 1, n)
      <4>1. Pushes(f, level, Fresh, s)[n]
                = [done |-> SubSeq(D, 1, Len(d) + 1 - 1), open |-> D[Len(d) + 1].entries]
        BY <2>4, <3>2, <3>3
      <4>2. /\ n < Len(s) /\ D[Len(d) + 1].entries # <<>>
            /\ Size(Append(D[Len(d) + 1].entries, s[n + 1])) > f.cap
        BY <2>3, <2>7, <3>3 DEF e
      <4> QED
        BY <4>1, <4>2, SMT DEF Settled
    <3>5. Ended(f, level, s, ends[Len(d)], n)
      <4> DEFINE a == ends[Len(d)]
      <4>1. o = SubSeq(s, a + 1, n) /\ ends \in [0 .. Len(d) -> 0 .. n]
        BY <2>5 DEF Holds
      <4>2. Len(d) \in 0 .. Len(d)
        BY <2>2, SMT
      <4>3. a \in 0 .. n
        BY <4>1, <4>2
      <4> HIDE DEF a
      <4>4. a \in Nat /\ a <= n /\ n + 1 \in 1 .. Len(s)
        BY <2>3, <4>3, SMT
      <4>5. Append(o, e) = SubSeq(s, a + 1, n + 1)
        BY <4>1, <4>4, SubAppend DEF e
      <4> QED
        BY <2>3, <2>7, <4>5 DEF Ended, a
    <3>6. PICK new : Holds(f, level, s, n, D, <<>>, new)
      BY <2>2, <2>3, <2>5, <2>7, <3>4, <3>5, HoldsClose DEF D
    <3>7. Holds(f, level, s, n + 1, D, Append(<<>>, e), new)
      BY <2>3, <3>2, <3>6, <2>1 DEF e
    <3>8. Holds(f, level, s, n + 1, D, <<e>>, new)
      BY <2>3, <3>7
    <3> QED
      BY <2>3, <3>1, <3>2, <3>8, EmittedObserved DEF e
  <2>8. CASE ~ (o # <<>> /\ Size(Append(o, e)) > f.cap)
    <3>1. Push(f, level, em, e) = Observed(f, level, d, Append(o, e))
      BY <2>8 DEF Push, d, o
    <3>2. Holds(f, level, s, n + 1, d, Append(o, e), ends)
      BY <2>2, <2>5, <2>6, <2>8, <2>1 DEF e
    <3> QED
      BY <2>2, <2>3, <3>1, <3>2, EmittedObserved DEF e
  <2> QED
    BY <2>7, <2>8
<1> DEFINE g == Pushes(f, level, Fresh, s)
           T == {n \in Nat : n <= Len(s) => Emitted(f, level, s, n, g[n])}
<1> HIDE DEF g
<1>2. Fresh \in Emitters(level, E)
  <2>1. <<>> \in Seq(E) /\ <<>> \in Seq(Nodes(level, E))
    BY SMT
  <2> QED
    BY <2>1 DEF Emitters, Fresh
<1>3. 0 \in T
  <2>1. g[0] = Fresh
    BY PushedStep, SMT DEF g
  <2>2. Fresh.done = <<>> /\ Fresh.open = <<>>
    BY DEF Fresh
  <2> DEFINE new == [k \in 0 .. 0 |-> 0]
  <2>3. /\ Len(<<>>) = 0 /\ new \in [0 .. 0 -> 0 .. 0] /\ new[0] = 0 /\ 1 .. 0 = {}
        /\ 0 + 1 .. 0 - 1 = {} /\ 0 + 2 .. 0 = {} /\ SubSeq(s, 0 + 1, 0) = <<>> /\ 0 \in Nat
    BY SMT
  <2> HIDE DEF new
  <2>4. Holds(f, level, s, 0, <<>>, <<>>, new)
    BY <2>3 DEF Holds, Chunk
  <2>5. Emitted(f, level, s, 0, g[0])
    BY <2>1, <2>2, <2>4 DEF Emitted
  <2> QED
    BY <2>3, <2>5
<1>4. ASSUME NEW n \in Nat, n \in T PROVE n + 1 \in T
  <2>1. n + 1 \in Nat
    BY SMT
  <2>2. SUFFICES ASSUME n + 1 <= Len(s) PROVE Emitted(f, level, s, n + 1, g[n + 1])
    BY <2>1
  <2>3. n <= Len(s) /\ n \in 0 .. Len(s) /\ n + 1 \in 1 .. Len(s)
    BY <2>2, SMT
  <2>4. g[n + 1] = Push(f, level, g[n], s[n + 1])
    BY <2>3, PushedStep, SMT DEF g
  <2>5. g[n] \in Emitters(level, E)
    BY <1>2, <2>3, PushesTyped DEF g
  <2>6. Emitted(f, level, s, n, g[n])
    BY <1>4, <2>3
  <2>7. Emitted(f, level, s, n + 1, Push(f, level, g[n], s[n + 1]))
    BY <2>2, <2>4, <2>5, <2>6, <1>1 DEF g
  <2> QED
    BY <2>4, <2>7
<1> HIDE DEF T
<1>5. \A n \in Nat : n \in T
  BY <1>3, <1>4, Induction
<1>6. ASSUME NEW n \in 0 .. Len(s) PROVE n \in Nat /\ n <= Len(s)
  BY SMT
<1> QED
  BY <1>5, <1>6 DEF T, g

-----------------------------------------------------------------------------
(* The nodes of a level. *)

\* A new emitter is an emitter.
LEMMA FreshTyped ==
    ASSUME NEW level, NEW E
    PROVE  Fresh \in Emitters(level, E)
<1>1. <<>> \in Seq(E) /\ <<>> \in Seq(Nodes(level, E))
  BY SMT
<1> QED
  BY <1>1 DEF Emitters, Fresh

\* The flushed nodes are nodes of the level.
LEMMA FlushTyped ==
    ASSUME NEW level, NEW E, NEW em \in Emitters(level, E)
    PROVE  Flush(level, em) \in Seq(Nodes(level, E))
<1>1. em.done \in Seq(Nodes(level, E)) /\ Node(level, em.open) \in Nodes(level, E)
  BY DEF Emitters, Nodes
<1>2. Append(em.done, Node(level, em.open)) \in Seq(Nodes(level, E))
  BY <1>1, SMT
<1> QED
  BY <1>1, <1>2 DEF Flush

\* The nodes of a level are nodes over its entries.
LEMMA LevelTyped ==
    ASSUME NEW f, NEW level, NEW E, NEW s \in Seq(E)
    PROVE  Level(f, level, s) \in Seq(Nodes(level, E))
BY FreshTyped, PushAllTyped, FlushTyped DEF Level

\* The nodes of a level hold all its entries.
LEMMA LevelHolds ==
    ASSUME NEW f, NEW level, NEW E, NEW s \in Seq(E)
    PROVE  \E ends : Holds(f, level, s, Len(s), Level(f, level, s), <<>>, ends)
<1> DEFINE em == PushAll(f, level, Fresh, s)
<1>1. em \in Emitters(level, E)
  BY FreshTyped, PushAllTyped
<1>2. em.done \in Seq(Nodes(level, E)) /\ em.open \in Seq(E)
  BY <1>1 DEF Emitters
<1>3. Len(s) \in Nat /\ Len(s) \in 0 .. Len(s) /\ Len(s) <= Len(s) /\ ~ (Len(s) < Len(s))
  BY SMT
<1>4. Emitted(f, level, s, Len(s), em)
  BY <1>3, EmittedAlways DEF PushAll
<1> HIDE DEF em
<1>5. PICK ends : Holds(f, level, s, Len(s), em.done, em.open, ends)
  BY <1>4 DEF Emitted
<1>6. CASE em.open = <<>>
  BY <1>5, <1>6 DEF Level, Flush, em
<1>7. CASE em.open # <<>>
  <2>1. Level(f, level, s) = Append(em.done, Node(level, em.open))
    BY <1>7 DEF Level, Flush, em
  <2>2. Ended(f, level, s, ends[Len(em.done)], Len(s))
    BY DEF Ended
  <2>3. Settled(f, level, s, Append(em.done, Node(level, em.open)), Len(em.done) + 1, Len(s))
    BY <1>3 DEF Settled
  <2>4. \E new : Holds(f, level, s, Len(s), Append(em.done, Node(level, em.open)), <<>>, new)
    BY <1>2, <1>3, <1>5, <1>7, <2>2, <2>3, HoldsClose
  <2> QED
    BY <2>1, <2>4
<1> QED
  BY <1>6, <1>7

\* Nodes that hold all entries are their chunks.
LEMMA HoldsChunks ==
    ASSUME NEW f, NEW level, NEW E, NEW s \in Seq(E), NEW nodes \in Seq(Nodes(level, E)),
           NEW ends, Holds(f, level, s, Len(s), nodes, <<>>, ends)
    PROVE  Chunks(f, level, s, nodes, ends)
<1> DEFINE a == ends[Len(nodes)]
<1>1. ends \in [0 .. Len(nodes) -> 0 .. Len(s)] /\ <<>> = SubSeq(s, a + 1, Len(s))
  BY DEF Holds
<1>2. Len(nodes) \in 0 .. Len(nodes)
  BY SMT
<1>3. a \in 0 .. Len(s)
  BY <1>1, <1>2
<1> HIDE DEF a
<1>4. a \in Nat /\ a <= Len(s) /\ Len(s) \in 0 .. Len(s)
  BY <1>3, SMT
<1>5. Len(SubSeq(s, a + 1, Len(s))) = Len(s) - a
  BY <1>4, SubTyped
<1>6. a = Len(s)
  <2>1. Len(SubSeq(s, a + 1, Len(s))) = 0
    <3>1. Len(<<>>) = 0
      BY SMT
    <3> QED
      BY <1>1, <3>1 DEF a
  <2> QED
    BY <1>4, <1>5, <2>1, SMT
<1> QED
  BY <1>6 DEF Holds, NodeEnds, Chunks, a

\* The nodes that LevelEmitter::push_entry_with and the final flush produce for a level
\* are the chunks of its entries, in order and without a gap: each ends at the first
\* entry where BoundaryDetector::observe says so, or before the first that would overflow
\* the byte cap, both counted from the start of the chunk alone.
THEOREM LevelChunks ==
    ASSUME NEW f, NEW level, NEW E, NEW s \in Seq(E)
    PROVE  \E ends : Chunks(f, level, s, Level(f, level, s), ends)
BY LevelTyped, LevelHolds, HoldsChunks

\* Where a chunk has ended, no longer chunk starts at the same entry.
LEMMA ChunkEnds ==
    ASSUME NEW f, NEW level, NEW s, NEW a \in Nat, NEW b \in Nat, NEW c \in Nat, Len(s) \in Nat,
           a < b, b < c, c <= Len(s), Ended(f, level, s, a, b), Chunk(f, level, s, a, c)
    PROVE  FALSE
<1>1. b \in a + 1 .. c - 1 /\ b + 1 \in a + 2 .. c /\ b # Len(s)
  BY SMT
<1> QED
  BY <1>1 DEF Ended, Chunk

\* The node k + 1 of a level that is cut into chunks.
LEMMA ChunkAt ==
    ASSUME NEW f, NEW level, NEW s, NEW E, NEW x \in Seq(E), NEW p, Chunks(f, level, s, x, p),
           NEW k \in Nat, k < Len(x)
    PROVE  /\ p[k] \in 0 .. Len(s) /\ p[k + 1] \in 0 .. Len(s)
           /\ p[k] < p[k + 1]
           /\ x[k + 1] = Node(level, SubSeq(s, p[k] + 1, p[k + 1]))
           /\ Chunk(f, level, s, p[k], p[k + 1])
           /\ Ended(f, level, s, p[k], p[k + 1])
<1> DEFINE j == k + 1
<1>1. j \in 1 .. Len(x) /\ j \in 0 .. Len(x) /\ k \in 0 .. Len(x) /\ j - 1 = k
  BY SMT
<1> HIDE DEF j
<1>2. /\ p[j - 1] < p[j]
      /\ x[j] = Node(level, SubSeq(s, p[j - 1] + 1, p[j]))
      /\ Chunk(f, level, s, p[j - 1], p[j])
      /\ Ended(f, level, s, p[j - 1], p[j])
  BY <1>1 DEF Chunks
<1>3. p[k] \in 0 .. Len(s) /\ p[j] \in 0 .. Len(s)
  BY <1>1 DEF Chunks
<1> QED
  BY <1>1, <1>2, <1>3 DEF j

\* Only the last node ends with the last entry.
LEMMA EndsInOrder ==
    ASSUME NEW f, NEW level, NEW E, NEW s \in Seq(E), NEW S, NEW x \in Seq(S), NEW p,
           Chunks(f, level, s, x, p), NEW k \in Nat, k < Len(x)
    PROVE  p[k] < Len(s)
<1>1. p[k] \in 0 .. Len(s) /\ p[k + 1] \in 0 .. Len(s) /\ p[k] < p[k + 1]
  BY ChunkAt
<1> QED
  BY <1>1, SMT

\* The entries of a level can be cut into chunks in one way only: whatever produces nodes
\* that satisfy the boundary rule and the byte cap from the first entry on produces the
\* nodes of the builder. This is what makes the shape of a tree independent of its history.
THEOREM ChunksUnique ==
    ASSUME NEW f, NEW level, NEW E, NEW s \in Seq(E),
           NEW S, NEW x \in Seq(S), NEW y \in Seq(S), NEW p, NEW q,
           Chunks(f, level, s, x, p), Chunks(f, level, s, y, q)
    PROVE  x = y /\ p = q
\* Two ways to cut the same entries into chunks agree, node by node.
<1>1. \A k \in Nat : k <= Len(x) /\ k <= Len(y) => p[k] = q[k]
  <2> DEFINE T == {k \in Nat : k <= Len(x) /\ k <= Len(y) => p[k] = q[k]}
  <2>1. 0 \in T
    BY SMT DEF Chunks
  <2>2. ASSUME NEW k \in Nat, k \in T PROVE k + 1 \in T
    <3>1. k + 1 \in Nat
      BY SMT
    <3>2. SUFFICES ASSUME k + 1 <= Len(x), k + 1 <= Len(y) PROVE p[k + 1] = q[k + 1]
      BY <3>1
    <3>3. k <= Len(x) /\ k <= Len(y) /\ k < Len(x) /\ k < Len(y)
      BY <3>2, SMT
    <3>4. p[k] = q[k]
      BY <2>2, <3>3
    <3> DEFINE a == p[k]
               b == p[k + 1]
               c == q[k + 1]
    <3>5. a \in 0 .. Len(s) /\ b \in 0 .. Len(s) /\ c \in 0 .. Len(s)
      BY <3>3, ChunkAt
    <3>6. a < b /\ Chunk(f, level, s, a, b) /\ Ended(f, level, s, a, b)
      BY <3>3, ChunkAt
    <3>7. a < c /\ Chunk(f, level, s, a, c) /\ Ended(f, level, s, a, c)
      BY <3>3, <3>4, ChunkAt
    <3> HIDE DEF a, b, c
    <3>8. /\ a \in Nat /\ b \in Nat /\ c \in Nat /\ Len(s) \in Nat
          /\ b <= Len(s) /\ c <= Len(s)
      BY <3>5, SMT
    <3>9. ~ (b < c)
      BY <3>6, <3>7, <3>8, ChunkEnds
    <3>10. ~ (c < b)
      BY <3>6, <3>7, <3>8, ChunkEnds
    <3>11. b = c
      BY <3>8, <3>9, <3>10, SMT
    <3> QED
      BY <3>11 DEF b, c
  <2> HIDE DEF T
  <2>3. \A k \in Nat : k \in T
    BY <2>1, <2>2, Induction
  <2> QED
    BY <2>3 DEF T
<1>2. Len(x) \in Nat /\ Len(y) \in Nat /\ Len(x) <= Len(x) /\ Len(y) <= Len(y) /\ ~ (Len(s) < Len(s))
  BY SMT
<1>3. \A k \in Nat : k <= Len(x) /\ k <= Len(y) => p[k] = q[k]
  BY <1>1, SMT
<1>4. p[Len(x)] = Len(s) /\ q[Len(y)] = Len(s)
  BY DEF Chunks
<1>5. ~ (Len(x) < Len(y))
  <2>1. SUFFICES ASSUME Len(x) < Len(y) PROVE FALSE
    OBVIOUS
  <2>2. q[Len(x)] < Len(s)
    BY <1>2, <2>1, EndsInOrder
  <2>3. Len(x) <= Len(y)
    BY <1>2, <2>1, SMT
  <2> QED
    BY <1>2, <1>3, <1>4, <2>2, <2>3
<1>6. ~ (Len(y) < Len(x))
  <2>1. SUFFICES ASSUME Len(y) < Len(x) PROVE FALSE
    OBVIOUS
  <2>2. p[Len(y)] < Len(s)
    BY <1>2, <2>1, EndsInOrder
  <2>3. Len(y) <= Len(x)
    BY <1>2, <2>1, SMT
  <2> QED
    BY <1>2, <1>3, <1>4, <2>2, <2>3
<1>7. Len(x) = Len(y)
  BY <1>2, <1>5, <1>6, SMT
<1>8. ASSUME NEW k \in 0 .. Len(x) PROVE p[k] = q[k]
  <2>1. k \in Nat /\ k <= Len(x)
    BY SMT
  <2> QED
    BY <1>3, <1>7, <2>1
<1>9. p = q
  <2>1. p \in [0 .. Len(x) -> 0 .. Len(s)] /\ q \in [0 .. Len(x) -> 0 .. Len(s)]
    BY <1>7 DEF Chunks
  <2> QED
    BY <1>8, <2>1, SMT
<1>10. ASSUME NEW k \in 1 .. Len(x) PROVE x[k] = y[k]
  BY <1>7, <1>9 DEF Chunks
<1>11. x = y
  BY <1>7, <1>10, SameSeq
<1> QED
  BY <1>9, <1>11

-----------------------------------------------------------------------------
(* Rewriting part of a level. *)

\* Flushing leaves the nodes that were closed before.
LEMMA FlushBehind ==
    ASSUME NEW level, NEW E, NEW em \in Emitters(level, E), NEW d \in Seq(Nodes(level, E))
    PROVE  Flush(level, Behind(d, em)) = d \o Flush(level, em)
<1> DEFINE S == Nodes(level, E)
           n == Node(level, em.open)
           x == em.done
<1>1. d \in Seq(S) /\ x \in Seq(S) /\ n \in S
  BY DEF Emitters, Nodes
<1> HIDE DEF S, n, x
<1>2. Append(d \o x, n) = d \o Append(x, n)
  BY <1>1, SMT
<1>3. Behind(d, em).done = d \o x /\ Behind(d, em).open = em.open
  BY DEF Behind, x
<1> QED
  BY <1>2, <1>3 DEF Flush, n, x

\* Pushing a sequence of one entry is pushing the entry.
LEMMA PushOne ==
    ASSUME NEW f, NEW level, NEW E, NEW em, NEW e \in E
    PROVE  PushAll(f, level, em, <<e>>) = Push(f, level, em, e)
<1> DEFINE s == <<e>>
           g == Pushes(f, level, em, s)
<1>1. s \in Seq(E) /\ Len(s) = 1 /\ s[1] = e /\ 0 \in Nat /\ 0 + 1 = 1 /\ 0 + 1 \in 1 .. Len(s)
  BY SMT
<1> HIDE DEF s, g
<1>2. g[0] = em /\ g[0 + 1] = Push(f, level, g[0], s[0 + 1])
  <2>1. s \in Seq(E)
    BY <1>1
  <2>2. /\ g[0] = em
        /\ \A i \in Nat : i + 1 \in 1 .. Len(s) => g[i + 1] = Push(f, level, g[i], s[i + 1])
    BY <2>1, PushedStep, SMT DEF g
  <2> QED
    BY <1>1, <2>2
<1>3. g[1] = Push(f, level, em, e)
  BY <1>1, <1>2
<1> QED
  BY <1>1, <1>3 DEF s, g, PushAll

\* Where a node ends, the nodes before it stay as they are, whatever follows, as long as
\* the entry that follows is the one that followed.
Resumes(f, level, s, nodes, p, k, r) ==
    Level(f, level, SubSeq(s, 1, p) \o r) = SubSeq(nodes, 1, k) \o Level(f, level, r)

\* That is so after every node but the last.
LEMMA ResumeHolds ==
    ASSUME NEW f, NEW level, NEW E, NEW s \in Seq(E), NEW nodes \in Seq(Nodes(level, E)),
           NEW ends, Holds(f, level, s, Len(s), nodes, <<>>, ends),
           NEW k \in 1 .. Len(nodes), ends[k] < Len(s),
           NEW r \in Seq(E), r # <<>>, r[1] = s[ends[k] + 1]
    PROVE  Resumes(f, level, s, nodes, ends[k], k, r)
\* An emitter that is about to take the entry after a node's last one does what one
\* that has just closed that node would do.
<1>1. Push(f, level, Pushes(f, level, Fresh, s)[ends[k]], s[ends[k] + 1])
          = Push(f, level, [done |-> SubSeq(nodes, 1, k), open |-> <<>>], s[ends[k] + 1])
  <2> DEFINE p == ends[k]
             e == s[p + 1]
             c == nodes[k].entries
             em == Pushes(f, level, Fresh, s)[p]
  <2>1. NodeEnds(f, level, s, nodes, k, ends[k - 1], p)
    BY DEF Holds
  <2>2. Settled(f, level, s, nodes, k, p)
    BY <2>1 DEF NodeEnds
  <2>3. CASE em = [done |-> SubSeq(nodes, 1, k), open |-> <<>>]
    BY <2>3
  <2>4. CASE /\ em = [done |-> SubSeq(nodes, 1, k - 1), open |-> c]
             /\ c # <<>>
             /\ Size(Append(c, e)) > f.cap
    <3>1. em.open = c /\ em.done = SubSeq(nodes, 1, k - 1)
      BY <2>4, SMT
    <3> HIDE DEF em, c, e
    <3>2. Push(f, level, em, e)
              = Observed(f, level, Append(SubSeq(nodes, 1, k - 1), Node(level, c)), <<e>>)
      BY <2>4, <3>1 DEF Push
    <3>3. Node(level, c) = nodes[k]
      <4>1. nodes[k] = Node(level, SubSeq(s, ends[k - 1] + 1, p))
        BY <2>1 DEF NodeEnds
      <4>2. c = SubSeq(s, ends[k - 1] + 1, p)
        <5> DEFINE x == SubSeq(s, ends[k - 1] + 1, p)
        <5> HIDE DEF x
        <5>1. nodes[k] = Node(level, x)
          BY <4>1 DEF x
        <5>2. Node(level, x).entries = x
          BY DEF Node
        <5> QED
          BY <5>1, <5>2 DEF c, x
      <4> QED
        BY <4>1, <4>2
    <3>4. Append(SubSeq(nodes, 1, k - 1), nodes[k]) = SubSeq(nodes, 1, k)
      <4> DEFINE S == Nodes(level, E)
      <4>1. nodes \in Seq(S)
        OBVIOUS
      <4> HIDE DEF S
      <4> QED
        BY <4>1, SMT
    <3>5. Append(<<>>, e) = <<e>>
      BY SMT
    <3> DEFINE new == [done |-> SubSeq(nodes, 1, k), open |-> <<>>]
    <3>6. new.done = SubSeq(nodes, 1, k) /\ new.open = <<>>
      OBVIOUS
    <3> HIDE DEF new
    <3>7. Push(f, level, new, e) = Observed(f, level, SubSeq(nodes, 1, k), <<e>>)
      BY <3>5, <3>6 DEF Push
    <3> QED
      BY <3>2, <3>3, <3>4, <3>7 DEF em, e, new
  <2> QED
    BY <2>2, <2>3, <2>4 DEF Settled
<1> DEFINE p == ends[k]
           e == s[p + 1]
           pre == SubSeq(s, 1, p)
           d == SubSeq(nodes, 1, k)
           t == Tail(r)
           em == PushAll(f, level, Fresh, pre)
           new == [done |-> d, open |-> <<>>]
<1>2. p \in Nat /\ p + 1 \in 1 .. Len(s) /\ p \in 0 .. Len(s)
  <2>1. ends \in [0 .. Len(nodes) -> 0 .. Len(s)] /\ k \in 0 .. Len(nodes)
    BY SMT DEF Holds
  <2>2. p \in 0 .. Len(s)
    BY <2>1
  <2> HIDE DEF p
  <2>3. p < Len(s)
    BY DEF p
  <2> QED
    BY <2>2, <2>3, SMT
<1>3. Push(f, level, Pushes(f, level, Fresh, s)[p], e) = Push(f, level, new, e)
  <2>1. Push(f, level, Pushes(f, level, Fresh, s)[ends[k]], s[ends[k] + 1])
            = Push(f, level, [done |-> SubSeq(nodes, 1, k), open |-> <<>>], s[ends[k] + 1])
    BY <1>1, SMT
  <2> QED
    BY <2>1
<1>4. r[1] = e
  OBVIOUS
<1>5. d \in Seq(Nodes(level, E)) /\ d = d \o <<>>
  <2> DEFINE S == Nodes(level, E)
  <2>1. nodes \in Seq(S)
    OBVIOUS
  <2> HIDE DEF S
  <2>2. SubSeq(nodes, 1, k) \in Seq(S) /\ SubSeq(nodes, 1, k) = SubSeq(nodes, 1, k) \o <<>>
    BY <2>1, SMT
  <2> QED
    BY <2>2 DEF S
<1> HIDE DEF p, e, pre, d, t, em, new
<1>6. /\ pre \in Seq(E) /\ Len(pre) = p /\ \A i \in 1 .. p : pre[i] = s[i]
      /\ e \in E /\ t \in Seq(E) /\ <<e>> \in Seq(E) /\ r = <<e>> \o t
  BY <1>2, <1>4, SMT DEF pre, e, t
<1>16. d \in Seq(Nodes(level, E))
  BY <1>5
<1>17. pre \in Seq(E)
  BY <1>6
<1>18. t \in Seq(E) /\ <<e>> \in Seq(E)
  BY <1>6
<1>19. \A i \in 1 .. p : pre[i] = s[i]
  BY <1>6
<1>7. em = Pushes(f, level, Fresh, s)[p]
  <2>1. pre \in Seq(E) /\ p <= Len(pre) /\ p <= Len(s) /\ p \in 0 .. p
    BY <1>2, <1>6, SMT
  <2>2. \A i \in 0 .. p : Pushes(f, level, Fresh, pre)[i] = Pushes(f, level, Fresh, s)[i]
    BY <1>2, <1>19, <2>1, PushesPrefix, SMT
  <2> QED
    BY <1>6, <2>1, <2>2 DEF em, PushAll
<1>8. PushAll(f, level, Fresh, pre \o r) = PushAll(f, level, em, r)
  BY <1>17, PushesConcat, SMT DEF em
<1>9. ASSUME NEW x PROVE PushAll(f, level, x, r) = PushAll(f, level, Push(f, level, x, e), t)
  <2>1. PushAll(f, level, x, <<e>> \o t) = PushAll(f, level, PushAll(f, level, x, <<e>>), t)
    <3> DEFINE u == <<e>>
    <3>1. u \in Seq(E) /\ t \in Seq(E)
      BY <1>18
    <3> HIDE DEF u
    <3>2. PushAll(f, level, x, u \o t) = PushAll(f, level, PushAll(f, level, x, u), t)
      BY <3>1, PushesConcat, SMT
    <3> QED
      BY <3>2 DEF u
  <2>2. PushAll(f, level, x, <<e>>) = Push(f, level, x, e)
    BY <1>6, PushOne
  <2> QED
    BY <1>6, <2>1, <2>2
<1>10. PushAll(f, level, Fresh, pre \o r) = PushAll(f, level, new, r)
  BY <1>3, <1>7, <1>8, <1>9
<1>11. new = Behind(d, Fresh)
  BY <1>5 DEF new, Behind, Fresh
<1>12. PushAll(f, level, new, r) = Behind(d, PushAll(f, level, Fresh, r))
  <2>1. Fresh \in Emitters(level, E)
    BY FreshTyped
  <2>2. PushAll(f, level, Behind(d, Fresh), r) = Behind(d, PushAll(f, level, Fresh, r))
    BY <1>16, <2>1, PushesBehind, SMT
  <2> QED
    BY <1>11, <2>2
<1>13. PushAll(f, level, Fresh, r) \in Emitters(level, E)
  BY FreshTyped, PushAllTyped
<1>14. Flush(level, Behind(d, PushAll(f, level, Fresh, r))) = d \o Flush(level, PushAll(f, level, Fresh, r))
  BY <1>5, <1>13, FlushBehind
<1>15. Level(f, level, pre \o r) = d \o Level(f, level, r)
  BY <1>10, <1>12, <1>14 DEF Level
<1> QED
  BY <1>15 DEF Resumes, pre, p, d

\* Replacing the entries after a node, all but the one that follows it, leaves the nodes up
\* to there as they are, and the rest comes out as if it stood alone. Without that entry
\* the claim fails: a node that was closed by the byte cap would take a smaller one. Hence
\* apply_impl starts its replay one leaf before the one its first mutation belongs to.
THEOREM LevelResumes ==
    ASSUME NEW f, NEW level, NEW E, NEW s \in Seq(E), NEW ends,
           Chunks(f, level, s, Level(f, level, s), ends),
           NEW k \in 0 .. Len(Level(f, level, s)), NEW r \in Seq(E),
           k > 0 => ends[k] < Len(s) /\ r # <<>> /\ r[1] = s[ends[k] + 1]
    PROVE  Level(f, level, SubSeq(s, 1, ends[k]) \o r)
               = SubSeq(Level(f, level, s), 1, k) \o Level(f, level, r)
\* The chunks of a level end where its emitter closed them.
<1>1. Holds(f, level, s, Len(s), Level(f, level, s), <<>>, ends)
  <2> DEFINE nodes == Level(f, level, s)
  <2>1. nodes \in Seq(Nodes(level, E))
    BY LevelTyped
  <2>2. PICK p : Holds(f, level, s, Len(s), nodes, <<>>, p)
    BY LevelHolds
  <2> HIDE DEF nodes
  <2>3. Chunks(f, level, s, nodes, p)
    BY <2>1, <2>2, HoldsChunks
  <2>4. Chunks(f, level, s, nodes, ends)
    BY DEF nodes
  <2>5. p = ends
    BY <2>1, <2>3, <2>4, ChunksUnique
  <2> QED
    BY <2>2, <2>5 DEF nodes
<1> DEFINE nodes == Level(f, level, s)
<1>2. nodes \in Seq(Nodes(level, E)) /\ Holds(f, level, s, Len(s), nodes, <<>>, ends)
  BY LevelTyped, <1>1
<1>3. Level(f, level, r) \in Seq(Nodes(level, E))
  BY LevelTyped
<1> HIDE DEF nodes
<1>4. CASE k = 0
  <2>1. ends[k] = 0
    BY <1>4 DEF Chunks
  <2>2. SubSeq(s, 1, 0) \o r = r
    BY SMT
  <2>3. SubSeq(nodes, 1, 0) \o Level(f, level, r) = Level(f, level, r)
    <3> DEFINE S == Nodes(level, E)
               y == Level(f, level, r)
    <3>1. nodes \in Seq(S) /\ y \in Seq(S)
      BY <1>2, <1>3
    <3> HIDE DEF S, y
    <3>2. SubSeq(nodes, 1, 0) \o y = y
      BY <3>1, SMT
    <3> QED
      BY <3>2 DEF y
  <2> QED
    BY <1>4, <2>1, <2>2, <2>3 DEF nodes
<1>5. CASE k # 0
  <2>1. k \in 1 .. Len(nodes) /\ k > 0
    BY <1>5, SMT DEF nodes
  <2> QED
    <3>1. ends[k] < Len(s) /\ r # <<>> /\ r[1] = s[ends[k] + 1]
      BY <2>1
    <3>2. Resumes(f, level, s, nodes, ends[k], k, r)
      BY <1>2, <2>1, <3>1, ResumeHolds
    <3> QED
      BY <3>2 DEF Resumes, nodes
<1> QED
  BY <1>4, <1>5

\* An emitter that starts afresh with the first entry of a node produces the nodes from
\* there on: the reader of old leaves in apply_impl can be set down on any leaf.
THEOREM LevelSuffix ==
    ASSUME NEW f, NEW level, NEW E, NEW s \in Seq(E), NEW ends,
           Chunks(f, level, s, Level(f, level, s), ends),
           NEW k \in 0 .. Len(Level(f, level, s))
    PROVE  Level(f, level, SubSeq(s, ends[k] + 1, Len(s)))
               = SubSeq(Level(f, level, s), k + 1, Len(Level(f, level, s)))
\* A sequence is its first p entries and then the others.
<1>1. ASSUME NEW p \in 0 .. Len(s)
      PROVE  /\ SubSeq(s, 1, p) \o SubSeq(s, p + 1, Len(s)) = s
             /\ p < Len(s) => /\ SubSeq(s, p + 1, Len(s)) # <<>>
                              /\ SubSeq(s, p + 1, Len(s))[1] = s[p + 1]
  <2> DEFINE y == SubSeq(s, p + 1, Len(s))
  <2>1. Len(s) \in 0 .. Len(s) /\ p <= Len(s)
    BY SMT
  <2>2. SubSeq(s, 1, p) \o y = SubSeq(s, 1, Len(s))
    BY <2>1, SubJoin
  <2>3. SubSeq(s, 1, Len(s)) = s
    BY SMT
  <2>4. y \in Seq(E) /\ Len(y) = Len(s) - p /\ \A i \in 1 .. Len(s) - p : y[i] = s[p + i]
    BY SMT
  <2> HIDE DEF y
  <2>5. p < Len(s) => y # <<>> /\ y[1] = s[p + 1]
    BY <2>4, SMT
  <2> QED
    BY <2>2, <2>3, <2>5 DEF y
<1> DEFINE nodes == Level(f, level, s)
           p == ends[k]
           r == SubSeq(s, p + 1, Len(s))
           S == Nodes(level, E)
<1>2. nodes \in Seq(S)
  BY LevelTyped
<1>3. k \in 0 .. Len(nodes) /\ k \in Nat
  BY SMT
<1>4. Chunks(f, level, s, nodes, ends)
  OBVIOUS
<1>5. nodes = Level(f, level, s)
  OBVIOUS
<1> HIDE DEF nodes, S, p
<1>6. p \in 0 .. Len(s)
  BY <1>3, <1>4 DEF Chunks, p
<1>7. /\ r \in Seq(E) /\ SubSeq(s, 1, p) \o r = s
      /\ p < Len(s) => r # <<>> /\ r[1] = s[p + 1]
      /\ ~ (p < Len(s)) => r = <<>> /\ p = Len(s)
  <2>1. p \in Nat /\ p <= Len(s) /\ Len(s) \in Nat
    BY <1>6, SMT
  <2>2. r \in Seq(E)
    BY <2>1, SMT
  <2>3. SubSeq(s, 1, p) \o r = s
    BY <1>6, <1>1
  <2>4. p < Len(s) => r # <<>> /\ r[1] = s[p + 1]
    BY <1>6, <1>1
  <2>5. ~ (p < Len(s)) => r = <<>> /\ p = Len(s)
    BY <2>1, SMT
  <2> QED
    BY <2>2, <2>3, <2>4, <2>5
<1> HIDE DEF r
<1>8. Level(f, level, r) \in Seq(S)
  BY <1>7, LevelTyped DEF S
<1>9. CASE p < Len(s)
  <2>1. Level(f, level, SubSeq(s, 1, p) \o r) = SubSeq(nodes, 1, k) \o Level(f, level, r)
    <3>1. k > 0 => ends[k] < Len(s) /\ r # <<>> /\ r[1] = s[ends[k] + 1]
      BY <1>7, <1>9 DEF p
    <3>2. r \in Seq(E)
      BY <1>7
    <3>3. Level(f, level, SubSeq(s, 1, ends[k]) \o r)
              = SubSeq(Level(f, level, s), 1, k) \o Level(f, level, r)
      BY <3>1, <3>2, LevelResumes, SMT
    <3> QED
      BY <1>5, <3>3 DEF p
  <2> DEFINE y == Level(f, level, r)
  <2>2. nodes = SubSeq(nodes, 1, k) \o y /\ y \in Seq(S)
    BY <1>5, <1>7, <1>8, <2>1
  <2> HIDE DEF y
  <2>3. y = SubSeq(nodes, k + 1, Len(nodes))
    BY <1>2, <1>3, <2>2, SMT
  <2> QED
    BY <1>5, <2>3 DEF y, r, p
<1>10. CASE ~ (p < Len(s))
  <2>1. ~ (k < Len(nodes))
    BY <1>2, <1>3, <1>4, <1>10, EndsInOrder DEF p
  <2>2. SubSeq(nodes, k + 1, Len(nodes)) = <<>>
    BY <1>2, <1>3, <2>1, SMT
  <2>3. Level(f, level, <<>>) = <<>>
    BY LevelNone
  <2> QED
    BY <1>5, <1>7, <1>10, <2>2, <2>3 DEF r, p
<1> QED
  BY <1>9, <1>10

\* An emitter with nothing open starts afresh.
LEMMA CleanBoundary ==
    ASSUME NEW f, NEW level, NEW E, NEW x \in Seq(E), NEW y \in Seq(E),
           PushAll(f, level, Fresh, x).open = <<>>
    PROVE  Level(f, level, x \o y) = PushAll(f, level, Fresh, x).done \o Level(f, level, y)
<1> DEFINE em == PushAll(f, level, Fresh, x)
           S == Nodes(level, E)
<1>1. em \in Emitters(level, E)
  BY FreshTyped, PushAllTyped
<1>2. Fresh \in Emitters(level, E) /\ PushAll(f, level, Fresh, y) \in Emitters(level, E)
  BY FreshTyped, PushAllTyped
<1>3. em.done \in Seq(S) /\ em = [done |-> em.done, open |-> <<>>]
  BY <1>1, SMT DEF Emitters
<1> HIDE DEF em, S
<1>4. em.done \o <<>> = em.done
  BY <1>3, SMT
<1>5. em = Behind(em.done, Fresh)
  BY <1>3, <1>4 DEF Behind, Fresh
<1>6. PushAll(f, level, Fresh, x \o y) = PushAll(f, level, em, y)
  BY PushesConcat, SMT DEF em
<1>7. PushAll(f, level, Behind(em.done, Fresh), y) = Behind(em.done, PushAll(f, level, Fresh, y))
  <2>1. em.done \in Seq(Nodes(level, E))
    BY <1>3 DEF S
  <2> QED
    BY <1>2, <2>1, PushesBehind, SMT
<1>8. Flush(level, Behind(em.done, PushAll(f, level, Fresh, y)))
          = em.done \o Flush(level, PushAll(f, level, Fresh, y))
  BY <1>2, <1>3, FlushBehind DEF S
<1> QED
  BY <1>5, <1>6, <1>7, <1>8 DEF Level, em

\* The splice of replay_mutation_island: the leaves from .. at are replaced by what a new
\* emitter makes of the entries mid. When the entry that starts the first of them is kept
\* (unless it starts the level) and the emitter ends with nothing open, which is what
\* is_aligned_with asks for, the level is the one the builder makes of all the entries.
THEOREM LevelSplices ==
    ASSUME NEW f, NEW level, NEW E, NEW s \in Seq(E), NEW ends,
           Chunks(f, level, s, Level(f, level, s), ends),
           NEW from \in 1 .. Len(Level(f, level, s)), NEW at \in from .. Len(Level(f, level, s)),
           NEW mid \in Seq(E),
           from > 1 => mid # <<>> /\ mid[1] = s[ends[from - 1] + 1],
           PushAll(f, level, Fresh, mid).open = <<>>
    PROVE  Level(f, level, SubSeq(s, 1, ends[from - 1]) \o mid \o SubSeq(s, ends[at] + 1, Len(s)))
               = SubSeq(Level(f, level, s), 1, from - 1) \o PushAll(f, level, Fresh, mid).done
                     \o SubSeq(Level(f, level, s), at + 1, Len(Level(f, level, s)))
<1> DEFINE nodes == Level(f, level, s)
           k == from - 1
           pre == SubSeq(s, 1, ends[k])
           post == SubSeq(s, ends[at] + 1, Len(s))
           D == PushAll(f, level, Fresh, mid).done
           S == Nodes(level, E)
<1>1. nodes \in Seq(S)
  BY LevelTyped
<1>2. k \in 0 .. Len(nodes) /\ at \in 0 .. Len(nodes) /\ k \in Nat /\ (k > 0 => from > 1 /\ k < Len(nodes))
  BY SMT
<1>3. Chunks(f, level, s, nodes, ends)
  OBVIOUS
<1>4. D \in Seq(S)
  BY FreshTyped, PushAllTyped DEF Emitters
<1>5. k > 0 => mid # <<>> /\ mid[1] = s[ends[k] + 1]
  BY <1>2
<1>8. ends[at] \in 0 .. Len(s) /\ ends[k] \in 0 .. Len(s)
  BY <1>2, <1>3 DEF Chunks
<1>9. post \in Seq(E)
  BY <1>8, SMT
<1>10. pre \in Seq(E)
  BY <1>8, SMT
<1>6. Level(f, level, mid \o post) = D \o Level(f, level, post)
  <2> HIDE DEF post
  <2> QED
    BY <1>9, CleanBoundary, SMT
<1>7. Level(f, level, post) = SubSeq(nodes, at + 1, Len(nodes))
  BY <1>2, LevelSuffix, SMT
<1>11. k > 0 => ends[k] < Len(s)
  BY <1>1, <1>2, <1>3, EndsInOrder
<1> DEFINE r == mid \o post
           T == SubSeq(nodes, at + 1, Len(nodes))
           H == SubSeq(nodes, 1, k)
<1>12. T \in Seq(S) /\ H \in Seq(S)
  <2> HIDE DEF nodes, S
  <2> QED
    BY <1>1, <1>2, SMT
<1> HIDE DEF S, D, T, H, pre, post, nodes
<1>13. r \in Seq(E) /\ (mid # <<>> => r # <<>> /\ r[1] = mid[1])
  BY <1>9, SMT
<1>14. (pre \o mid) \o post = pre \o r
  BY <1>9, <1>10, SMT
<1>15. (H \o D) \o T = H \o (D \o T)
  <2>1. Associates(H, D, T)
    BY <1>4, <1>12, Associative
  <2> QED
    BY <2>1 DEF Associates
<1> HIDE DEF r
<1>16. Level(f, level, pre \o r) = H \o Level(f, level, r)
  <2>1. k > 0 => ends[k] < Len(s) /\ r # <<>> /\ r[1] = s[ends[k] + 1]
    BY <1>5, <1>11, <1>13
  <2>2. k \in 0 .. Len(Level(f, level, s)) /\ r \in Seq(E)
    BY <1>2, <1>13 DEF nodes
  <2> HIDE DEF k
  <2>3. Level(f, level, SubSeq(s, 1, ends[k]) \o r)
            = SubSeq(Level(f, level, s), 1, k) \o Level(f, level, r)
    BY <2>1, <2>2, LevelResumes, SMT
  <2> QED
    BY <2>3 DEF pre, H, nodes
<1>17. Level(f, level, (pre \o mid) \o post) = (H \o D) \o T
  BY <1>6, <1>7, <1>14, <1>15, <1>16 DEF r, T
<1> QED
  BY <1>17 DEF pre, post, H, D, T, nodes

-----------------------------------------------------------------------------
(* Sets of entries, and sequences of them in key order. *)

\* Every entry of A has its own key.
Keyed(A) ==
    /\ IsFiniteSet(A)
    /\ \A e \in A : e.key \in Int
    /\ \A d, e \in A : d.key = e.key => d = e

\* The keys increase along s.
Increasing(s) == \A i, j \in 1 .. Len(s) : i < j => s[i].key < s[j].key

\* s lists the entries of A in key order.
InOrder(s, A) == s \in Seq(A) /\ Increasing(s) /\ A = {s[i] : i \in 1 .. Len(s)}

\* An entry with a greater key goes to the end.
LEMMA AppendInOrder ==
    ASSUME NEW A, NEW s, NEW x, InOrder(s, A), \A e \in A : e.key \in Int /\ e.key < x.key
    PROVE  InOrder(Append(s, x), A \cup {x})
<1>1. s \in Seq(A) /\ Increasing(s) /\ A = {s[i] : i \in 1 .. Len(s)}
  BY DEF InOrder
<1>2. s \in Seq(A \cup {x})
  BY <1>1, SMT
<1> DEFINE t == Append(s, x)
<1>3. /\ t \in Seq(A \cup {x}) /\ Len(t) = Len(s) + 1 /\ Len(s) \in Nat
      /\ \A i \in 1 .. Len(s) : t[i] = s[i] /\ s[i] \in A
      /\ t[Len(s) + 1] = x
  BY <1>1, <1>2, SMT
<1> HIDE DEF t
<1>4. ASSUME NEW i \in 1 .. Len(t), NEW j \in 1 .. Len(t), i < j PROVE t[i].key < t[j].key
  <2>1. i \in 1 .. Len(s) /\ (j \in 1 .. Len(s) \/ j = Len(s) + 1)
    BY <1>3, <1>4, SMT
  <2>2. CASE j \in 1 .. Len(s)
    <3>1. t[i] = s[i] /\ t[j] = s[j] /\ s[i].key < s[j].key
      BY <1>1, <1>3, <1>4, <2>1, <2>2 DEF Increasing
    <3> QED
      BY <3>1
  <2>3. CASE j = Len(s) + 1
    <3>1. t[i] = s[i] /\ s[i] \in A /\ t[j] = x
      BY <1>3, <2>1, <2>3
    <3> QED
      BY <3>1
  <2> QED
    BY <2>1, <2>2, <2>3
<1>5. 1 .. Len(t) = (1 .. Len(s)) \cup {Len(s) + 1}
  BY <1>3, SMT
<1>6. A \cup {x} = {t[i] : i \in 1 .. Len(t)}
  <2>1. A = {t[i] : i \in 1 .. Len(s)}
    BY <1>1, <1>3
  <2> QED
    BY <1>3, <1>5, <2>1
<1> QED
  BY <1>3, <1>4, <1>6 DEF InOrder, Increasing, t

\* A part of a set of entries with distinct keys is one.
LEMMA KeyedSubset ==
    ASSUME NEW A, Keyed(A), NEW B \in SUBSET A
    PROVE  Keyed(B)
BY FS_Subset DEF Keyed

\* The last of a sequence in order has the greatest key.
LEMMA LastGreatest ==
    ASSUME NEW A, NEW s, InOrder(s, A), A # {}
    PROVE  /\ Len(s) \in Nat /\ Len(s) \in 1 .. Len(s) /\ s[Len(s)] \in A
           /\ \A e \in A : e # s[Len(s)] => e.key < s[Len(s)].key
<1>1. s \in Seq(A) /\ Increasing(s) /\ A = {s[i] : i \in 1 .. Len(s)}
  BY DEF InOrder
<1>2. Len(s) \in Nat
  BY <1>1, SMT
<1>3. PICK k \in 1 .. Len(s) : TRUE
  BY <1>1
<1>4. Len(s) \in 1 .. Len(s)
  BY <1>2, <1>3, SMT
<1>5. ASSUME NEW e \in A, e # s[Len(s)] PROVE e.key < s[Len(s)].key
  <2>1. PICK i \in 1 .. Len(s) : e = s[i]
    BY <1>1
  <2>2. i # Len(s)
    BY <1>5, <2>1
  <2>3. i < Len(s)
    BY <1>2, <2>2, SMT
  <2> QED
    BY <1>1, <1>4, <2>1, <2>3 DEF Increasing
<1> QED
  BY <1>1, <1>2, <1>4, <1>5

\* Entries with distinct keys can be put in key order.
LEMMA OrderExists ==
    ASSUME NEW A, Keyed(A)
    PROVE  \E s : InOrder(s, A)
<1> DEFINE T == {n \in Nat : \A B : Keyed(B) /\ Cardinality(B) = n => \E s : InOrder(s, B)}
<1>1. 0 \in T
  <2>1. ASSUME NEW B, Keyed(B), Cardinality(B) = 0 PROVE \E s : InOrder(s, B)
    <3>1. B = {}
      BY <2>1, FS_EmptySet DEF Keyed
    <3>2. <<>> \in Seq(B) /\ Len(<<>>) = 0 /\ 1 .. 0 = {}
      BY SMT
    <3>3. InOrder(<<>>, B)
      BY <3>1, <3>2 DEF InOrder, Increasing
    <3> QED
      BY <3>3
  <2>2. 0 \in Nat
    BY SMT
  <2> QED
    BY <2>1, <2>2
<1>2. ASSUME NEW n \in Nat, n \in T PROVE n + 1 \in T
  <2>1. n + 1 \in Nat /\ n + 1 # 0 /\ n + 1 - 1 = n
    BY SMT
  <2>2. ASSUME NEW B, Keyed(B), Cardinality(B) = n + 1 PROVE \E s : InOrder(s, B)
    <3>1. IsFiniteSet(B) /\ B # {}
      BY <2>1, <2>2, FS_EmptySet DEF Keyed
    <3>2. PICK x : x \in B
      BY <3>1
    <3>3. ASSUME NEW y \in B PROVE \E s : InOrder(s, B \ {y})
      <4>1. Cardinality(B \ {y}) = n
        BY <2>1, <2>2, <3>1, FS_RemoveElement, SMT
      <4>2. Keyed(B \ {y})
        BY <2>2, KeyedSubset
      <4> QED
        BY <1>2, <4>1, <4>2
    <3>4. ASSUME NEW y \in B, \A e \in B : e # y => e.key < y.key PROVE \E s : InOrder(s, B)
      <4>1. PICK s : InOrder(s, B \ {y})
        BY <3>3
      <4>2. \A e \in B \ {y} : e.key \in Int /\ e.key < y.key
        BY <2>2, <3>4 DEF Keyed
      <4>3. InOrder(Append(s, y), (B \ {y}) \cup {y})
        BY <4>1, <4>2, AppendInOrder
      <4>4. (B \ {y}) \cup {y} = B
        BY <3>4
      <4> QED
        BY <4>3, <4>4
    <3>5. PICK s : InOrder(s, B \ {x})
      BY <3>2, <3>3
    <3>6. CASE B \ {x} = {}
      <4>1. \A e \in B : e # x => e.key < x.key
        BY <3>6
      <4> QED
        BY <3>2, <3>4, <4>1
    <3>7. CASE B \ {x} # {}
      <4> DEFINE m == s[Len(s)]
      <4>1. m \in B \ {x} /\ \A e \in B \ {x} : e # m => e.key < m.key
        BY <3>5, <3>7, LastGreatest
      <4> HIDE DEF m
      <4>2. x.key \in Int /\ m.key \in Int /\ x.key # m.key /\ \A e \in B : e.key \in Int
        BY <2>2, <3>2, <4>1 DEF Keyed
      <4>3. x.key < m.key \/ m.key < x.key
        BY <4>2, SMT
      <4>4. CASE x.key < m.key
        <5>1. \A e \in B : e # m => e.key < m.key
          BY <4>1, <4>4
        <5> QED
          BY <3>4, <4>1, <5>1
      <4>5. CASE m.key < x.key
        <5>1. ASSUME NEW e \in B, e # x PROVE e.key < x.key
          <6>1. e = m \/ e.key < m.key
            BY <4>1, <5>1
          <6>2. e.key \in Int
            BY <4>2
          <6> QED
            BY <4>2, <4>5, <6>1, <6>2, SMT
        <5> QED
          BY <3>2, <3>4, <5>1
      <4> QED
        BY <4>3, <4>4, <4>5
    <3> QED
      BY <3>6, <3>7
  <2> QED
    BY <2>1, <2>2
<1> HIDE DEF T
<1>3. \A n \in Nat : n \in T
  BY <1>1, <1>2, Induction
<1>4. Cardinality(A) \in Nat
  BY FS_CardinalityType DEF Keyed
<1> QED
  BY <1>3, <1>4 DEF T

\* The first m entries of s are m entries.
Counts(s, m) == IsFiniteSet({s[j] : j \in 1 .. m}) /\ Cardinality({s[j] : j \in 1 .. m}) = m

\* The order is unique, and Sorted finds it.
LEMMA SortedInOrder ==
    ASSUME NEW A, NEW s, InOrder(s, A), \A e \in A : e.key \in Int
    PROVE  Sorted(A) = s
\* The entries of a sequence in order are distinct.
<1>1. ASSUME NEW m \in 0 .. Len(s)
      PROVE  Counts(s, m)
  <2> DEFINE T == {s[j] : j \in 1 .. m}
             g == [j \in 1 .. m |-> s[j]]
  <2>1. s \in Seq(A) /\ Increasing(s)
    BY DEF InOrder
  <2>2. m \in Nat /\ \A j \in 1 .. m : j \in 1 .. Len(s) /\ s[j] \in A
    BY <2>1, SMT
  <2>3. g \in Surjection(1 .. m, T)
    BY DEF Surjection
  <2>4. ASSUME NEW i \in 1 .. m, NEW j \in 1 .. m, s[i] = s[j] PROVE i = j
    <3>1. ~ (i < j) /\ ~ (j < i)
      <4>1. i < j => s[i].key < s[j].key
        BY <2>1, <2>2 DEF Increasing
      <4>2. j < i => s[j].key < s[i].key
        BY <2>1, <2>2 DEF Increasing
      <4>3. s[i].key \in Int /\ s[j].key \in Int
        BY <2>2
      <4> QED
        BY <2>4, <4>1, <4>2, <4>3, SMT
    <3> QED
      BY <2>2, <3>1, SMT
  <2>5. g \in Injection(1 .. m, T)
    <3>1. ASSUME NEW i \in 1 .. m, NEW j \in 1 .. m, g[i] = g[j] PROVE i = j
      BY <2>4, <3>1
    <3>2. g \in [1 .. m -> T]
      OBVIOUS
    <3> QED
      BY <3>1, <3>2 DEF Injection, IsInjective
  <2>6. IsFiniteSet(1 .. m) /\ Cardinality(1 .. m) = m
    <3>1. 1 \in Int /\ m \in Int
      BY <2>2, SMT
    <3>2. IsFiniteSet(1 .. m) /\ Cardinality(1 .. m) = IF 1 > m THEN 0 ELSE m - 1 + 1
      BY <3>1, FS_Interval
    <3> QED
      BY <2>2, <3>2, SMT
  <2> HIDE DEF T, g
  <2>7. IsFiniteSet(T) /\ Cardinality(T) = Cardinality(1 .. m)
    BY <2>3, <2>5, <2>6, FS_Surjection
  <2> QED
    BY <2>6, <2>7 DEF T, Counts
<1>2. s \in Seq(A) /\ Increasing(s) /\ A = {s[i] : i \in 1 .. Len(s)}
  BY DEF InOrder
<1>3. /\ Len(s) \in Nat /\ Len(s) \in 0 .. Len(s) /\ s = [i \in 1 .. Len(s) |-> s[i]]
      /\ \A i \in 1 .. Len(s) : s[i] \in A
  BY <1>2, SMT
<1>4. Cardinality(A) = Len(s)
  <2> DEFINE k == Len(s)
             T == {s[j] : j \in 1 .. k}
  <2>1. k \in 0 .. Len(s)
    BY <1>3
  <2>2. A = T
    BY <1>2
  <2> HIDE DEF k
  <2>3. Counts(s, k)
    BY <2>1, <1>1
  <2> QED
    BY <2>2, <2>3 DEF k, Counts
<1>5. ASSUME NEW i \in 1 .. Len(s)
      PROVE  Cardinality({d \in A : d.key < s[i].key}) = i - 1
  <2>1. ASSUME NEW j \in 1 .. Len(s) PROVE s[j].key < s[i].key <=> j \in 1 .. i - 1
    <3>1. j < i => s[j].key < s[i].key
      BY <1>2 DEF Increasing
    <3>2. i < j => s[i].key < s[j].key
      BY <1>2 DEF Increasing
    <3>3. s[i].key \in Int /\ s[j].key \in Int
      BY <1>3
    <3> QED
      BY <3>1, <3>2, <3>3, SMT
  <2>2. \A j \in 1 .. i - 1 : j \in 1 .. Len(s)
    BY SMT
  <2>3. {d \in A : d.key < s[i].key} = {s[j] : j \in 1 .. i - 1}
    BY <1>2, <2>1, <2>2
  <2>4. i - 1 \in 0 .. Len(s)
    BY SMT
  <2> DEFINE k == i - 1
             T == {s[j] : j \in 1 .. k}
  <2>5. k \in 0 .. Len(s)
    BY <2>4
  <2> HIDE DEF k
  <2>6. Counts(s, k)
    BY <2>5, <1>1
  <2>7. {d \in A : d.key < s[i].key} = T
    BY <2>3 DEF k
  <2> QED
    BY <2>6, <2>7 DEF k, Counts
<1>6. ASSUME NEW i \in 1 .. Len(s)
      PROVE  (CHOOSE e \in A : Cardinality({d \in A : d.key < e.key}) = i - 1) = s[i]
  <2>1. ASSUME NEW e \in A, Cardinality({d \in A : d.key < e.key}) = i - 1 PROVE e = s[i]
    <3>1. PICK j \in 1 .. Len(s) : e = s[j]
      BY <1>2
    <3>2. j - 1 = i - 1
      BY <1>5, <2>1, <3>1
    <3>3. j = i
      BY <3>2, SMT
    <3> QED
      BY <3>1, <3>3
  <2> QED
    BY <1>3, <1>5, <2>1
<1> QED
  BY <1>3, <1>4, <1>6 DEF Sorted

\* Sorted lists the entries in key order.
LEMMA SortedOrders ==
    ASSUME NEW A, Keyed(A)
    PROVE  InOrder(Sorted(A), A)
<1>1. PICK s : InOrder(s, A)
  BY OrderExists
<1>2. Sorted(A) = s
  BY <1>1, SortedInOrder DEF Keyed
<1> QED
  BY <1>1, <1>2

\* Entries with smaller keys come first.
LEMMA SortedConcat ==
    ASSUME NEW A, NEW B, Keyed(A), Keyed(B), \A a \in A, b \in B : a.key < b.key
    PROVE  Sorted(A \cup B) = Sorted(A) \o Sorted(B)
<1> DEFINE s == Sorted(A)
           t == Sorted(B)
           u == s \o t
           C == A \cup B
<1>1. InOrder(s, A) /\ InOrder(t, B)
  BY SortedOrders
<1>2. /\ s \in Seq(A) /\ Increasing(s) /\ A = {s[i] : i \in 1 .. Len(s)}
      /\ t \in Seq(B) /\ Increasing(t) /\ B = {t[i] : i \in 1 .. Len(t)}
  BY <1>1 DEF InOrder
<1> HIDE DEF s, t
<1>3. s \in Seq(C) /\ t \in Seq(C)
  BY <1>2, SMT
<1>4. /\ Len(s) \in Nat /\ Len(t) \in Nat
      /\ u \in Seq(C) /\ Len(u) = Len(s) + Len(t)
      /\ \A i \in 1 .. Len(s) : u[i] = s[i]
      /\ \A i \in 1 .. Len(t) : u[Len(s) + i] = t[i]
  BY <1>3, SMT
<1>5. /\ \A i \in 1 .. Len(s) : s[i] \in A
      /\ \A i \in 1 .. Len(t) : t[i] \in B
  BY <1>2
<1> HIDE DEF u
<1>6. ASSUME NEW i \in 1 .. Len(u)
      PROVE  \/ i \in 1 .. Len(s) /\ u[i] = s[i]
             \/ /\ i \notin 1 .. Len(s) /\ i - Len(s) \in 1 .. Len(t)
                /\ u[i] = t[i - Len(s)]
  <2>1. CASE i \in 1 .. Len(s)
    BY <1>4, <2>1
  <2>2. CASE i \notin 1 .. Len(s)
    <3> DEFINE k == i - Len(s)
    <3>1. k \in 1 .. Len(t) /\ Len(s) + k = i
      BY <1>4, <2>2, SMT
    <3> HIDE DEF k
    <3>2. u[i] = t[k]
      BY <1>4, <3>1
    <3> QED
      BY <2>2, <3>1, <3>2 DEF k
  <2> QED
    BY <2>1, <2>2
<1>7. Increasing(u)
  <2>1. ASSUME NEW i \in 1 .. Len(u), NEW j \in 1 .. Len(u), i < j PROVE u[i].key < u[j].key
    <3>1. CASE i \in 1 .. Len(s) /\ j \in 1 .. Len(s)
      BY <1>2, <1>4, <2>1, <3>1 DEF Increasing
    <3>2. CASE i \in 1 .. Len(s) /\ j \notin 1 .. Len(s)
      <4>1. u[i] \in A /\ u[j] \in B
        BY <1>5, <1>6, <3>2
      <4> QED
        BY <4>1
    <3>3. CASE i \notin 1 .. Len(s)
      <4>1. j \notin 1 .. Len(s) /\ i - Len(s) < j - Len(s)
        BY <1>4, <2>1, <3>3, SMT
      <4>2. /\ i - Len(s) \in 1 .. Len(t) /\ u[i] = t[i - Len(s)]
            /\ j - Len(s) \in 1 .. Len(t) /\ u[j] = t[j - Len(s)]
        BY <1>6, <3>3, <4>1
      <4>3. t[i - Len(s)].key < t[j - Len(s)].key
        BY <1>2, <4>1, <4>2 DEF Increasing
      <4> QED
        BY <4>2, <4>3
    <3> QED
      BY <3>1, <3>2, <3>3
  <2> QED
    BY <2>1 DEF Increasing
<1>8. C = {u[i] : i \in 1 .. Len(u)}
  <2>1. ASSUME NEW e \in C PROVE \E i \in 1 .. Len(u) : e = u[i]
    <3>1. CASE e \in A
      <4>1. PICK i \in 1 .. Len(s) : e = s[i]
        BY <1>2, <3>1
      <4>2. i \in 1 .. Len(u) /\ e = u[i]
        BY <1>4, <4>1, SMT
      <4> QED
        BY <4>2
    <3>2. CASE e \in B
      <4>1. PICK i \in 1 .. Len(t) : e = t[i]
        BY <1>2, <3>2
      <4>2. Len(s) + i \in 1 .. Len(u)
        BY <1>4, SMT
      <4>3. e = u[Len(s) + i]
        BY <1>4, <4>1
      <4> QED
        BY <4>2, <4>3
    <3> QED
      BY <3>1, <3>2
  <2>2. ASSUME NEW i \in 1 .. Len(u) PROVE u[i] \in C
    BY <1>5, <1>6
  <2> QED
    BY <2>1, <2>2
<1>9. InOrder(u, C)
  BY <1>4, <1>7, <1>8 DEF InOrder
<1>10. \A e \in C : e.key \in Int
  BY DEF Keyed
<1> HIDE DEF C
<1>11. Sorted(C) = u
  BY <1>9, <1>10, SortedInOrder
<1> QED
  BY <1>11 DEF C, u, s, t

-----------------------------------------------------------------------------
(* The leaves of a tree and their cuts. *)

\* L are the leaves that hold the entries s, which come from E.
Leafed(f, E, s, L, ends) ==
    /\ \A e \in E : e.key \in Int
    /\ s \in Seq(E) /\ s # <<>> /\ Increasing(s)
    /\ L = Level(f, 0, s)
    /\ Chunks(f, 0, s, L, ends)

\* The key comes before the leaf c; every key does before the end.
Under(L, c, k) == c > Len(L) \/ (c > 1 /\ k < FirstKey(L[c]))

\* The entries of A from the leaf a on, up to the leaf b.
Between(L, A, a, b) == {e \in A : ~ Under(L, a, e.key) /\ Under(L, b, e.key)}

\* The keys from the leaf c on.
From(L, K, c) == {k \in K : ~ Under(L, c, k)}

\* What the parts of Leafed are.
LeavesTyped(E, s, L, ends) ==
    /\ Len(s) \in Nat /\ Len(s) > 0 /\ DOMAIN s = 1 .. Len(s)
    /\ \A i \in 1 .. Len(s) : s[i] \in E /\ s[i].key \in Int
    /\ L \in Seq(Nodes(0, E)) /\ Len(L) \in Nat /\ Len(L) > 0 /\ DOMAIN L = 1 .. Len(L)
    /\ ends \in [0 .. Len(L) -> 0 .. Len(s)]
    /\ ends[0] = 0 /\ ends[Len(L)] = Len(s)

\* The types of the leaves and of their ends.
LEMMA LeafedTyped ==
    ASSUME NEW f, NEW E, NEW s, NEW L, NEW ends, Leafed(f, E, s, L, ends)
    PROVE  LeavesTyped(E, s, L, ends)
<1>1. s \in Seq(E) /\ s # <<>> /\ L = Level(f, 0, s) /\ \A e \in E : e.key \in Int
  BY DEF Leafed
<1>2. L \in Seq(Nodes(0, E))
  BY <1>1, LevelTyped
<1>3. ends \in [0 .. Len(L) -> 0 .. Len(s)] /\ ends[0] = 0 /\ ends[Len(L)] = Len(s)
  BY DEF Leafed, Chunks
<1>4. Len(s) \in Nat /\ Len(s) > 0 /\ DOMAIN s = 1 .. Len(s) /\ \A i \in 1 .. Len(s) : s[i] \in E
  BY <1>1, SMT
<1>5. Len(L) \in Nat /\ DOMAIN L = 1 .. Len(L)
  BY <1>2, SMT
<1>6. Len(L) # 0
  BY <1>3, <1>4, SMT
<1>7. Len(L) > 0
  BY <1>5, <1>6, SMT
<1> QED
  BY <1>1, <1>2, <1>3, <1>4, <1>5, <1>7 DEF LeavesTyped

\* The leaf c begins with the entry after ends[c - 1].
Begins(s, L, ends, c) ==
    /\ c - 1 \in 0 .. Len(L) /\ ends[c - 1] \in Nat /\ ends[c - 1] + 1 \in 1 .. Len(s)
    /\ ends[c] \in 0 .. Len(s) /\ ends[c - 1] < ends[c]
    /\ L[c].entries = SubSeq(s, ends[c - 1] + 1, ends[c])
    /\ FirstKey(L[c]) = s[ends[c - 1] + 1].key
    /\ FirstKey(L[c]) \in Int

\* The entries of a leaf, and its first key.
LEMMA LeafAt ==
    ASSUME NEW f, NEW E, NEW s, NEW L, NEW ends, Leafed(f, E, s, L, ends), NEW c \in 1 .. Len(L)
    PROVE  Begins(s, L, ends, c)
<1> DEFINE a == ends[c - 1]
           b == ends[c]
           t == SubSeq(s, a + 1, b)
<1>1. /\ Len(s) \in Nat /\ s \in Seq(E) /\ Len(L) \in Nat
      /\ \A i \in 1 .. Len(s) : s[i].key \in Int
      /\ ends \in [0 .. Len(L) -> 0 .. Len(s)]
  BY LeafedTyped DEF Leafed, LeavesTyped
<1>2. a < b /\ L[c] = Node(0, t)
  BY DEF Leafed, Chunks
<1>3. c - 1 \in 0 .. Len(L) /\ c \in 0 .. Len(L)
  BY <1>1, SMT
<1>4. a \in 0 .. Len(s) /\ b \in 0 .. Len(s)
  BY <1>1, <1>3
<1> HIDE DEF t
<1>5. L[c].entries = t
  BY <1>2, SMT DEF Node
<1> HIDE DEF a, b
<1>6. a \in Nat /\ a + 1 \in 1 .. Len(s) /\ a <= b
  BY <1>1, <1>2, <1>4, SMT
<1>7. t[1] = s[a + 1]
  <2>1. \A i \in 1 .. b - a : t[i] = s[a + i]
    BY <1>1, <1>4, <1>6, SubTyped DEF t
  <2>2. 1 \in 1 .. b - a
    BY <1>2, <1>4, SMT
  <2> QED
    BY <2>1, <2>2
<1>8. FirstKey(L[c]) = s[a + 1].key
  BY <1>5, <1>7 DEF FirstKey
<1>9. FirstKey(L[c]) \in Int
  BY <1>1, <1>6, <1>8
<1> QED
  BY <1>2, <1>3, <1>4, <1>5, <1>6, <1>8, <1>9 DEF a, b, t, Begins

\* Later leaves end later.
LEMMA EndsIncrease ==
    ASSUME NEW f, NEW E, NEW s, NEW L, NEW ends, Leafed(f, E, s, L, ends),
           NEW a \in 0 .. Len(L), NEW b \in 0 .. Len(L), a <= b
    PROVE  ends[a] <= ends[b] /\ (a < b => ends[a] < ends[b])
<1> DEFINE T == {d \in Nat : a + d <= Len(L) => ends[a] <= ends[a + d] /\ (d > 0 => ends[a] < ends[a + d])}
<1>1. Len(L) \in Nat /\ Len(s) \in Nat /\ ends \in [0 .. Len(L) -> 0 .. Len(s)]
  BY LeafedTyped DEF LeavesTyped
<1>2. 0 \in T
  <2>1. a + 0 = a /\ ends[a] \in Int /\ ~ (0 > 0) /\ 0 \in Nat
    BY <1>1, SMT
  <2>2. ends[a] <= ends[a]
    BY <2>1, SMT
  <2> QED
    BY <2>1, <2>2
<1>3. ASSUME NEW d \in Nat, d \in T PROVE d + 1 \in T
  <2> SUFFICES ASSUME a + (d + 1) <= Len(L)
               PROVE  ends[a] < ends[a + (d + 1)]
    <3>1. d + 1 \in Nat
      BY SMT
    <3>2. a + (d + 1) <= Len(L) => ends[a] \in Int /\ ends[a + (d + 1)] \in Int
      BY <1>1, SMT
    <3>3. a + (d + 1) <= Len(L) => ends[a] <= ends[a + (d + 1)]
      BY <3>2, SMT
    <3> QED
      BY <3>1, <3>3
  <2> DEFINE c == a + (d + 1)
  <2>1. c \in 1 .. Len(L) /\ c - 1 = a + d /\ a + d <= Len(L) /\ a + d \in 0 .. Len(L)
    BY <1>1, SMT
  <2>2. ends[a] <= ends[a + d]
    BY <1>3, <2>1
  <2> HIDE DEF c
  <2>3. ends[c - 1] < ends[c]
    BY <2>1, LeafAt DEF Begins
  <2>4. ends[a + d] < ends[c]
    BY <2>1, <2>3
  <2>5. ends[a] \in 0 .. Len(s) /\ ends[a + d] \in 0 .. Len(s) /\ ends[c] \in 0 .. Len(s)
    <3>1. c \in 0 .. Len(L)
      BY <1>1, <2>1, SMT
    <3> QED
      BY <1>1, <2>1, <3>1
  <2>6. ends[a] < ends[c]
    BY <1>1, <2>2, <2>4, <2>5, SMT
  <2> QED
    BY <2>6 DEF c
<1> HIDE DEF T
<1>4. \A d \in Nat : d \in T
  BY <1>2, <1>3, Induction
<1> DEFINE d == b - a
<1>5. d \in Nat /\ a + d = b /\ b <= Len(L) /\ (a < b => d > 0)
  BY <1>1, SMT
<1> HIDE DEF d
<1>6. d \in T
  BY <1>4, <1>5
<1> QED
  BY <1>5, <1>6 DEF T

\* Later leaves start with greater keys.
LEMMA FirstKeys ==
    ASSUME NEW f, NEW E, NEW s, NEW L, NEW ends, Leafed(f, E, s, L, ends),
           NEW a \in 1 .. Len(L), NEW b \in 1 .. Len(L), a < b
    PROVE  FirstKey(L[a]) < FirstKey(L[b])
<1> DEFINE p == ends[a - 1]
           q == ends[b - 1]
<1>1. Len(L) \in Nat
  <2>1. LeavesTyped(E, s, L, ends)
    BY LeafedTyped
  <2> QED
    BY <2>1 DEF LeavesTyped
<1>2. a - 1 \in 0 .. Len(L) /\ b - 1 \in 0 .. Len(L) /\ a - 1 <= b - 1 /\ a - 1 < b - 1
  BY <1>1, SMT
<1>3. p < q
  BY <1>2, EndsIncrease
<1>4. /\ p \in Nat /\ p + 1 \in 1 .. Len(s) /\ FirstKey(L[a]) = s[p + 1].key
      /\ q \in Nat /\ q + 1 \in 1 .. Len(s) /\ FirstKey(L[b]) = s[q + 1].key
  <2>1. Begins(s, L, ends, a) /\ Begins(s, L, ends, b)
    BY LeafAt
  <2> QED
    BY <2>1 DEF Begins
<1> HIDE DEF p, q
<1>5. p + 1 < q + 1
  BY <1>3, <1>4, SMT
<1>6. s[p + 1].key < s[q + 1].key
  BY <1>4, <1>5 DEF Leafed, Increasing
<1> QED
  BY <1>4, <1>6

\* A key before a leaf comes before the later ones.
LEMMA UnderLater ==
    ASSUME NEW f, NEW E, NEW s, NEW L, NEW ends, Leafed(f, E, s, L, ends),
           NEW a \in 1 .. Len(L) + 1, NEW b \in 1 .. Len(L) + 1, a <= b,
           NEW k \in Int, Under(L, a, k)
    PROVE  Under(L, b, k)
<1>1. Len(L) \in Nat
  <2>1. LeavesTyped(E, s, L, ends)
    BY LeafedTyped
  <2> QED
    BY <2>1 DEF LeavesTyped
<1>2. CASE b > Len(L)
  BY <1>2 DEF Under
<1>3. CASE a = b
  BY <1>3
<1>4. CASE ~ (b > Len(L)) /\ a # b
  <2>1. ~ (a > Len(L)) /\ a \in 1 .. Len(L) /\ b \in 1 .. Len(L) /\ b > 1 /\ a < b
    BY <1>1, <1>4, SMT
  <2>2. FirstKey(L[a]) < FirstKey(L[b])
    BY <2>1, FirstKeys
  <2>3. FirstKey(L[a]) \in Int /\ FirstKey(L[b]) \in Int
    <3>1. Begins(s, L, ends, a) /\ Begins(s, L, ends, b)
      BY <2>1, LeafAt
    <3> QED
      BY <3>1 DEF Begins
  <2>4. k < FirstKey(L[a])
    BY <2>1 DEF Under
  <2>5. k < FirstKey(L[b])
    BY <2>2, <2>3, <2>4, SMT
  <2> QED
    BY <2>1, <2>5 DEF Under
<1> QED
  BY <1>2, <1>3, <1>4

\* The old entries between two leaves are a stretch of s.
Stretch(s, L, ends, a, b) ==
    Sorted(Between(L, Range(s), a, b)) = SubSeq(s, ends[a - 1] + 1, ends[b - 1])

\* The old entries from one leaf up to another are in order in s.
LEMMA OldStretch ==
    ASSUME NEW f, NEW E, NEW s, NEW L, NEW ends, Leafed(f, E, s, L, ends),
           NEW a \in 1 .. Len(L) + 1, NEW b \in 1 .. Len(L) + 1, a <= b
    PROVE  Stretch(s, L, ends, a, b)
\* The entries before the leaf c are the first ends[c - 1] entries.
<1>1. ASSUME NEW c \in 1 .. Len(L) + 1, NEW i \in 1 .. Len(s)
      PROVE  Under(L, c, s[i].key) <=> i <= ends[c - 1]
  <2>1. /\ Len(L) \in Nat /\ Len(L) > 0 /\ Len(s) \in Nat /\ ends[0] = 0 /\ ends[Len(L)] = Len(s)
        /\ \A j \in 1 .. Len(s) : s[j].key \in Int
    <3>1. LeavesTyped(E, s, L, ends)
      BY LeafedTyped
    <3> QED
      BY <3>1 DEF LeavesTyped
  <2>2. CASE c = Len(L) + 1
    <3>1. c > Len(L) /\ c - 1 = Len(L) /\ i <= Len(s)
      BY <2>1, <2>2, SMT
    <3> QED
      BY <2>1, <3>1 DEF Under
  <2>3. CASE c = 1
    <3>1. ~ (c > Len(L)) /\ ~ (c > 1) /\ c - 1 = 0 /\ ~ (i <= 0)
      BY <2>1, <2>3, SMT
    <3> QED
      BY <2>1, <3>1 DEF Under
  <2>4. CASE c \in 2 .. Len(L)
    <3> DEFINE p == ends[c - 1]
    <3>1. c \in 1 .. Len(L) /\ c > 1 /\ ~ (c > Len(L))
      BY <2>1, <2>4, SMT
    <3>2. p \in Nat /\ p + 1 \in 1 .. Len(s) /\ FirstKey(L[c]) = s[p + 1].key
      <4>1. Begins(s, L, ends, c)
        BY <3>1, LeafAt
      <4> QED
        BY <4>1 DEF Begins
    <3>3. Under(L, c, s[i].key) <=> s[i].key < s[p + 1].key
      BY <3>1, <3>2 DEF Under
    <3> HIDE DEF p
    <3>4. /\ i < p + 1 => s[i].key < s[p + 1].key
          /\ p + 1 < i => s[p + 1].key < s[i].key
      BY <3>2 DEF Leafed, Increasing
    <3>5. s[i].key \in Int /\ s[p + 1].key \in Int
      BY <2>1, <3>2
    <3>6. s[i].key < s[p + 1].key <=> i <= p
      BY <3>2, <3>4, <3>5, SMT
    <3> QED
      BY <3>3, <3>6 DEF p
  <2> QED
    BY <2>1, <2>2, <2>3, <2>4, SMT
<1> DEFINE p == ends[a - 1]
           q == ends[b - 1]
           t == SubSeq(s, p + 1, q)
           A == Between(L, Range(s), a, b)
<1>2. /\ Len(s) \in Nat /\ DOMAIN s = 1 .. Len(s) /\ Len(L) \in Nat /\ s \in Seq(E)
      /\ \A i \in 1 .. Len(s) : s[i] \in E /\ s[i].key \in Int
      /\ ends \in [0 .. Len(L) -> 0 .. Len(s)]
  <2>1. LeavesTyped(E, s, L, ends)
    BY LeafedTyped
  <2> QED
    BY <2>1 DEF LeavesTyped, Leafed
<1>3. a - 1 \in 0 .. Len(L) /\ b - 1 \in 0 .. Len(L) /\ a - 1 <= b - 1
  BY <1>2, SMT
<1>4. p \in 0 .. Len(s) /\ q \in 0 .. Len(s) /\ p <= q
  BY <1>2, <1>3, EndsIncrease
<1>5. /\ \A i \in 1 .. Len(s) : Under(L, a, s[i].key) <=> i <= p
      /\ \A i \in 1 .. Len(s) : Under(L, b, s[i].key) <=> i <= q
  BY <1>1
<1>6. A = {s[j] : j \in p + 1 .. q}
  <2> HIDE DEF p, q
  <2>1. \A i \in 1 .. Len(s) : i \in p + 1 .. q <=> ~ (i <= p) /\ i <= q
    BY <1>2, <1>4, SMT
  <2>2. \A i \in p + 1 .. q : i \in 1 .. Len(s)
    BY <1>2, <1>4, SMT
  <2>3. Range(s) = {s[i] : i \in 1 .. Len(s)}
    BY <1>2 DEF Range
  <2>4. ASSUME NEW e \in A PROVE \E j \in p + 1 .. q : e = s[j]
    <3>1. PICK i \in 1 .. Len(s) : e = s[i]
      BY <2>3 DEF Between
    <3>2. ~ Under(L, a, s[i].key) /\ Under(L, b, s[i].key)
      BY <3>1 DEF Between
    <3>3. (Under(L, a, s[i].key) <=> i <= p) /\ (Under(L, b, s[i].key) <=> i <= q)
      BY <1>5
    <3>4. i \in p + 1 .. q
      BY <2>1, <3>2, <3>3
    <3> QED
      BY <3>1, <3>4
  <2>5. ASSUME NEW j \in p + 1 .. q PROVE s[j] \in A
    <3>1. j \in 1 .. Len(s) /\ ~ (j <= p) /\ j <= q
      BY <2>1, <2>2
    <3>2. ~ Under(L, a, s[j].key) /\ Under(L, b, s[j].key) /\ s[j] \in Range(s)
      BY <1>5, <2>3, <3>1
    <3> QED
      BY <3>2 DEF Between
  <2> QED
    BY <2>4, <2>5
<1> HIDE DEF p, q
<1>7. p \in Nat
  BY <1>2, <1>4, SMT
<1>8. t \in Seq(E) /\ Len(t) = q - p /\ \A i \in 1 .. q - p : t[i] = s[p + i]
  BY <1>2, <1>4, <1>7, SubTyped
<1> HIDE DEF t
<1>9. /\ \A i \in 1 .. q - p : p + i \in p + 1 .. q /\ p + i \in 1 .. Len(s)
      /\ \A j \in p + 1 .. q : j - p \in 1 .. q - p /\ p + (j - p) = j
  BY <1>2, <1>4, SMT
<1>10. A = {t[i] : i \in 1 .. Len(t)}
  <2>1. ASSUME NEW i \in 1 .. q - p PROVE t[i] \in A
    BY <1>6, <1>8, <1>9
  <2>2. ASSUME NEW e \in A PROVE \E i \in 1 .. q - p : e = t[i]
    <3>1. PICK j \in p + 1 .. q : e = s[j]
      BY <1>6
    <3>2. j - p \in 1 .. q - p /\ p + (j - p) = j
      BY <1>9
    <3>3. t[j - p] = s[p + (j - p)]
      BY <1>8, <3>2
    <3> QED
      BY <3>1, <3>2, <3>3
  <2> QED
    BY <1>8, <2>1, <2>2
<1>11. Increasing(t)
  <2>1. ASSUME NEW i \in 1 .. Len(t), NEW j \in 1 .. Len(t), i < j PROVE t[i].key < t[j].key
    <3>1. i \in 1 .. q - p /\ j \in 1 .. q - p
      BY <1>8
    <3>2. p + i < p + j
      BY <1>4, <2>1, <3>1, SMT
    <3>3. s[p + i].key < s[p + j].key
      BY <1>9, <3>1, <3>2 DEF Leafed, Increasing
    <3> QED
      BY <1>8, <3>1, <3>3
  <2> QED
    BY <2>1 DEF Increasing
<1>12. t \in Seq(A)
  <2>1. \A i \in 1 .. Len(t) : t[i] \in A
    BY <1>10
  <2> HIDE DEF A
  <2> QED
    BY <1>8, <2>1, SMT
<1>13. \A e \in A : e.key \in Int
  <2>1. \A e \in A : e \in Range(s)
    BY DEF Between
  <2> QED
    BY <1>2, <2>1 DEF Range
<1> HIDE DEF A
<1>14. Sorted(A) = t
  BY <1>10, <1>11, <1>12, <1>13, SortedInOrder DEF InOrder
<1> QED
  BY <1>14 DEF Stretch, A, t, p, q

-----------------------------------------------------------------------------
(* What a batch leaves behind. *)

\* The mutations of a batch have integer keys and put entries from E.
Batch(E, muts) ==
    /\ IsFiniteSet(DOMAIN muts)
    /\ DOMAIN muts \subseteq Int
    /\ Upserts(muts) \subseteq E

\* The entries after the batch.
Written(s, muts) == {e \in Range(s) : e.key \notin DOMAIN muts} \cup Upserts(muts)

\* The key of an entry.
LEMMA PairKey ==
    ASSUME NEW k, NEW v
    PROVE  Pair(k, v).key = k
BY SMT DEF Pair

\* The entries that a batch puts.
LEMMA UpsertKeys ==
    ASSUME NEW muts
    PROVE  /\ \A e \in Upserts(muts) : e.key \in DOMAIN muts /\ e = Pair(e.key, muts[e.key])
           /\ \A e \in Upserts(muts) : muts[e.key] # None
BY PairKey DEF Upserts

\* The old entries have distinct keys.
LEMMA OldKeyed ==
    ASSUME NEW f, NEW E, NEW s, NEW L, NEW ends, Leafed(f, E, s, L, ends)
    PROVE  Keyed(Range(s)) /\ Range(s) \subseteq E
<1> DEFINE R == Range(s)
           h == [i \in 1 .. Len(s) |-> s[i]]
<1>1. /\ Len(s) \in Nat /\ DOMAIN s = 1 .. Len(s)
      /\ \A i \in 1 .. Len(s) : s[i] \in E /\ s[i].key \in Int
      /\ Increasing(s)
  <2>1. LeavesTyped(E, s, L, ends)
    BY LeafedTyped
  <2> QED
    BY <2>1 DEF LeavesTyped, Leafed
<1>2. R = {s[i] : i \in 1 .. Len(s)}
  BY <1>1 DEF Range
<1>3. h \in Surjection(1 .. Len(s), R)
  BY <1>2 DEF Surjection
<1>4. IsFiniteSet(1 .. Len(s))
  <2>1. 1 \in Int /\ Len(s) \in Int
    BY <1>1, SMT
  <2> QED
    BY <2>1, FS_Interval
<1>5. ASSUME NEW d \in R, NEW e \in R, d.key = e.key PROVE d = e
  <2>1. PICK i \in 1 .. Len(s) : d = s[i]
    BY <1>2
  <2>2. PICK j \in 1 .. Len(s) : e = s[j]
    BY <1>2
  <2>3. i < j => s[i].key < s[j].key
    BY <1>1 DEF Increasing
  <2>4. j < i => s[j].key < s[i].key
    BY <1>1 DEF Increasing
  <2>5. s[i].key = s[j].key /\ s[i].key \in Int
    BY <1>1, <1>5, <2>1, <2>2
  <2>6. i = j
    BY <1>1, <2>3, <2>4, <2>5, SMT
  <2> QED
    BY <2>1, <2>2, <2>6
<1>6. R \subseteq E /\ \A e \in R : e.key \in Int
  BY <1>1, <1>2
<1> HIDE DEF R, h
<1>7. IsFiniteSet(R)
  BY <1>3, <1>4, FS_Surjection
<1>8. Keyed(R)
  BY <1>5, <1>6, <1>7 DEF Keyed
<1> QED
  BY <1>6, <1>8 DEF R

\* And so do the written ones.
LEMMA WrittenKeyed ==
    ASSUME NEW f, NEW E, NEW s, NEW L, NEW ends, Leafed(f, E, s, L, ends), NEW muts, Batch(E, muts)
    PROVE  Keyed(Written(s, muts)) /\ Written(s, muts) \subseteq E
<1> DEFINE W == Written(s, muts)
           D == {k \in DOMAIN muts : muts[k] # None}
           g == [k \in D |-> Pair(k, muts[k])]
<1>1. Keyed(Range(s)) /\ Range(s) \subseteq E
  BY OldKeyed
<1>2. IsFiniteSet(Upserts(muts))
  <2> DEFINE U == Upserts(muts)
  <2>1. g \in Surjection(D, U)
    BY DEF Surjection, Upserts
  <2>2. IsFiniteSet(D)
    BY FS_Subset DEF Batch
  <2> HIDE DEF D, g, U
  <2>3. IsFiniteSet(U)
    BY <2>1, <2>2, FS_Surjection
  <2> QED
    BY <2>3 DEF U
<1>3. IsFiniteSet(W)
  <2> DEFINE A == {e \in Range(s) : e.key \notin DOMAIN muts}
             B == Upserts(muts)
  <2>1. IsFiniteSet(A) /\ IsFiniteSet(B)
    BY <1>1, <1>2, FS_Subset DEF Keyed
  <2> HIDE DEF A, B
  <2>2. IsFiniteSet(A \cup B)
    BY <2>1, FS_Union
  <2> QED
    BY <2>2 DEF A, B, Written
<1>4. W \subseteq E
  BY <1>1 DEF Written, Batch
<1>5. \A e \in W : e.key \in Int
  BY <1>4 DEF Leafed
<1>6. ASSUME NEW d \in W, NEW e \in W, d.key = e.key PROVE d = e
  <2>1. CASE d \in Upserts(muts) /\ e \in Upserts(muts)
    <3>1. d = Pair(d.key, muts[d.key]) /\ e = Pair(e.key, muts[e.key])
      BY <2>1, UpsertKeys
    <3> QED
      BY <1>6, <3>1
  <2>2. CASE d \in Range(s) /\ e \in Range(s)
    BY <1>1, <1>6, <2>2 DEF Keyed
  <2>3. (d.key \in DOMAIN muts => d \in Upserts(muts)) /\ (e.key \in DOMAIN muts => e \in Upserts(muts))
    BY DEF Written
  <2>4. (d.key \notin DOMAIN muts => d \in Range(s)) /\ (e.key \notin DOMAIN muts => e \in Range(s))
    BY UpsertKeys DEF Written
  <2> QED
    BY <1>6, <2>1, <2>2, <2>3, <2>4
<1> HIDE DEF W
<1>7. Keyed(W)
  BY <1>3, <1>5, <1>6 DEF Keyed
<1> QED
  BY <1>4, <1>7 DEF W

-----------------------------------------------------------------------------
(* The stretches of the written entries. *)

\* A key before a leaf is smaller than one that is not.
LEMMA UnderOrder ==
    ASSUME NEW f, NEW E, NEW s, NEW L, NEW ends, Leafed(f, E, s, L, ends),
           NEW c \in 1 .. Len(L) + 1, NEW k \in Int, NEW m \in Int, Under(L, c, k), ~ Under(L, c, m)
    PROVE  k < m
<1>1. Len(L) \in Nat
  <2>1. LeavesTyped(E, s, L, ends)
    BY LeafedTyped
  <2> QED
    BY <2>1 DEF LeavesTyped
<1>2. ~ (c > Len(L)) /\ c > 1 /\ k < FirstKey(L[c]) /\ ~ (m < FirstKey(L[c]))
  BY DEF Under
<1>3. c \in 1 .. Len(L)
  BY <1>1, <1>2, SMT
<1>4. FirstKey(L[c]) \in Int
  <2>1. Begins(s, L, ends, c)
    BY <1>3, LeafAt
  <2> QED
    BY <2>1 DEF Begins
<1> QED
  BY <1>2, <1>4, SMT

\* Sorted(A) between a and c is the one up to b and then the one from b on.
Joins(L, A, a, b, c) ==
    Sorted(Between(L, A, a, c)) = Sorted(Between(L, A, a, b)) \o Sorted(Between(L, A, b, c))

\* A stretch of leaves can be cut at any leaf.
LEMMA StretchesJoin ==
    ASSUME NEW f, NEW E, NEW s, NEW L, NEW ends, Leafed(f, E, s, L, ends), NEW A, Keyed(A),
           NEW a \in 1 .. Len(L) + 1, NEW b \in 1 .. Len(L) + 1, NEW c \in 1 .. Len(L) + 1,
           a <= b, b <= c
    PROVE  Joins(L, A, a, b, c)
<1> DEFINE X == Between(L, A, a, b)
           Y == Between(L, A, b, c)
           Z == Between(L, A, a, c)
<1>1. Keyed(X) /\ Keyed(Y)
  BY KeyedSubset DEF Between
<1>2. \A e \in A : e.key \in Int
  BY DEF Keyed
<1>3. \A e \in A : Under(L, a, e.key) => Under(L, b, e.key)
  BY <1>2, UnderLater
<1>4. \A e \in A : Under(L, b, e.key) => Under(L, c, e.key)
  BY <1>2, UnderLater
<1>5. Z = X \cup Y
  BY <1>3, <1>4 DEF Between
<1>6. \A x \in X, y \in Y : x.key < y.key
  <2> SUFFICES ASSUME NEW x \in X, NEW y \in Y PROVE x.key < y.key
    OBVIOUS
  <2>1. x \in A /\ y \in A /\ Under(L, b, x.key) /\ ~ Under(L, b, y.key)
    BY DEF Between
  <2> QED
    BY <1>2, <2>1, UnderOrder
<1> HIDE DEF X, Y, Z
<1>7. Sorted(X \cup Y) = Sorted(X) \o Sorted(Y)
  BY <1>1, <1>6, SortedConcat
<1>8. Sorted(Z) = Sorted(X) \o Sorted(Y)
  BY <1>5, <1>7
<1> QED
  BY <1>8 DEF Joins, X, Y, Z

\* A stretch is a sequence of entries.
LEMMA StretchTyped ==
    ASSUME NEW E, NEW A, Keyed(A), A \subseteq E, NEW L, NEW a, NEW b
    PROVE  Sorted(Between(L, A, a, b)) \in Seq(E)
<1> DEFINE X == Between(L, A, a, b)
<1>1. Keyed(X) /\ X \subseteq E
  BY KeyedSubset DEF Between
<1> HIDE DEF X
<1>2. InOrder(Sorted(X), X)
  BY <1>1, SortedOrders
<1>3. Sorted(X) \in Seq(X)
  BY <1>2 DEF InOrder
<1> DEFINE t == Sorted(X)
<1>4. t \in Seq(X)
  BY <1>3
<1> HIDE DEF t
<1>5. t \in Seq(E)
  BY <1>1, <1>4, SMT
<1> QED
  BY <1>5 DEF t, X

-----------------------------------------------------------------------------
(* The replay. *)

\* The entries of the leaf i are the old ones between it and the next.
EntriesBetween(s, L, i) == Range(L[i].entries) = Between(L, Range(s), i, i + 1)

\* A replay from the leaf `from` that has seen the leaves before c.
ReplayState(f, L, W, K, from, c, at) ==
    [em |-> PushAll(f, 0, Fresh, Sorted(Between(L, W, from, c))),
     pending |-> From(L, K, c),
     at |-> at]

\* Feeding the leaf i: what em has seen grows by the written entries of the leaf.
Feeds(f, L, W, muts, K, em, at, i) ==
    Feed(f, L, muts, [em |-> em, pending |-> From(L, K, i), at |-> at], i)
        = [em |-> PushAll(f, 0, em, Sorted(Between(L, W, i, i + 1))),
           pending |-> From(L, K, i + 1),
           at |-> at]

\* The keys K are enough for the leaves from a on, up to b.
Covers(L, muts, K, a, b) ==
    \A k \in DOMAIN muts : ~ Under(L, a, k) /\ Under(L, b, k) => k \in K

\* What Feed does with a leaf when the mutations before it are done.
LEMMA FeedLeaf ==
    ASSUME NEW f, NEW E, NEW s, NEW L, NEW ends, Leafed(f, E, s, L, ends),
           NEW muts, Batch(E, muts), NEW K \in SUBSET DOMAIN muts, NEW i \in 1 .. Len(L),
           Covers(L, muts, K, i, i + 1), NEW em, NEW at
    PROVE  Feeds(f, L, Written(s, muts), muts, K, em, at, i)
\* The entries put by a part of a batch.
<1>1. ASSUME NEW due \in SUBSET DOMAIN muts
      PROVE  Upserts(Restrict(muts, due)) = {e \in Upserts(muts) : e.key \in due}
  <2> DEFINE m == Restrict(muts, due)
  <2>1. DOMAIN m = due /\ \A k \in due : m[k] = muts[k]
    BY DEF Restrict
  <2> HIDE DEF m
  <2>2. ASSUME NEW e \in Upserts(m) PROVE e \in Upserts(muts) /\ e.key \in due
    <3>1. e.key \in DOMAIN m /\ e = Pair(e.key, m[e.key]) /\ m[e.key] # None
      BY UpsertKeys
    <3>2. e.key \in DOMAIN muts /\ e = Pair(e.key, muts[e.key]) /\ muts[e.key] # None
      BY <2>1, <3>1
    <3> QED
      BY <2>1, <3>1, <3>2 DEF Upserts
  <2>3. ASSUME NEW e \in Upserts(muts), e.key \in due PROVE e \in Upserts(m)
    <3>1. e = Pair(e.key, muts[e.key]) /\ muts[e.key] # None
      BY UpsertKeys
    <3>2. e = Pair(e.key, m[e.key]) /\ m[e.key] # None
      BY <2>1, <2>3, <3>1
    <3> QED
      BY <2>1, <2>3, <3>2 DEF Upserts
  <2> QED
    BY <2>2, <2>3 DEF m
\* The entries of the leaf i are the old ones between it and the next.
<1>2. EntriesBetween(s, L, i)
  <2> DEFINE A == Between(L, Range(s), i, i + 1)
             t == L[i].entries
  <2>1. Len(L) \in Nat
    <3>1. LeavesTyped(E, s, L, ends)
      BY LeafedTyped
    <3> QED
      BY <3>1 DEF LeavesTyped
  <2>2. i \in 1 .. Len(L) + 1 /\ i + 1 \in 1 .. Len(L) + 1 /\ i <= i + 1 /\ (i + 1) - 1 = i
    BY <2>1, SMT
  <2>3. Stretch(s, L, ends, i, i + 1)
    BY <2>2, OldStretch
  <2>4. Sorted(A) = SubSeq(s, ends[i - 1] + 1, ends[i])
    <3>1. Sorted(A) = SubSeq(s, ends[i - 1] + 1, ends[(i + 1) - 1])
      BY <2>3 DEF Stretch
    <3>2. ends[(i + 1) - 1] = ends[i]
      BY <2>2
    <3> QED
      BY <3>1, <3>2
  <2>5. Begins(s, L, ends, i)
    BY LeafAt
  <2>6. t = Sorted(A)
    BY <2>4, <2>5 DEF Begins
  <2>7. Keyed(A)
    <3>1. Keyed(Range(s))
      BY OldKeyed
    <3> QED
      BY <3>1, KeyedSubset DEF Between
  <2> HIDE DEF A, t
  <2>8. t \in Seq(A) /\ A = {t[j] : j \in 1 .. Len(t)}
    <3>1. InOrder(t, A)
      BY <2>6, <2>7, SortedOrders
    <3> QED
      BY <3>1 DEF InOrder
  <2>9. DOMAIN t = 1 .. Len(t)
    BY <2>8, SMT
  <2> QED
    BY <2>8, <2>9 DEF Range, A, t, EntriesBetween
<1> DEFINE W == Written(s, muts)
           P == From(L, K, i)
           st == [em |-> em, pending |-> P, at |-> at]
           due == {k \in P : i = Len(L) \/ k < FirstKey(L[i + 1])}
           kept == {e \in Range(L[i].entries) : e.key \notin due}
           new == kept \cup Upserts(Restrict(muts, due))
<1>3. Len(L) \in Nat
  <2>1. LeavesTyped(E, s, L, ends)
    BY LeafedTyped
  <2> QED
    BY <2>1 DEF LeavesTyped
<1>4. /\ i \in 1 .. Len(L) + 1 /\ i + 1 \in 1 .. Len(L) + 1 /\ i <= i + 1
      /\ i + 1 > Len(L) <=> i = Len(L)
      /\ i + 1 > 1
  BY <1>3, SMT
<1>5. \A k : Under(L, i + 1, k) <=> i = Len(L) \/ k < FirstKey(L[i + 1])
  BY <1>4 DEF Under
<1>6. \A k : k \in due <=> k \in DOMAIN muts /\ ~ Under(L, i, k) /\ Under(L, i + 1, k)
  BY <1>5 DEF From, Covers
<1>7. Range(L[i].entries) = Between(L, Range(s), i, i + 1)
  <2>1. EntriesBetween(s, L, i)
    BY <1>2
  <2> QED
    BY <2>1 DEF EntriesBetween
<1>8. due \subseteq DOMAIN muts
  BY <1>6
<1> HIDE DEF due
<1>9. Upserts(Restrict(muts, due)) = {e \in Upserts(muts) : e.key \in due}
  BY <1>8, <1>1
<1>10. new = Between(L, W, i, i + 1)
  <2>1. ASSUME NEW e \in kept PROVE e \in Between(L, W, i, i + 1)
    <3>1. e \in Range(s) /\ ~ Under(L, i, e.key) /\ Under(L, i + 1, e.key) /\ e.key \notin due
      BY <1>7 DEF Between
    <3>2. e.key \notin DOMAIN muts
      BY <1>6, <3>1
    <3> QED
      BY <3>1, <3>2 DEF Between, Written
  <2>2. ASSUME NEW e \in Upserts(muts), e.key \in due PROVE e \in Between(L, W, i, i + 1)
    BY <1>6, <2>2 DEF Between, Written
  <2>3. ASSUME NEW e \in Between(L, W, i, i + 1) PROVE e \in new
    <3>1. e \in W /\ ~ Under(L, i, e.key) /\ Under(L, i + 1, e.key)
      BY DEF Between
    <3>2. CASE e \in Upserts(muts)
      <4>1. e.key \in DOMAIN muts
        BY <3>2, UpsertKeys
      <4> QED
        BY <1>6, <1>9, <3>1, <3>2, <4>1
    <3>3. CASE e \in Range(s) /\ e.key \notin DOMAIN muts
      BY <1>6, <1>7, <3>1, <3>3 DEF Between
    <3> QED
      BY <3>1, <3>2, <3>3 DEF Written
  <2> QED
    BY <1>9, <2>1, <2>2, <2>3
<1>11. P \ due = From(L, K, i + 1)
  <2>1. K \subseteq Int
    BY DEF Batch
  <2>2. \A k \in K : Under(L, i, k) => Under(L, i + 1, k)
    BY <1>4, <2>1, UnderLater
  <2> QED
    BY <1>6, <2>2 DEF From
<1> HIDE DEF kept, P
<1>12. Feed(f, L, muts, st, i) = [em |-> PushAll(f, 0, em, Sorted(new)), pending |-> P \ due, at |-> at]
  <2>1. st.pending = P /\ st.em = em /\ st.at = at
    BY SMT
  <2> HIDE DEF st
  <2> QED
    BY <2>1 DEF Feed, due, kept
<1> QED
  BY <1>10, <1>11, <1>12 DEF Feeds, P

\* Nothing lies between a leaf and itself.
LEMMA EmptyStretch ==
    ASSUME NEW L, NEW A, NEW c
    PROVE  Sorted(Between(L, A, c, c)) = <<>>
<1>1. Between(L, A, c, c) = {}
  BY DEF Between
<1>2. InOrder(<<>>, {})
  <2>1. <<>> \in Seq({}) /\ Len(<<>>) = 0 /\ 1 .. 0 = {}
    BY SMT
  <2> QED
    BY <2>1 DEF InOrder, Increasing
<1>3. Sorted({}) = <<>>
  <2> DEFINE z == <<>>
             X == {}
  <2>1. InOrder(z, X) /\ \A e \in X : e.key \in Int
    BY <1>2
  <2> HIDE DEF z, X
  <2>2. Sorted(X) = z
    BY <2>1, SortedInOrder
  <2> QED
    BY <2>2 DEF z, X
<1> QED
  BY <1>1, <1>3

\* A replay that has reached the leaf i, or stopped at a leaf before with nothing open
\* and, when `all`, nothing pending.
ReplayInv(f, L, W, K, from, i, all, st) ==
    \/ st = ReplayState(f, L, W, K, from, i + 1, 0)
    \/ \E at \in from .. i :
          /\ st = ReplayState(f, L, W, K, from, at + 1, at)
          /\ PushAll(f, 0, Fresh, Sorted(Between(L, W, from, at + 1))).open = <<>>
          /\ all => From(L, K, at + 1) = {}

\* g is Replays, up to the leaf n.
ReplayedTo(f, L, muts, P, from, all, g, n) ==
    g = [i \in from - 1 .. n |->
            IF i = from - 1 THEN [em |-> Fresh, pending |-> P, at |-> 0]
            ELSE Advanced(f, L, muts, P, g[i - 1], i, all)]

\* Replays satisfies its own definition.
LEMMA ReplaysDef ==
    ASSUME NEW f, NEW L, NEW muts, NEW P, NEW from \in Nat, NEW stop \in Nat, from - 1 <= stop, NEW all
    PROVE  ReplayedTo(f, L, muts, P, from, all, Replays(f, L, muts, P, from, stop, all), stop)
\* The recursive definition of Replays has a solution, up to every leaf.
<1>1. \A d \in Nat : \E g : ReplayedTo(f, L, muts, P, from, all, g, from - 1 + d)
  <2> DEFINE T == {d \in Nat : \E g : ReplayedTo(f, L, muts, P, from, all, g, from - 1 + d)}
             z == [em |-> Fresh, pending |-> P, at |-> 0]
  <2>1. 0 \in T
    <3> DEFINE g == [i \in from - 1 .. from - 1 |-> z]
    <3>1. ReplayedTo(f, L, muts, P, from, all, g, from - 1 + 0)
      <4>1. from - 1 + 0 = from - 1 /\ \A i \in from - 1 .. from - 1 : i = from - 1
        BY SMT
      <4> QED
        BY <4>1 DEF ReplayedTo
    <3>2. 0 \in Nat
      BY SMT
    <3> QED
      BY <3>1, <3>2
  <2>2. ASSUME NEW d \in Nat, d \in T PROVE d + 1 \in T
    <3> DEFINE n == from - 1 + d
               m == from - 1 + (d + 1)
    <3>1. PICK g : ReplayedTo(f, L, muts, P, from, all, g, n)
      BY <2>2
    <3> DEFINE x == Advanced(f, L, muts, P, g[n], m, all)
               h == [i \in from - 1 .. m |-> IF i = m THEN x ELSE g[i]]
    <3>2. \A i \in from - 1 .. n :
              g[i] = IF i = from - 1 THEN z ELSE Advanced(f, L, muts, P, g[i - 1], i, all)
      BY <3>1 DEF ReplayedTo
    <3>3. /\ m # from - 1 /\ m - 1 = n /\ n # m /\ n \in from - 1 .. m
          /\ \A i \in from - 1 .. m : i # m => i \in from - 1 .. n
          /\ \A i \in from - 1 .. m : i # m /\ i # from - 1 => i - 1 # m /\ i - 1 \in from - 1 .. m
      BY SMT
    <3> HIDE DEF n, m, z
    <3>4. ASSUME NEW i \in from - 1 .. m
          PROVE  h[i] = IF i = from - 1 THEN z ELSE Advanced(f, L, muts, P, h[i - 1], i, all)
      <4>1. CASE i = m
        <5>1. h[i - 1] = g[n] /\ h[i] = x
          BY <3>3, <4>1
        <5> QED
          BY <3>3, <4>1, <5>1
      <4>2. CASE i # m /\ i = from - 1
        BY <3>2, <3>3, <4>2
      <4>3. CASE i # m /\ i # from - 1
        <5>1. h[i] = g[i] /\ h[i - 1] = g[i - 1]
          BY <3>3, <4>3
        <5> QED
          BY <3>2, <3>3, <4>3, <5>1
      <4> QED
        BY <4>1, <4>2, <4>3
    <3>5. ReplayedTo(f, L, muts, P, from, all, h, m)
      BY <3>4 DEF ReplayedTo, z
    <3>6. d + 1 \in Nat
      BY SMT
    <3> QED
      BY <3>5, <3>6 DEF m
  <2> HIDE DEF T
  <2>3. \A d \in Nat : d \in T
    BY <2>1, <2>2, Induction
  <2> QED
    BY <2>3 DEF T
<1> DEFINE d == stop - (from - 1)
<1>2. d \in Nat /\ from - 1 + d = stop
  BY SMT
<1> HIDE DEF d
<1>3. \E g : ReplayedTo(f, L, muts, P, from, all, g, stop)
  BY <1>2, <1>1
<1> QED
  BY <1>3 DEF Replays, ReplayedTo

\* And so at its end, whether or not it stopped on the way.
LEMMA ReplayEnds ==
    ASSUME NEW f, NEW E, NEW s, NEW L, NEW ends, Leafed(f, E, s, L, ends),
           NEW muts, Batch(E, muts), NEW K \in SUBSET DOMAIN muts, NEW from \in 1 .. Len(L),
           NEW stop \in from .. Len(L), Covers(L, muts, K, from, stop + 1), NEW all
    PROVE  ReplayInv(f, L, Written(s, muts), K, from, stop, all,
                     Replayed(f, L, muts, From(L, K, from), from, stop, all))
\* The invariant of a replay holds after one leaf more.
<1>1. ASSUME NEW P, NEW j \in Nat, from <= j + 1, j + 1 <= Len(L),
             Covers(L, muts, K, j + 1, (j + 1) + 1), NEW st,
             ReplayInv(f, L, Written(s, muts), K, from, j, all, st)
      PROVE  ReplayInv(f, L, Written(s, muts), K, from, j + 1, all,
                       Advanced(f, L, muts, P, st, j + 1, all))
  <2> USE <1>1
  <2> DEFINE W == Written(s, muts)
             i == j + 1
             new == Advanced(f, L, muts, P, st, i, all)
  <2>1. Len(L) \in Nat
    <3>1. LeavesTyped(E, s, L, ends)
      BY LeafedTyped
    <3> QED
      BY <3>1 DEF LeavesTyped
  <2>2. i \in 1 .. Len(L) /\ from \in 1 .. Len(L) + 1 /\ i \in 1 .. Len(L) + 1
        /\ i + 1 \in 1 .. Len(L) + 1 /\ from <= i /\ i <= i + 1 /\ i \in from .. i
    BY <2>1, SMT
  <2>3. CASE st = ReplayState(f, L, W, K, from, i, 0)
    <3> DEFINE A == Sorted(Between(L, W, from, i))
               B == Sorted(Between(L, W, i, i + 1))
               C == Sorted(Between(L, W, from, i + 1))
               em == PushAll(f, 0, Fresh, A)
               fed == ReplayState(f, L, W, K, from, i + 1, 0)
    <3> HIDE DEF W, i
    <3>1. Keyed(W) /\ W \subseteq E
      BY WrittenKeyed DEF W
    <3>2. A \in Seq(E) /\ B \in Seq(E)
      BY <3>1, StretchTyped
    <3>3. Joins(L, W, from, i, i + 1)
      BY <2>2, <3>1, StretchesJoin
    <3>4. C = A \o B
      BY <3>3 DEF Joins
    <3> HIDE DEF A, B, C
    <3>5. PushAll(f, 0, Fresh, A \o B) = PushAll(f, 0, em, B)
      BY <3>2, PushesConcat, SMT
    <3>6. Feeds(f, L, W, muts, K, em, 0, i)
      <4>1. Covers(L, muts, K, i, i + 1)
        BY DEF i
      <4> QED
        BY <2>2, <4>1, FeedLeaf DEF W
    <3>7. st = [em |-> em, pending |-> From(L, K, i), at |-> 0]
      BY <2>3 DEF ReplayState, A
    <3>8. fed = [em |-> PushAll(f, 0, Fresh, C), pending |-> From(L, K, i + 1), at |-> 0]
      BY DEF ReplayState, C
    <3>9. Feed(f, L, muts, st, i) = fed
      <4>1. PushAll(f, 0, Fresh, C) = PushAll(f, 0, em, B)
        BY <3>4, <3>5
      <4> QED
        BY <3>6, <3>7, <3>8, <4>1 DEF Feeds, B
    <3>10. st.at = 0
      BY <3>7, SMT
    <3> HIDE DEF fed
    <3>11. new = Probed(L[i], P, fed, i, all)
      BY <3>9, <3>10 DEF Advanced
    <3>12. CASE new = fed
      BY <3>12 DEF ReplayInv, fed, i, W
    <3>13. CASE Aligned(fed, L[i]) /\ (all => fed.pending = {}) /\ new = [fed EXCEPT !.at = i]
      <4>1. fed.em = PushAll(f, 0, Fresh, C) /\ fed.pending = From(L, K, i + 1)
        BY <3>8, SMT
      <4>2. PushAll(f, 0, Fresh, C).open = <<>>
        BY <3>13, <4>1 DEF Aligned
      <4>3. [fed EXCEPT !.at = i] = [em |-> PushAll(f, 0, Fresh, C), pending |-> From(L, K, i + 1), at |-> i]
        BY <3>8, SMT
      <4>4. new = ReplayState(f, L, W, K, from, i + 1, i)
        BY <3>13, <4>3 DEF ReplayState, C
      <4>5. ReplayInv(f, L, W, K, from, i, all, new)
        BY <2>2, <3>13, <4>1, <4>2, <4>4 DEF ReplayInv, C
      <4> QED
        BY <4>5 DEF i, W
    <3> QED
      BY <3>11, <3>12, <3>13 DEF Probed
  <2>4. ASSUME NEW at \in from .. j,
               st = ReplayState(f, L, W, K, from, at + 1, at),
               PushAll(f, 0, Fresh, Sorted(Between(L, W, from, at + 1))).open = <<>>,
               all => From(L, K, at + 1) = {}
        PROVE  ReplayInv(f, L, W, K, from, i, all, new)
    <3>1. st.at = at
      BY <2>4, SMT DEF ReplayState
    <3>2. at # 0 /\ at \in from .. i
      BY <2>1, SMT
    <3>3. new = st
      BY <3>1, <3>2 DEF Advanced
    <3> QED
      BY <2>4, <3>2, <3>3 DEF ReplayInv
  <2> QED
    BY <2>3, <2>4 DEF ReplayInv
<1> DEFINE W == Written(s, muts)
           P == From(L, K, from)
           g == Replays(f, L, muts, P, from, stop, all)
           T == {d \in Nat : from - 1 + d <= stop =>
                                ReplayInv(f, L, W, K, from, from - 1 + d, all, g[from - 1 + d])}
<1>2. Len(L) \in Nat
  <2>1. LeavesTyped(E, s, L, ends)
    BY LeafedTyped
  <2> QED
    BY <2>1 DEF LeavesTyped
<1>3. from \in Nat /\ stop \in Nat /\ from - 1 <= stop /\ stop <= Len(L)
  BY <1>2, SMT
<1>4. ReplayedTo(f, L, muts, P, from, all, g, stop)
  BY <1>2, <1>3, ReplaysDef
<1> HIDE DEF W, g
<1>5. \A i \in from - 1 .. stop :
          g[i] = IF i = from - 1 THEN [em |-> Fresh, pending |-> P, at |-> 0]
                 ELSE Advanced(f, L, muts, P, g[i - 1], i, all)
  BY <1>4 DEF ReplayedTo
<1>6. 0 \in T
  <2>1. /\ from - 1 + 0 = from - 1 /\ (from - 1) + 1 = from /\ from - 1 \in from - 1 .. stop
        /\ 0 \in Nat
    BY <1>2, <1>3, SMT
  <2>2. g[from - 1] = [em |-> Fresh, pending |-> P, at |-> 0]
    BY <1>5, <2>1
  <2>3. ReplayState(f, L, W, K, from, from, 0) = [em |-> Fresh, pending |-> P, at |-> 0]
    <3>1. PushAll(f, 0, Fresh, Sorted(Between(L, W, from, from))) = Fresh
      BY EmptyStretch, PushNone
    <3> QED
      BY <3>1 DEF ReplayState
  <2>4. ReplayInv(f, L, W, K, from, from - 1, all, g[from - 1])
    BY <2>1, <2>2, <2>3 DEF ReplayInv
  <2> QED
    BY <2>1, <2>4
<1>7. ASSUME NEW d \in Nat, d \in T PROVE d + 1 \in T
  <2> DEFINE j == from - 1 + d
  <2>1. /\ from - 1 + (d + 1) = j + 1 /\ j \in Nat /\ from <= j + 1 /\ (j + 1) - 1 = j
        /\ j + 1 <= stop => j <= stop /\ j + 1 \in from - 1 .. stop /\ j + 1 <= Len(L)
        /\ j + 1 # from - 1 /\ d + 1 \in Nat
    BY <1>2, <1>3, SMT
  <2>2. j + 1 <= stop => ReplayInv(f, L, W, K, from, j, all, g[j])
    BY <1>7, <2>1
  <2>3. ASSUME j + 1 <= stop PROVE ReplayInv(f, L, W, K, from, j + 1, all, g[j + 1])
    <3> HIDE DEF j, P
    <3>1. g[j + 1] = Advanced(f, L, muts, P, g[j], j + 1, all)
      <4>1. g[(j + 1) - 1] = g[j]
        BY <2>1
      <4> QED
        BY <1>5, <2>1, <2>3, <4>1
    <3>2. Covers(L, muts, K, j + 1, (j + 1) + 1)
      <4>1. /\ from \in 1 .. Len(L) + 1 /\ stop + 1 \in 1 .. Len(L) + 1 /\ j + 1 \in 1 .. Len(L) + 1
            /\ (j + 1) + 1 \in 1 .. Len(L) + 1 /\ (j + 1) + 1 <= stop + 1
        BY <1>2, <1>3, <2>1, <2>3, SMT
      <4>2. \A k \in DOMAIN muts : k \in Int
        BY DEF Batch
      <4>3. \A k \in DOMAIN muts :
                /\ Under(L, from, k) => Under(L, j + 1, k)
                /\ Under(L, (j + 1) + 1, k) => Under(L, stop + 1, k)
        BY <2>1, <4>1, <4>2, UnderLater
      <4> QED
        BY <4>3 DEF Covers
    <3>3. ReplayInv(f, L, W, K, from, j + 1, all, Advanced(f, L, muts, P, g[j], j + 1, all))
      BY <2>1, <2>2, <2>3, <3>2, <1>1 DEF W
    <3> QED
      BY <3>1, <3>3
  <2> HIDE DEF j
  <2> QED
    BY <2>1, <2>3
<1> HIDE DEF T
<1>8. \A d \in Nat : d \in T
  BY <1>6, <1>7, Induction
<1> DEFINE d == stop - (from - 1)
<1>9. d \in Nat /\ from - 1 + d = stop /\ stop <= stop
  BY <1>2, <1>3, SMT
<1> HIDE DEF d
<1>10. ReplayInv(f, L, W, K, from, stop, all, g[stop])
  BY <1>8, <1>9 DEF T
<1> QED
  BY <1>10 DEF Replayed, W, g

-----------------------------------------------------------------------------
(* Where a round starts. *)

\* The least of a finite set of keys.
LEMMA MinAttained ==
    ASSUME NEW P, IsFiniteSet(P), P \subseteq Int, P # {}
    PROVE  Min(P) \in P /\ \A y \in P : Min(P) <= y
<1> DEFINE T == {n \in Nat : \A Q \in SUBSET P :
                    Cardinality(Q) = n /\ Q # {} => \E x \in Q : \A y \in Q : x <= y}
<1>1. \A Q \in SUBSET P : IsFiniteSet(Q) /\ Cardinality(Q) \in Nat
  BY FS_Subset, FS_CardinalityType
<1>2. 0 \in T
  <2>1. 0 \in Nat
    BY SMT
  <2> QED
    BY <1>1, <2>1, FS_EmptySet
<1>3. ASSUME NEW n \in Nat, n \in T PROVE n + 1 \in T
  <2>1. ASSUME NEW Q \in SUBSET P, Cardinality(Q) = n + 1, Q # {}
        PROVE  \E x \in Q : \A y \in Q : x <= y
    <3>1. PICK z \in Q : TRUE
      BY <2>1
    <3> DEFINE R == Q \ {z}
    <3>2. R \in SUBSET P
      OBVIOUS
    <3>3. Cardinality(R) = n
      <4>1. Cardinality(R) = Cardinality(Q) - 1
        BY <1>1, FS_RemoveElement
      <4> QED
        BY <2>1, <4>1, SMT
    <3>4. \A y \in Q : y = z \/ y \in R
      OBVIOUS
    <3>5. z \in Int /\ \A y \in R : y \in Int /\ y \in Q
      OBVIOUS
    <3>6. CASE R = {}
      <4>1. z <= z
        BY <3>5, SMT
      <4> QED
        BY <3>4, <3>6, <4>1
    <3>7. CASE R # {}
      <4>1. PICK x \in R : \A y \in R : x <= y
        BY <1>3, <3>2, <3>3, <3>7
      <4> HIDE DEF R
      <4>2. CASE x <= z
        BY <3>4, <3>5, <4>1, <4>2
      <4>3. CASE ~ (x <= z)
        <5>1. \A y \in R : z <= y
          BY <3>5, <4>1, <4>3, SMT
        <5>2. z <= z
          BY <3>5, SMT
        <5> QED
          BY <3>4, <5>1, <5>2
      <4> QED
        BY <4>2, <4>3
    <3> QED
      BY <3>6, <3>7
  <2>2. n + 1 \in Nat
    BY SMT
  <2> QED
    BY <2>1, <2>2
<1> HIDE DEF T
<1>4. \A n \in Nat : n \in T
  BY <1>2, <1>3, Induction
<1>5. \E x \in P : \A y \in P : x <= y
  <2>1. P \in SUBSET P /\ Cardinality(P) \in T
    BY <1>1, <1>4
  <2> QED
    BY <2>1 DEF T
<1> QED
  BY <1>5 DEF Min

\* The last leaf counted for a key is the last one that starts with that key or before it.
LEMMA CountedLeaf ==
    ASSUME NEW f, NEW E, NEW s, NEW L, NEW ends, Leafed(f, E, s, L, ends), NEW key \in Int
    PROVE  /\ LeavesUpTo(L, key) \in 0 .. Len(L)
           /\ LeavesUpTo(L, key) > 0 => FirstKey(L[LeavesUpTo(L, key)]) <= key
           /\ \A c \in 1 .. Len(L) : FirstKey(L[c]) <= key => c <= LeavesUpTo(L, key)
<1> DEFINE T == {i \in 1 .. Len(L) : FirstKey(L[i]) <= key}
           m == Cardinality(T)
<1>1. Len(L) \in Nat /\ DOMAIN L = 1 .. Len(L)
  <2>1. LeavesTyped(E, s, L, ends)
    BY LeafedTyped
  <2> QED
    BY <2>1 DEF LeavesTyped
<1>2. LeavesUpTo(L, key) = m
  BY <1>1 DEF LeavesUpTo
<1>3. ASSUME NEW n \in Nat PROVE IsFiniteSet(1 .. n) /\ Cardinality(1 .. n) = n
  <2>1. 1 \in Int /\ n \in Int
    BY SMT
  <2>2. IsFiniteSet(1 .. n) /\ Cardinality(1 .. n) = IF 1 > n THEN 0 ELSE n - 1 + 1
    BY <2>1, FS_Interval
  <2> QED
    BY <2>2, SMT
<1>4. T \in SUBSET (1 .. Len(L))
  OBVIOUS
<1>5. IsFiniteSet(T) /\ Cardinality(T) <= Len(L) /\ Cardinality(T) \in Nat
  <2>1. IsFiniteSet(1 .. Len(L)) /\ Cardinality(1 .. Len(L)) = Len(L)
    BY <1>1, <1>3
  <2> HIDE DEF T
  <2>2. IsFiniteSet(T) /\ Cardinality(T) <= Cardinality(1 .. Len(L))
    BY <1>4, <2>1, FS_Subset
  <2> QED
    BY <2>1, <2>2, FS_CardinalityType
<1>6. ASSUME m > 0, ~ (FirstKey(L[m]) <= key) PROVE FALSE
  <2> HIDE DEF m
  <2>1. m \in 1 .. Len(L) /\ m - 1 \in Nat
    BY <1>1, <1>5, <1>6, SMT DEF m
  <2>2. \A i \in 1 .. Len(L) : FirstKey(L[i]) \in Int
    <3>1. \A i \in 1 .. Len(L) : Begins(s, L, ends, i)
      BY LeafAt
    <3> QED
      BY <3>1 DEF Begins
  <2>3. ASSUME NEW i \in T PROVE i \in 1 .. m - 1
    <3>1. m < i => FirstKey(L[m]) < FirstKey(L[i])
      BY <2>1, FirstKeys
    <3>2. FirstKey(L[i]) <= key /\ i \in 1 .. Len(L)
      OBVIOUS
    <3>3. FirstKey(L[i]) \in Int /\ FirstKey(L[m]) \in Int
      BY <2>1, <2>2, <3>2
    <3>4. ~ (m < i)
      BY <1>6, <3>1, <3>2, <3>3, SMT
    <3>5. m # i
      BY <1>6, <3>2
    <3> QED
      BY <2>1, <3>2, <3>4, <3>5, SMT
  <2>4. IsFiniteSet(1 .. m - 1) /\ Cardinality(1 .. m - 1) = m - 1
    BY <1>3, <2>1
  <2>5. T \in SUBSET (1 .. m - 1)
    BY <2>3
  <2> HIDE DEF T
  <2>6. Cardinality(T) <= Cardinality(1 .. m - 1)
    BY <2>4, <2>5, FS_Subset
  <2> QED
    BY <2>1, <2>4, <2>6, SMT DEF m
<1>7. m \in 0 .. Len(L)
  BY <1>1, <1>5, SMT
<1>8. ASSUME NEW c \in 1 .. Len(L), FirstKey(L[c]) <= key PROVE c <= m
  <2>1. \A i \in 1 .. Len(L) : FirstKey(L[i]) \in Int
    <3>1. \A i \in 1 .. Len(L) : Begins(s, L, ends, i)
      BY LeafAt
    <3> QED
      BY <3>1 DEF Begins
  <2>2. ASSUME NEW i \in 1 .. c PROVE i \in T
    <3>1. i \in 1 .. Len(L) /\ (i < c \/ i = c)
      BY <1>1, SMT
    <3>2. i < c => FirstKey(L[i]) < FirstKey(L[c])
      BY <3>1, FirstKeys
    <3>3. FirstKey(L[i]) \in Int /\ FirstKey(L[c]) \in Int
      BY <2>1, <3>1
    <3>4. i < c => FirstKey(L[i]) <= key
      BY <1>8, <3>2, <3>3, SMT
    <3> QED
      BY <1>8, <3>1, <3>4
  <2>3. c \in Nat /\ IsFiniteSet(1 .. c) /\ Cardinality(1 .. c) = c
    <3>1. c \in Nat
      BY <1>1, SMT
    <3> QED
      BY <1>3, <3>1
  <2>4. 1 .. c \in SUBSET T
    BY <2>2
  <2> HIDE DEF T
  <2>5. Cardinality(1 .. c) <= Cardinality(T)
    BY <1>5, <2>4, FS_Subset
  <2> QED
    BY <2>3, <2>5
<1> QED
  BY <1>2, <1>6, <1>7, <1>8

\* Where no mutation falls, the written entries are the old ones.
LEMMA Untouched ==
    ASSUME NEW L, NEW s, NEW muts, NEW a, NEW b,
           \A k \in DOMAIN muts : Under(L, b, k) => Under(L, a, k)
    PROVE  Between(L, Written(s, muts), a, b) = Between(L, Range(s), a, b)
<1> DEFINE W == Written(s, muts)
<1>1. ASSUME NEW e \in Between(L, W, a, b) PROVE e \in Between(L, Range(s), a, b)
  <2>1. e \in W /\ ~ Under(L, a, e.key) /\ Under(L, b, e.key)
    BY DEF Between
  <2>2. e.key \notin DOMAIN muts
    BY <2>1
  <2>3. e \in Range(s)
    BY <2>1, <2>2, UpsertKeys DEF Written
  <2> QED
    BY <2>1, <2>3 DEF Between
<1>2. ASSUME NEW e \in Between(L, Range(s), a, b) PROVE e \in Between(L, W, a, b)
  <2>1. e \in Range(s) /\ ~ Under(L, a, e.key) /\ Under(L, b, e.key)
    BY DEF Between
  <2>2. e.key \notin DOMAIN muts
    BY <2>1
  <2> QED
    BY <2>1, <2>2 DEF Between, Written
<1> QED
  BY <1>1, <1>2

\* A common prefix can be cancelled.
LEMMA Cancels ==
    ASSUME NEW S, NEW x \in Seq(S), NEW y \in Seq(S), NEW z \in Seq(S), x \o y = x \o z
    PROVE  y = z
<1>1. Len(y) = Len(z)
  BY SMT
<1>2. \A i \in 1 .. Len(y) : y[i] = (x \o y)[Len(x) + i] /\ z[i] = (x \o z)[Len(x) + i]
  BY <1>1, SMT
<1> QED
  BY <1>1, <1>2, SMT

\* The leaves before `from` are reused, from the leaf c on.
Reuses(f, s, L, ends, c, from, r) ==
    Level(f, 0, SubSeq(s, ends[c - 1] + 1, ends[from - 1]) \o r)
        = SubSeq(L, c, from - 1) \o Level(f, 0, r)

\* Leaves are reused when the entry that follows them is the old one.
LEMMA LeavesReused ==
    ASSUME NEW f, NEW E, NEW s, NEW L, NEW ends, Leafed(f, E, s, L, ends),
           NEW c \in 1 .. Len(L), NEW from \in c .. Len(L), NEW r \in Seq(E),
           from > c => r # <<>> /\ r[1] = s[ends[from - 1] + 1]
    PROVE  Reuses(f, s, L, ends, c, from, r)
<1> DEFINE a == c - 1
           b == from - 1
           p == ends[a]
           q == ends[b]
           X == SubSeq(s, 1, p)
           B == SubSeq(s, p + 1, q)
           Y == SubSeq(s, 1, q)
           S == Nodes(0, E)
           H == SubSeq(L, 1, a)
           M == SubSeq(L, a + 1, b)
           I == SubSeq(L, 1, b)
           z == Level(f, 0, r)
<1>1. /\ s \in Seq(E) /\ Len(s) \in Nat /\ L \in Seq(S) /\ Len(L) \in Nat /\ L = Level(f, 0, s)
      /\ ends \in [0 .. Len(L) -> 0 .. Len(s)] /\ ends[0] = 0
      /\ Chunks(f, 0, s, L, ends)
  <2>1. LeavesTyped(E, s, L, ends)
    BY LeafedTyped
  <2> QED
    BY <2>1 DEF LeavesTyped, Leafed
<1>2. /\ a \in 0 .. Len(L) /\ b \in 0 .. Len(L) /\ a <= b /\ a + 1 = c
      /\ c \in 1 .. Len(L) /\ from \in 1 .. Len(L) /\ (a < b <=> from > c) /\ (~ (a < b) => a = b)
      /\ (b > 0 /\ a < b => from > c)
  BY <1>1, SMT
<1>3. p \in 0 .. Len(s) /\ q \in 0 .. Len(s) /\ p <= q /\ (a < b => p < q)
  BY <1>1, <1>2, EndsIncrease
<1>4. p < Len(s) /\ q < Len(s)
  <2>1. Begins(s, L, ends, c) /\ Begins(s, L, ends, from)
    BY <1>2, LeafAt
  <2>2. p + 1 \in 1 .. Len(s) /\ q + 1 \in 1 .. Len(s)
    BY <2>1 DEF Begins
  <2> HIDE DEF p, q
  <2> QED
    BY <1>1, <1>3, <2>2, SMT
<1>5. z \in Seq(S)
  BY LevelTyped
<1> HIDE DEF a, b, p, q, S, z
<1>6. CASE a = b
  <2>1. B = <<>> /\ M = <<>>
    <3>1. p = q
      BY <1>6 DEF p, q
    <3>2. B = <<>>
      BY <1>1, <1>3, <3>1, SMT
    <3>3. M = <<>>
      BY <1>1, <1>2, <1>6, SMT
    <3> QED
      BY <3>2, <3>3
  <2>2. <<>> \o r = r /\ <<>> \o z = z
    BY <1>5, SMT
  <2>3. Level(f, 0, B \o r) = M \o z
    BY <2>1, <2>2 DEF z
  <2> QED
    BY <1>2, <2>3 DEF Reuses, a, b, p, q, z
<1>7. CASE a < b
  <2>1. r # <<>> /\ r[1] = s[q + 1]
    BY <1>2, <1>7 DEF q, b
  <2>2. /\ X \in Seq(E) /\ B \in Seq(E) /\ Y \in Seq(E) /\ B # <<>> /\ B[1] = s[p + 1]
    <3>1. p \in Nat /\ p < q /\ q \in Nat
      BY <1>1, <1>3, <1>7, SMT
    <3>2. B \in Seq(E) /\ Len(B) = q - p /\ \A i \in 1 .. q - p : B[i] = s[p + i]
      <4>1. s \in Seq(E) /\ q \in 0 .. Len(s) /\ p <= q /\ p \in Nat
        BY <1>1, <1>3, <3>1
      <4> QED
        BY <4>1, SubTyped
    <3>3. X \in Seq(E) /\ Y \in Seq(E)
      BY <1>1, <1>3, <3>1, SMT
    <3>4. 1 \in 1 .. q - p /\ q - p # 0
      BY <3>1, SMT
    <3>5. B # <<>>
      <4> HIDE DEF B
      <4>1. Len(B) # 0
        BY <3>2, <3>4
      <4> QED
        BY <4>1, SMT
    <3> QED
      BY <3>2, <3>3, <3>4, <3>5
  <2>3. X \o B = Y
    BY <1>1, <1>3, SubJoin
  <2>4. H \o M = I /\ H \in Seq(S) /\ M \in Seq(S) /\ I \in Seq(S)
    <3>1. H \o M = I
      BY <1>1, <1>2, SubJoin
    <3>2. a \in Nat /\ b \in Nat
      BY <1>1, <1>2, SMT
    <3> QED
      BY <1>1, <1>2, <3>1, <3>2, SMT
  <2> DEFINE v == B \o r
             w == Level(f, 0, v)
  <2> HIDE DEF X, B, Y, H, M, I
  <2>5. v \in Seq(E) /\ v # <<>> /\ v[1] = s[p + 1]
    BY <2>2, SMT
  <2>6. Y \o r = X \o v
    <3>1. Associates(X, B, r)
      BY <2>2, Associative
    <3> QED
      BY <2>3, <3>1 DEF Associates
  <2> HIDE DEF v
  <2>7. w \in Seq(S)
    BY <2>5, LevelTyped DEF S
  <2>8. Level(f, 0, Y \o r) = I \o z
    <3>1. b > 0 => ends[b] < Len(s) /\ r # <<>> /\ r[1] = s[ends[b] + 1]
      BY <1>4, <2>1 DEF q
    <3>2. /\ b \in 0 .. Len(Level(f, 0, s)) /\ Chunks(f, 0, s, Level(f, 0, s), ends)
          /\ s \in Seq(E)
      BY <1>1, <1>2
    <3>3. Level(f, 0, SubSeq(s, 1, ends[b]) \o r) = SubSeq(Level(f, 0, s), 1, b) \o Level(f, 0, r)
      BY <3>1, <3>2, LevelResumes, SMT
    <3> QED
      BY <1>1, <3>3 DEF Y, I, q, z
  <2>9. Level(f, 0, X \o v) = H \o w
    <3>1. a > 0 => ends[a] < Len(s) /\ v # <<>> /\ v[1] = s[ends[a] + 1]
      BY <1>4, <2>5 DEF p
    <3>2. /\ a \in 0 .. Len(Level(f, 0, s)) /\ Chunks(f, 0, s, Level(f, 0, s), ends)
          /\ s \in Seq(E) /\ v \in Seq(E)
      BY <1>1, <1>2, <2>5
    <3>3. Level(f, 0, SubSeq(s, 1, ends[a]) \o v) = SubSeq(Level(f, 0, s), 1, a) \o Level(f, 0, v)
      BY <3>1, <3>2, LevelResumes, SMT
    <3> QED
      BY <1>1, <3>3 DEF X, H, p
  <2> HIDE DEF w
  <2>10. I \o z = H \o (M \o z)
    <3>1. Associates(H, M, z)
      BY <1>5, <2>4, Associative
    <3> QED
      BY <2>4, <3>1 DEF Associates
  <2>11. M \o z \in Seq(S)
    BY <1>5, <2>4, SMT
  <2>12. H \o w = H \o (M \o z)
    BY <2>6, <2>8, <2>9, <2>10
  <2> DEFINE y == M \o z
  <2> HIDE DEF y
  <2>13. w = y
    <3>1. y \in Seq(S) /\ H \o w = H \o y /\ H \in Seq(S)
      BY <2>4, <2>11, <2>12 DEF y
    <3> QED
      BY <2>7, <3>1, Cancels
  <2>14. Level(f, 0, B \o r) = M \o z
    BY <2>13 DEF y, w, v
  <2> QED
    BY <1>2, <2>14 DEF Reuses, B, M, z, a, b, p, q
<1> QED
  BY <1>2, <1>6, <1>7

-----------------------------------------------------------------------------
(* The rounds. *)

\* The leaf where the round with the cursor c starts to replay.
RoundFrom(L, K, c) == Max({Start(L, Min(From(L, K, c))), c})

\* The leaves emitted so far hold what is written before the leaf c, whatever follows.
Ready(f, E, L, W, c, out) ==
    \A t \in Seq(E) : (c = Len(L) + 1 => t = <<>>) =>
        Level(f, 0, Sorted(Between(L, W, 1, c)) \o t) = out \o Level(f, 0, t)

\* A round from c up to the leaf before d: the leaves c .. from - 1 are reused, the
\* others replayed.
Moves(f, L, W, out, c, from, d, t) ==
    Level(f, 0, Sorted(Between(L, W, 1, d)) \o t)
        = (out \o SubSeq(L, c, from - 1)) \o Level(f, 0, Sorted(Between(L, W, from, d)) \o t)

\* What a round does to the level, up to a leaf d where its replay may stop.
LEMMA RoundMoves ==
    ASSUME NEW f, NEW E, NEW s, NEW L, NEW ends, Leafed(f, E, s, L, ends),
           NEW muts, Batch(E, muts), NEW c \in 1 .. Len(L), NEW from \in c .. Len(L),
           NEW d \in from + 1 .. Len(L) + 1,
           from > c => \A k \in DOMAIN muts : Under(L, from + 1, k) => Under(L, c, k),
           NEW out \in Seq(Nodes(0, E)), Ready(f, E, L, Written(s, muts), c, out),
           NEW t \in Seq(E)
    PROVE  Moves(f, L, Written(s, muts), out, c, from, d, t)
<1> DEFINE W == Written(s, muts)
           S == Nodes(0, E)
           A == Sorted(Between(L, W, 1, c))
           B == Sorted(Between(L, W, c, from))
           M == Sorted(Between(L, W, from, d))
           N == Sorted(Between(L, W, from, from + 1))
           R == Sorted(Between(L, W, from + 1, d))
           D == Sorted(Between(L, W, 1, d))
           C == Sorted(Between(L, W, c, d))
           old == SubSeq(s, ends[c - 1] + 1, ends[from - 1])
           reused == SubSeq(L, c, from - 1)
<1>1. /\ Len(L) \in Nat /\ Len(L) > 0 /\ L \in Seq(S) /\ s \in Seq(E) /\ Len(s) \in Nat
      /\ \A k \in DOMAIN muts : k \in Int
  <2>1. LeavesTyped(E, s, L, ends)
    BY LeafedTyped
  <2> QED
    BY <2>1 DEF LeavesTyped, Leafed, Batch
<1>2. /\ 1 \in 1 .. Len(L) + 1 /\ c \in 1 .. Len(L) + 1 /\ from \in 1 .. Len(L) + 1
      /\ from + 1 \in 1 .. Len(L) + 1 /\ d \in 1 .. Len(L) + 1
      /\ 1 <= c /\ c <= from /\ from <= from + 1 /\ from + 1 <= d /\ from <= d /\ c <= d
      /\ from \in 1 .. Len(L) /\ c # Len(L) + 1 /\ (~ (from > c) => from = c)
  BY <1>1, SMT
<1>3. Keyed(W) /\ W \subseteq E
  BY WrittenKeyed
<1> HIDE DEF W
<1>4. A \in Seq(E) /\ B \in Seq(E) /\ M \in Seq(E) /\ N \in Seq(E) /\ R \in Seq(E)
  BY <1>3, StretchTyped
<1>5. D = A \o (B \o M)
  <2>1. Joins(L, W, 1, c, d) /\ Joins(L, W, c, from, d)
    BY <1>2, <1>3, StretchesJoin
  <2>2. D = A \o C /\ C = B \o M
    BY <2>1 DEF Joins
  <2> QED
    BY <2>2
<1>6. M = N \o R
  <2>1. Joins(L, W, from, from + 1, d)
    BY <1>2, <1>3, StretchesJoin
  <2> QED
    BY <2>1 DEF Joins
<1>7. from > c => \A k \in DOMAIN muts : Under(L, from, k) => Under(L, c, k)
  BY <1>1, <1>2, UnderLater
<1>8. B = old
  <2>1. \A k \in DOMAIN muts : Under(L, from, k) => Under(L, c, k)
    BY <1>2, <1>7
  <2>2. Between(L, W, c, from) = Between(L, Range(s), c, from)
    BY <2>1, Untouched DEF W
  <2>3. Stretch(s, L, ends, c, from)
    BY <1>2, OldStretch
  <2> QED
    BY <2>2, <2>3 DEF Stretch
<1>9. from > c => N # <<>> /\ N[1] = s[ends[from - 1] + 1]
  <2> SUFFICES ASSUME from > c PROVE N # <<>> /\ N[1] = s[ends[from - 1] + 1]
    OBVIOUS
  <2>1. \A k \in DOMAIN muts : Under(L, from + 1, k) => Under(L, from, k)
    <3>1. \A k \in DOMAIN muts : Under(L, c, k) => Under(L, from, k)
      BY <1>1, <1>2, UnderLater
    <3> QED
      BY <3>1
  <2>2. Between(L, W, from, from + 1) = Between(L, Range(s), from, from + 1)
    BY <2>1, Untouched DEF W
  <2>3. Stretch(s, L, ends, from, from + 1)
    BY <1>2, OldStretch
  <2> DEFINE p == ends[from - 1]
             q == ends[from]
  <2>4. N = SubSeq(s, p + 1, q)
    <3>1. (from + 1) - 1 = from
      BY <1>2, SMT
    <3>2. ends[(from + 1) - 1] = q
      BY <3>1
    <3> QED
      BY <2>2, <2>3, <3>2 DEF Stretch
  <2>5. p \in Nat /\ q \in 0 .. Len(s) /\ p < q
    <3>1. Begins(s, L, ends, from)
      BY <1>2, LeafAt
    <3> QED
      BY <3>1 DEF Begins
  <2> HIDE DEF p, q
  <2>6. p <= q /\ 1 \in 1 .. q - p /\ q - p # 0
    BY <1>1, <2>5, SMT
  <2> DEFINE n == SubSeq(s, p + 1, q)
  <2>7. n \in Seq(E) /\ Len(n) = q - p /\ \A i \in 1 .. q - p : n[i] = s[p + i]
    BY <1>1, <2>5, <2>6, SubTyped
  <2> HIDE DEF n
  <2>8. n # <<>>
    <3>1. Len(n) # 0
      BY <2>6, <2>7
    <3> QED
      BY <3>1, SMT
  <2> QED
    BY <2>4, <2>6, <2>7, <2>8 DEF n, p
<1> HIDE DEF A, B, M, N, R, D, S
<1> DEFINE r == M \o t
<1>10. r \in Seq(E) /\ (N # <<>> => r # <<>> /\ r[1] = N[1])
  <2>1. M \in Seq(E) /\ (N # <<>> => M # <<>> /\ M[1] = N[1])
    BY <1>4, <1>6, SMT
  <2> QED
    BY <2>1, SMT
<1>11. D \o t = A \o (B \o r)
  <2>1. Associates(B, M, t)
    BY <1>4, Associative
  <2> DEFINE v == B \o M
  <2>2. v \in Seq(E)
    BY <1>4, SMT
  <2> HIDE DEF v
  <2>3. Associates(A, v, t)
    BY <1>4, <2>2, Associative
  <2>4. D \o t = A \o (v \o t)
    BY <1>5, <2>3 DEF Associates, v
  <2>5. v \o t = B \o r
    BY <2>1 DEF Associates, v
  <2> QED
    BY <2>4, <2>5
<1> HIDE DEF r
<1> DEFINE u == B \o r
<1>12. u \in Seq(E)
  BY <1>4, <1>10, SMT
<1>13. Level(f, 0, A \o u) = out \o Level(f, 0, u)
  <2> HIDE DEF u
  <2>1. Ready(f, E, L, W, c, out)
    BY DEF W
  <2> QED
    BY <1>2, <1>12, <2>1 DEF Ready, A
<1>14. Level(f, 0, u) = reused \o Level(f, 0, r)
  <2>1. from > c => r # <<>> /\ r[1] = s[ends[from - 1] + 1]
    BY <1>9, <1>10
  <2>2. Reuses(f, s, L, ends, c, from, r)
    BY <1>10, <2>1, LeavesReused
  <2> QED
    BY <1>8, <2>2 DEF Reuses
<1> DEFINE z == Level(f, 0, r)
<1>15. out \in Seq(S) /\ z \in Seq(S) /\ reused \in Seq(S)
  <2>1. z \in Seq(S)
    BY <1>10, LevelTyped DEF S
  <2>2. reused \in Seq(S)
    BY <1>1, <1>2, SMT
  <2> QED
    BY <2>1, <2>2 DEF S
<1> HIDE DEF u, z, reused
<1>16. out \o (reused \o z) = (out \o reused) \o z
  <2>1. Associates(out, reused, z)
    BY <1>15, Associative
  <2> QED
    BY <2>1 DEF Associates
<1>17. Level(f, 0, D \o t) = (out \o reused) \o Level(f, 0, r)
  BY <1>11, <1>13, <1>14, <1>16 DEF u, z
<1> QED
  BY <1>17 DEF Moves, D, M, W, r, reused

\* After such a round the emitted leaves hold what is written before the leaf d.
LEMMA ReadyMoves ==
    ASSUME NEW f, NEW E, NEW s, NEW L, NEW ends, Leafed(f, E, s, L, ends),
           NEW muts, Batch(E, muts), NEW c \in 1 .. Len(L), NEW from \in c .. Len(L),
           NEW d \in from + 1 .. Len(L) + 1,
           from > c => \A k \in DOMAIN muts : Under(L, from + 1, k) => Under(L, c, k),
           NEW out \in Seq(Nodes(0, E)), Ready(f, E, L, Written(s, muts), c, out),
           NEW em, em = PushAll(f, 0, Fresh, Sorted(Between(L, Written(s, muts), from, d))),
           d = Len(L) + 1 \/ em.open = <<>>,
           NEW new, new = (out \o SubSeq(L, c, from - 1)) \o Flush(0, em)
    PROVE  new \in Seq(Nodes(0, E)) /\ Ready(f, E, L, Written(s, muts), d, new)
<1> DEFINE W == Written(s, muts)
           S == Nodes(0, E)
           m == Sorted(Between(L, W, from, d))
           reused == SubSeq(L, c, from - 1)
           pre == out \o reused
           x == Flush(0, em)
<1>1. Len(L) \in Nat /\ L \in Seq(S)
  <2>1. LeavesTyped(E, s, L, ends)
    BY LeafedTyped
  <2> QED
    BY <2>1 DEF LeavesTyped
<1>2. ASSUME NEW t \in Seq(E) PROVE Moves(f, L, W, out, c, from, d, t)
  BY RoundMoves
<1>3. m \in Seq(E)
  <2>1. Keyed(W) /\ W \subseteq E
    BY WrittenKeyed
  <2> QED
    BY <2>1, StretchTyped
<1>4. em = PushAll(f, 0, Fresh, m)
  OBVIOUS
<1> HIDE DEF m, W
<1>5. em \in Emitters(0, E)
  BY <1>3, <1>4, FreshTyped, PushAllTyped
<1>6. x \in Seq(S)
  BY <1>5, FlushTyped
<1>7. pre \in Seq(S) /\ pre \o x \in Seq(S)
  <2>1. out \in Seq(S)
    OBVIOUS
  <2> HIDE DEF x, S
  <2> QED
    BY <1>1, <1>6, <2>1, SMT
<1>8. Ready(f, E, L, W, d, pre \o x)
  <2> SUFFICES ASSUME NEW t \in Seq(E), d = Len(L) + 1 => t = <<>>
               PROVE  Level(f, 0, Sorted(Between(L, W, 1, d)) \o t) = (pre \o x) \o Level(f, 0, t)
    BY DEF Ready
  <2> DEFINE y == Level(f, 0, t)
  <2>1. Level(f, 0, Sorted(Between(L, W, 1, d)) \o t) = pre \o Level(f, 0, m \o t)
    BY <1>2 DEF Moves, m
  <2>2. y \in Seq(S)
    BY LevelTyped
  <2>3. Level(f, 0, m \o t) = x \o y
    <3>1. CASE em.open = <<>>
      <4>1. PushAll(f, 0, Fresh, m).open = <<>>
        BY <1>4, <3>1
      <4>2. x = PushAll(f, 0, Fresh, m).done
        BY <1>4, <3>1 DEF Flush
      <4> HIDE DEF x
      <4>3. Level(f, 0, m \o t) = PushAll(f, 0, Fresh, m).done \o Level(f, 0, t)
        BY <1>3, <4>1, CleanBoundary, SMT
      <4> QED
        BY <4>2, <4>3
    <3>2. CASE d = Len(L) + 1
      <4>1. t = <<>> /\ x = Level(f, 0, m)
        BY <1>4, <3>2 DEF Level
      <4>2. y = <<>>
        BY <4>1, LevelNone
      <4> HIDE DEF x, y, S
      <4>3. m \o t = m /\ x \o y = x
        BY <1>3, <1>6, <4>1, <4>2, SMT
      <4> QED
        BY <4>1, <4>3
    <3> QED
      BY <3>1, <3>2
  <2> HIDE DEF pre, x, y
  <2>4. (pre \o x) \o y = pre \o (x \o y)
    <3>1. Associates(pre, x, y)
      BY <1>6, <1>7, <2>2, Associative
    <3> QED
      BY <3>1 DEF Associates
  <2> QED
    BY <2>1, <2>3, <2>4 DEF y
<1> QED
  BY <1>7, <1>8 DEF W

\* The state of the loop with the cursor at the leaf c.
RoundState(L, K, out, c) == [out |-> out, pending |-> From(L, K, c), cursor |-> c]

\* Nothing is written before the first leaf.
LEMMA ReadyStart ==
    ASSUME NEW f, NEW E, NEW L, NEW W
    PROVE  <<>> \in Seq(Nodes(0, E)) /\ Ready(f, E, L, W, 1, <<>>)
<1> DEFINE S == Nodes(0, E)
<1>1. <<>> \in Seq(S)
  BY SMT
<1>2. ASSUME NEW t \in Seq(E)
      PROVE  Level(f, 0, Sorted(Between(L, W, 1, 1)) \o t) = <<>> \o Level(f, 0, t)
  <2> DEFINE y == Level(f, 0, t)
  <2>1. Sorted(Between(L, W, 1, 1)) = <<>>
    BY EmptyStretch
  <2>2. y \in Seq(S)
    BY LevelTyped
  <2> HIDE DEF y
  <2>3. <<>> \o t = t /\ <<>> \o y = y
    BY <2>2, SMT
  <2> QED
    BY <2>1, <2>3 DEF y
<1> QED
  BY <1>1, <1>2 DEF Ready

\* The state of the loop after n rounds: a round takes up a leaf, or nothing is left.
RoundInv(f, E, L, W, K, n, st) ==
    \E c \in 1 .. Len(L) + 1 : \E out \in Seq(Nodes(0, E)) :
        /\ st = RoundState(L, K, out, c)
        /\ Ready(f, E, L, W, c, out)
        /\ From(L, K, c) = {} \/ c >= n + 1

\* g is Rounds, up to the round n.
RoundedTo(f, L, muts, g, n) ==
    g = [i \in 0 .. n |-> IF i = 0 THEN [out |-> <<>>, pending |-> DOMAIN muts, cursor |-> 1]
                          ELSE Round(f, L, muts, g[i - 1])]

\* The invariant holds at the end, after as many rounds as there are leaves.
LEMMA RoundsEnd ==
    ASSUME NEW f, NEW E, NEW s, NEW L, NEW ends, Leafed(f, E, s, L, ends), NEW muts, Batch(E, muts)
    PROVE  RoundInv(f, E, L, Written(s, muts), DOMAIN muts, Len(L), Rounds(f, L, muts)[Len(L)])
\* The invariant of the loop over the pending mutations holds after one round more.
<1>1. ASSUME NEW n \in Nat, NEW st, RoundInv(f, E, L, Written(s, muts), DOMAIN muts, n, st)
      PROVE  RoundInv(f, E, L, Written(s, muts), DOMAIN muts, n + 1, Round(f, L, muts, st))
  <2> USE <1>1
  \* A round starts at a leaf from the cursor on; when it skips leaves, no pending mutation
  \* is due before the second leaf it replays, so the first comes out as it was.
  <2>1. ASSUME NEW c \in 1 .. Len(L) + 1, From(L, DOMAIN muts, c) # {}
        PROVE  /\ c \in 1 .. Len(L)
               /\ RoundFrom(L, DOMAIN muts, c) \in c .. Len(L)
               /\ RoundFrom(L, DOMAIN muts, c) > c =>
                      \A k \in DOMAIN muts :
                          Under(L, RoundFrom(L, DOMAIN muts, c) + 1, k) => Under(L, c, k)
    <3> USE <2>1
    <3> DEFINE K == DOMAIN muts
               P == From(L, K, c)
               key == Min(P)
               m == LeavesUpTo(L, key)
               start == Max({m - 1, 1})
               from == Max({start, c})
    <3>1. Len(L) \in Nat /\ Len(L) > 0
      <4>1. LeavesTyped(E, s, L, ends)
        BY LeafedTyped
      <4> QED
        BY <4>1 DEF LeavesTyped
    <3>2. P \subseteq K /\ K \subseteq Int /\ IsFiniteSet(P)
      BY FS_Subset DEF From, Batch
    <3>3. key \in P /\ \A k \in P : key <= k
      BY <3>2, MinAttained
    <3>4. key \in Int
      BY <3>2, <3>3
    <3> HIDE DEF key
    <3>5. m \in 0 .. Len(L) /\ (m > 0 => FirstKey(L[m]) <= key)
      BY <3>4, CountedLeaf
    <3>6. c \in 1 .. Len(L)
      <4>1. ~ (c > Len(L))
        BY DEF From, Under
      <4> QED
        BY <3>1, <4>1, SMT
    <3> HIDE DEF m
    <3>7. start \in {m - 1, 1} /\ start >= 1 /\ start \in Int
      <4>1. m - 1 \in Int /\ 1 \in Int
        BY <3>1, <3>5, SMT
      <4> QED
        BY <4>1, MaxOfTwo
    <3> HIDE DEF start
    <3>8. from \in {start, c} /\ from >= c
      <4>1. c \in Int
        BY <3>6, SMT
      <4> QED
        BY <3>7, <4>1, MaxOfTwo
    <3> HIDE DEF from
    <3>9. from \in c .. Len(L)
      <4>1. start \in Int /\ start <= Len(L)
        BY <3>1, <3>5, <3>7, SMT
      <4> QED
        BY <3>1, <3>6, <3>8, <4>1, SMT
    <3>10. ASSUME from > c, NEW k \in K, Under(L, from + 1, k) PROVE Under(L, c, k)
      <4> SUFFICES ASSUME ~ Under(L, c, k) PROVE FALSE
        OBVIOUS
      <4>1. from = start /\ start > 1
        BY <3>6, <3>8, <3>9, <3>10, SMT
      <4>2. from + 1 = m /\ m > 0 /\ m \in 1 .. Len(L)
        BY <3>1, <3>5, <3>7, <4>1, SMT
      <4>3. key <= k /\ k \in Int
        BY <3>2, <3>3 DEF From
      <4>4. FirstKey(L[m]) <= key
        BY <3>5, <4>2
      <4>5. FirstKey(L[m]) \in Int
        <5>1. Begins(s, L, ends, m)
          BY <4>2, LeafAt
        <5> QED
          BY <5>1 DEF Begins
      <4>6. ~ (k < FirstKey(L[m])) /\ ~ (m > Len(L))
        BY <3>1, <3>4, <4>2, <4>3, <4>4, <4>5, SMT
      <4>7. Under(L, m, k)
        BY <3>10, <4>2
      <4> QED
        BY <4>6, <4>7 DEF Under
    <3>11. RoundFrom(L, K, c) = from
      BY DEF RoundFrom, from, start, m, key, Start
    <3> QED
      BY <3>6, <3>9, <3>10, <3>11
  <2> DEFINE W == Written(s, muts)
             K == DOMAIN muts
             S == Nodes(0, E)
  <2>2. PICK c \in 1 .. Len(L) + 1, out \in Seq(S) :
            /\ st = RoundState(L, K, out, c)
            /\ Ready(f, E, L, W, c, out)
            /\ From(L, K, c) = {} \/ c >= n + 1
    BY DEF RoundInv
  <2>3. st.out = out /\ st.pending = From(L, K, c) /\ st.cursor = c
    <3> HIDE DEF K
    <3> QED
      BY <2>2, SMT DEF RoundState
  <2>4. CASE From(L, K, c) = {}
    <3>1. Round(f, L, muts, st) = st
      BY <2>3, <2>4 DEF Round
    <3> QED
      BY <2>2, <2>4, <3>1 DEF RoundInv
  <2>5. CASE From(L, K, c) # {}
    <3> DEFINE P == From(L, K, c)
               from == RoundFrom(L, K, c)
               r == Replayed(f, L, muts, P, from, Len(L), FALSE)
               M(d) == Sorted(Between(L, W, from, d))
               em(d) == PushAll(f, 0, Fresh, M(d))
               reused == SubSeq(L, c, from - 1)
    <3>1. /\ c \in 1 .. Len(L) /\ from \in c .. Len(L)
          /\ from > c => \A k \in K : Under(L, from + 1, k) => Under(L, c, k)
      BY <2>5, <2>1
    <3>2. Round(f, L, muts, st) = Reused(L, st, from, r)
      BY <2>3, <2>5 DEF Round, RoundFrom
    <3>3. /\ Len(L) \in Nat /\ L \in Seq(S) /\ \A k \in K : k \in Int
      <4>1. LeavesTyped(E, s, L, ends)
        BY LeafedTyped
      <4> QED
        BY <4>1 DEF LeavesTyped, Batch
    <3> HIDE DEF from
    <3>4. /\ from \in 1 .. Len(L) /\ c \in 1 .. Len(L) + 1 /\ from \in 1 .. Len(L) + 1
          /\ from + 1 \in 1 .. Len(L) + 1 /\ from <= from + 1 /\ c <= from
          /\ (~ (from > c) => from = c) /\ Len(L) + 1 \in from + 1 .. Len(L) + 1
          /\ Len(L) \in from .. Len(L)
      BY <3>1, <3>3, SMT
    <3>5. P = From(L, K, from)
      <4>1. CASE from > c
        <5>1. \A k \in K : Under(L, from, k) => Under(L, from + 1, k)
          BY <3>3, <3>4, UnderLater
        <5>2. \A k \in K : Under(L, c, k) => Under(L, from, k)
          BY <3>3, <3>4, UnderLater
        <5> QED
          BY <3>1, <4>1, <5>1, <5>2 DEF From
      <4>2. CASE ~ (from > c)
        BY <3>4, <4>2
      <4> QED
        BY <4>1, <4>2
    <3>6. ReplayInv(f, L, W, K, from, Len(L), FALSE, r)
      <4>1. Covers(L, muts, K, from, Len(L) + 1) /\ K \in SUBSET DOMAIN muts
        BY DEF Covers
      <4> HIDE DEF K
      <4> QED
        BY <3>4, <3>5, <4>1, ReplayEnds
    <3>7. ASSUME NEW d \in from + 1 .. Len(L) + 1, d = Len(L) + 1 \/ em(d).open = <<>>,
                 NEW new, new = (out \o reused) \o Flush(0, em(d))
          PROVE  new \in Seq(S) /\ Ready(f, E, L, W, d, new)
      BY <2>2, <3>1, <3>7, ReadyMoves
    <3> HIDE DEF r, W, K, P, M, reused
    <3>8. ASSUME NEW d \in from + 1 .. Len(L) + 1, NEW at,
                  r = ReplayState(f, L, W, K, from, d, at),
                  (IF at = 0 THEN Len(L) + 1 ELSE at + 1) = d,
                  d = Len(L) + 1 \/ em(d).open = <<>>
           PROVE  RoundInv(f, E, L, W, K, n + 1, Round(f, L, muts, st))
      <4> DEFINE new == (out \o reused) \o Flush(0, em(d))
      <4>1. r = [em |-> em(d), pending |-> From(L, K, d), at |-> at]
        BY <3>8 DEF ReplayState, M
      <4>2. r.em = em(d) /\ r.pending = From(L, K, d) /\ r.at = at
        BY <4>1, SMT
      <4>3. Reused(L, st, from, r) = [out |-> new, pending |-> From(L, K, d), cursor |-> d]
        BY <2>3, <3>8, <4>2 DEF Reused, reused
      <4>4. new \in Seq(S) /\ Ready(f, E, L, W, d, new)
        BY <3>7, <3>8
      <4>5. d \in 1 .. Len(L) + 1 /\ d >= (n + 1) + 1
        <5>1. c >= n + 1
          BY <2>2, <2>5 DEF K
        <5> QED
          BY <3>3, <3>4, <5>1, SMT
      <4>6. Round(f, L, muts, st) = RoundState(L, K, new, d)
        BY <3>2, <4>3 DEF RoundState
      <4> HIDE DEF new
      <4> QED
        BY <4>4, <4>5, <4>6 DEF RoundInv
    <3>9. CASE r = ReplayState(f, L, W, K, from, Len(L) + 1, 0)
      <4>1. RoundInv(f, E, L, W, K, n + 1, Round(f, L, muts, st))
        BY <3>4, <3>8, <3>9
      <4> QED
        BY <4>1 DEF W, K
    <3>10. ASSUME NEW at \in from .. Len(L),
                  r = ReplayState(f, L, W, K, from, at + 1, at),
                  PushAll(f, 0, Fresh, Sorted(Between(L, W, from, at + 1))).open = <<>>
           PROVE  RoundInv(f, E, L, W, K, n + 1, Round(f, L, muts, st))
      <4>1. at + 1 \in from + 1 .. Len(L) + 1 /\ at # 0
        BY <3>3, <3>4, SMT
      <4>2. em(at + 1).open = <<>>
        BY <3>10 DEF M
      <4> QED
        BY <3>8, <3>10, <4>1, <4>2
    <3> QED
      BY <3>6, <3>9, <3>10 DEF ReplayInv, W, K
  <2> QED
    BY <2>4, <2>5
\* The recursive definition of Rounds has a solution, for every number of rounds.
<1>2. \A n \in Nat : \E g : RoundedTo(f, L, muts, g, n)
  <2> DEFINE T == {n \in Nat : \E g : RoundedTo(f, L, muts, g, n)}
             z == [out |-> <<>>, pending |-> DOMAIN muts, cursor |-> 1]
  <2>1. 0 \in T
    <3>1. RoundedTo(f, L, muts, [i \in 0 .. 0 |-> z], 0)
      <4>1. \A i \in 0 .. 0 : i = 0
        BY SMT
      <4> QED
        BY <4>1 DEF RoundedTo
    <3>2. 0 \in Nat
      BY SMT
    <3> QED
      BY <3>1, <3>2
  <2>2. ASSUME NEW n \in Nat, n \in T PROVE n + 1 \in T
    <3>1. PICK g : RoundedTo(f, L, muts, g, n)
      BY <2>2
    <3> DEFINE x == Round(f, L, muts, g[n])
               h == [i \in 0 .. n + 1 |-> IF i = n + 1 THEN x ELSE g[i]]
    <3>2. \A i \in 0 .. n : g[i] = IF i = 0 THEN z ELSE Round(f, L, muts, g[i - 1])
      BY <3>1 DEF RoundedTo
    <3>3. /\ n + 1 # 0 /\ (n + 1) - 1 = n /\ n # n + 1 /\ n \in 0 .. n + 1
          /\ \A i \in 0 .. n + 1 : i # n + 1 => i \in 0 .. n
          /\ \A i \in 0 .. n + 1 : i # n + 1 /\ i # 0 => i - 1 # n + 1 /\ i - 1 \in 0 .. n + 1
          /\ n + 1 \in Nat
      BY SMT
    <3> HIDE DEF z
    <3>4. ASSUME NEW i \in 0 .. n + 1
          PROVE  h[i] = IF i = 0 THEN z ELSE Round(f, L, muts, h[i - 1])
      <4>1. CASE i = n + 1
        <5>1. h[i - 1] = g[n] /\ h[i] = x
          BY <3>3, <4>1
        <5> QED
          BY <3>3, <4>1, <5>1
      <4>2. CASE i # n + 1 /\ i = 0
        BY <3>2, <3>3, <4>2
      <4>3. CASE i # n + 1 /\ i # 0
        <5>1. h[i] = g[i] /\ h[i - 1] = g[i - 1]
          BY <3>3, <4>3
        <5> QED
          BY <3>2, <3>3, <4>3, <5>1
      <4> QED
        BY <4>1, <4>2, <4>3
    <3>5. RoundedTo(f, L, muts, h, n + 1)
      BY <3>4 DEF RoundedTo, z
    <3> QED
      BY <3>3, <3>5
  <2> HIDE DEF T
  <2>3. \A n \in Nat : n \in T
    BY <2>1, <2>2, Induction
  <2> QED
    BY <2>3 DEF T
<1> DEFINE W == Written(s, muts)
           K == DOMAIN muts
           S == Nodes(0, E)
           g == Rounds(f, L, muts)
           z == [out |-> <<>>, pending |-> K, cursor |-> 1]
           T == {n \in Nat : n <= Len(L) => RoundInv(f, E, L, W, K, n, g[n])}
<1>3. Len(L) \in Nat /\ Len(L) > 0
  <2>1. LeavesTyped(E, s, L, ends)
    BY LeafedTyped
  <2> QED
    BY <2>1 DEF LeavesTyped
<1>4. RoundedTo(f, L, muts, g, Len(L))
  <2>1. \E h : RoundedTo(f, L, muts, h, Len(L))
    BY <1>3, <1>2
  <2> QED
    BY <2>1 DEF Rounds, RoundedTo
<1> HIDE DEF g
<1>5. \A i \in 0 .. Len(L) : g[i] = IF i = 0 THEN z ELSE Round(f, L, muts, g[i - 1])
  BY <1>4 DEF RoundedTo
<1>6. 0 \in T
  <2>1. 0 \in 0 .. Len(L) /\ 0 \in Nat /\ 1 \in 1 .. Len(L) + 1 /\ 1 >= 0 + 1 /\ ~ (1 > Len(L)) /\ ~ (1 > 1)
    BY <1>3, SMT
  <2>2. g[0] = z
    BY <1>5, <2>1
  <2>3. From(L, K, 1) = K
    BY <2>1 DEF From, Under
  <2>4. z = RoundState(L, K, <<>>, 1)
    BY <2>3 DEF RoundState
  <2>5. <<>> \in Seq(S) /\ Ready(f, E, L, W, 1, <<>>)
    BY ReadyStart
  <2>6. RoundInv(f, E, L, W, K, 0, g[0])
    <3> HIDE DEF z, W, K
    <3> QED
      BY <2>1, <2>2, <2>4, <2>5 DEF RoundInv
  <2> QED
    BY <2>1, <2>6
<1>7. ASSUME NEW n \in Nat, n \in T PROVE n + 1 \in T
  <2>1. /\ n + 1 \in Nat /\ n + 1 # 0 /\ (n + 1) - 1 = n
        /\ n + 1 <= Len(L) => n <= Len(L) /\ n + 1 \in 0 .. Len(L)
    BY <1>3, SMT
  <2>2. ASSUME n + 1 <= Len(L) PROVE RoundInv(f, E, L, W, K, n + 1, g[n + 1])
    <3>1. RoundInv(f, E, L, W, K, n, g[n])
      BY <1>7, <2>1, <2>2
    <3>2. g[n + 1] = Round(f, L, muts, g[n])
      <4>1. g[(n + 1) - 1] = g[n]
        BY <2>1
      <4> HIDE DEF z
      <4> QED
        BY <1>5, <2>1, <2>2, <4>1
    <3>3. RoundInv(f, E, L, W, K, n + 1, Round(f, L, muts, g[n]))
      BY <3>1, <1>1
    <3> QED
      BY <3>2, <3>3
  <2> QED
    BY <2>1, <2>2
<1> HIDE DEF T
<1>8. \A n \in Nat : n \in T
  BY <1>6, <1>7, Induction
<1>9. Len(L) <= Len(L)
  BY <1>3, SMT
<1> QED
  BY <1>3, <1>8, <1>9 DEF T, g

\* With the old leaves from the leaf c on, the emitted ones are the canonical level.
Completes(f, s, L, muts, c, out) ==
    out \o SubSeq(L, c, Len(L)) = Level(f, 0, Sorted(Written(s, muts)))

\* When no mutation is left, the leaves after the cursor complete the level.
LEMMA ReadyCloses ==
    ASSUME NEW f, NEW E, NEW s, NEW L, NEW ends, Leafed(f, E, s, L, ends), NEW muts, Batch(E, muts),
           NEW c \in 1 .. Len(L) + 1, NEW out, Ready(f, E, L, Written(s, muts), c, out),
           From(L, DOMAIN muts, c) = {}
    PROVE  Completes(f, s, L, muts, c, out)
<1> DEFINE W == Written(s, muts)
           S == Nodes(0, E)
           n == Len(L)
<1>1. /\ n \in Nat /\ n > 0 /\ L \in Seq(S) /\ L = Level(f, 0, s) /\ s \in Seq(E)
      /\ Len(s) \in Nat
      /\ ends \in [0 .. n -> 0 .. Len(s)] /\ ends[n] = Len(s)
      /\ Chunks(f, 0, s, Level(f, 0, s), ends)
  <2>1. LeavesTyped(E, s, L, ends)
    BY LeafedTyped
  <2> QED
    BY <2>1 DEF LeavesTyped, Leafed
<1> DEFINE k == c - 1
           t == SubSeq(s, ends[k] + 1, Len(s))
           A == Sorted(Between(L, W, 1, c))
<1>2. /\ k \in 0 .. n /\ k + 1 = c /\ 1 \in 1 .. n + 1 /\ n + 1 \in 1 .. n + 1 /\ 1 <= c /\ c <= n + 1
      /\ (n + 1) - 1 = n /\ (c = n + 1 => k = n)
      /\ ~ (1 > n) /\ ~ (1 > 1) /\ n + 1 > n
  BY <1>1, SMT
<1>3. Keyed(W)
  BY WrittenKeyed
<1>4. Between(L, W, 1, n + 1) = W
  BY <1>2 DEF Between, Under
<1>5. Sorted(Between(L, W, c, n + 1)) = t
  <2>1. \A x \in DOMAIN muts : Under(L, n + 1, x) => Under(L, c, x)
    BY DEF From
  <2>2. Between(L, W, c, n + 1) = Between(L, Range(s), c, n + 1)
    BY <2>1, Untouched
  <2>3. Stretch(s, L, ends, c, n + 1)
    BY <1>2, OldStretch
  <2>4. ends[(n + 1) - 1] = Len(s)
    BY <1>1, <1>2
  <2> QED
    BY <2>2, <2>3, <2>4 DEF Stretch
<1>6. Sorted(W) = A \o t
  <2>1. Joins(L, W, 1, c, n + 1)
    BY <1>2, <1>3, StretchesJoin
  <2> QED
    BY <1>4, <1>5, <2>1 DEF Joins
<1>7. t \in Seq(E) /\ (c = n + 1 => t = <<>>)
  <2>1. ends[k] \in 0 .. Len(s)
    BY <1>1, <1>2
  <2> DEFINE p == ends[k]
  <2>2. p \in 0 .. Len(s) /\ (c = n + 1 => p = Len(s))
    BY <1>1, <1>2, <2>1
  <2> HIDE DEF p
  <2>3. p \in Nat /\ p <= Len(s) /\ Len(s) \in 0 .. Len(s)
    BY <1>1, <2>2, SMT
  <2>4. SubSeq(s, p + 1, Len(s)) \in Seq(E)
    BY <1>1, <2>3, SubTyped
  <2>5. p = Len(s) => SubSeq(s, p + 1, Len(s)) = <<>>
    BY <1>1, SMT
  <2> QED
    BY <2>2, <2>4, <2>5 DEF p
<1>8. Level(f, 0, A \o t) = out \o Level(f, 0, t)
  <2> HIDE DEF t
  <2> QED
    BY <1>7 DEF Ready
<1>9. Level(f, 0, t) = SubSeq(L, c, n)
  <2>1. k \in 0 .. Len(Level(f, 0, s)) /\ s \in Seq(E) /\ Chunks(f, 0, s, Level(f, 0, s), ends)
    BY <1>1, <1>2
  <2> HIDE DEF k, n
  <2>2. Level(f, 0, SubSeq(s, ends[k] + 1, Len(s)))
            = SubSeq(Level(f, 0, s), k + 1, Len(Level(f, 0, s)))
    BY <2>1, LevelSuffix, SMT
  <2> QED
    BY <1>1, <1>2, <2>2 DEF n
<1> QED
  BY <1>6, <1>8, <1>9 DEF Completes

\* The rewritten leaves are the canonical ones.
Rewrites(f, s, L, muts) == Rewritten(f, L, muts) = Level(f, 0, Sorted(Written(s, muts)))

\* So it is at the end of the rounds.
LEMMA RoundsCanonical ==
    ASSUME NEW f, NEW E, NEW s, NEW L, NEW ends, Leafed(f, E, s, L, ends), NEW muts, Batch(E, muts)
    PROVE  Rewrites(f, s, L, muts)
<1> DEFINE W == Written(s, muts)
           K == DOMAIN muts
           n == Len(L)
           st == Rounds(f, L, muts)[n]
<1>1. n \in Nat
  <2>1. LeavesTyped(E, s, L, ends)
    BY LeafedTyped
  <2> QED
    BY <2>1 DEF LeavesTyped
<1>2. PICK c \in 1 .. n + 1, out \in Seq(Nodes(0, E)) :
          /\ st = RoundState(L, K, out, c)
          /\ Ready(f, E, L, W, c, out)
          /\ From(L, K, c) = {} \/ c >= n + 1
  <2>1. RoundInv(f, E, L, W, K, n, st)
    BY RoundsEnd
  <2> QED
    BY <2>1 DEF RoundInv
<1>3. From(L, K, c) = {}
  <2>1. CASE c >= n + 1
    <3>1. c > n
      BY <1>1, <2>1, SMT
    <3> QED
      BY <3>1 DEF From, Under
  <2> QED
    BY <1>2, <2>1
<1>4. st.out = out /\ st.cursor = c
  <2> HIDE DEF K
  <2> QED
    BY <1>2, SMT DEF RoundState
<1>5. Completes(f, s, L, muts, c, out)
  BY <1>2, <1>3, ReadyCloses
<1>6. Rewritten(f, L, muts) = out \o SubSeq(L, c, n)
  BY <1>4 DEF Rewritten, Closed
<1> QED
  BY <1>5, <1>6 DEF Completes, Rewrites

\* The entries of leaves over the values V.
LeafEntry(V) == [key : Int, val : V, count : {1}]

\* The leaf level that a builder makes, and a batch.
LEMMA BuiltLeaves ==
    ASSUME NEW f, NEW V, NEW K \in SUBSET Int, IsFiniteSet(K), NEW muts \in [K -> V \cup {None}],
           NEW s \in Seq(LeafEntry(V)), s # <<>>, Increasing(s)
    PROVE  \E ends : Leafed(f, LeafEntry(V), s, Level(f, 0, s), ends) /\ Batch(LeafEntry(V), muts)
<1> DEFINE E == LeafEntry(V)
           L == Level(f, 0, s)
<1>1. PICK ends : Chunks(f, 0, s, L, ends)
  BY LevelChunks
<1>2. \A e \in E : e.key \in Int
  BY DEF LeafEntry
<1>3. Leafed(f, E, s, L, ends)
  BY <1>1, <1>2 DEF Leafed
<1>4. Batch(E, muts)
  <2>1. DOMAIN muts = K
    OBVIOUS
  <2>2. \A k \in K : k \in Int /\ muts[k] \in V \cup {None}
    OBVIOUS
  <2>3. ASSUME NEW k \in Int, NEW v \in V PROVE Pair(k, v) \in E
    BY SMT DEF Pair, LeafEntry
  <2>4. Upserts(muts) \subseteq E
    BY <2>1, <2>2, <2>3 DEF Upserts
  <2> QED
    BY <2>1, <2>4 DEF Batch
<1> QED
  BY <1>3, <1>4

\* The general path of apply_impl in write.rs: for every format, every leaf level that a
\* builder made and every finite batch of upserts and deletes, the leaves it reuses and the
\* leaves it replays are together the leaf level that the builder makes of the entries
\* after the batch. So no replay starts too late or stops too early, and no mutation is
\* lost or applied twice.
THEOREM RewrittenCanonical ==
    ASSUME NEW f, NEW V, NEW K \in SUBSET Int, IsFiniteSet(K), NEW muts \in [K -> V \cup {None}],
           NEW s \in Seq(LeafEntry(V)), s # <<>>, Increasing(s)
    PROVE  Rewritten(f, Level(f, 0, s), muts) = Level(f, 0, Sorted(Written(s, muts)))
<1> DEFINE E == LeafEntry(V)
           L == Level(f, 0, s)
<1>1. PICK ends : Leafed(f, E, s, L, ends) /\ Batch(E, muts)
  BY BuiltLeaves
<1> HIDE DEF E, L
<1>2. Rewrites(f, s, L, muts)
  BY <1>1, RoundsCanonical
<1> QED
  BY <1>2 DEF Rewrites, L

-----------------------------------------------------------------------------
(* The leaves that the mutations target. *)

\* A key comes before the leaves after its target leaf, and no others.
Targets(L, key) ==
    /\ TargetLeaf(L, key) \in 1 .. Len(L)
    /\ \A c \in 1 .. Len(L) + 1 : Under(L, c, key) <=> TargetLeaf(L, key) < c

\* The leaf that a key belongs to.
LEMMA TargetAt ==
    ASSUME NEW f, NEW E, NEW s, NEW L, NEW ends, Leafed(f, E, s, L, ends), NEW key \in Int
    PROVE  Targets(L, key)
<1> DEFINE m == LeavesUpTo(L, key)
           t == Max({m, 1})
<1>1. Len(L) \in Nat /\ Len(L) > 0
  <2>1. LeavesTyped(E, s, L, ends)
    BY LeafedTyped
  <2> QED
    BY <2>1 DEF LeavesTyped
<1>2. /\ m \in 0 .. Len(L) /\ (m > 0 => FirstKey(L[m]) <= key)
      /\ \A c \in 1 .. Len(L) : FirstKey(L[c]) <= key => c <= m
  BY CountedLeaf
<1> HIDE DEF m
<1>3. t \in {m, 1} /\ t >= m /\ t >= 1
  <2>1. m \in Int /\ 1 \in Int
    BY <1>1, <1>2, SMT
  <2> QED
    BY <2>1, MaxOfTwo
<1> HIDE DEF t
<1>4. t \in 1 .. Len(L)
  BY <1>1, <1>2, <1>3, SMT
<1>5. ASSUME NEW c \in 1 .. Len(L) + 1 PROVE Under(L, c, key) <=> t < c
  <2>1. CASE c > Len(L)
    <3>1. t < c
      BY <1>1, <1>4, <2>1, SMT
    <3> QED
      BY <2>1, <3>1 DEF Under
  <2>2. CASE c = 1
    <3>1. ~ (t < c) /\ ~ (c > Len(L)) /\ ~ (c > 1)
      BY <1>1, <1>4, <2>2, SMT
    <3> QED
      BY <3>1 DEF Under
  <2>3. CASE ~ (c > Len(L)) /\ c # 1
    <3>1. c > 1 /\ c \in 1 .. Len(L) /\ (t < c <=> m < c)
      BY <1>1, <1>2, <1>3, <2>3, SMT
    <3>2. \A i \in 1 .. Len(L) : FirstKey(L[i]) \in Int
      <4>1. \A i \in 1 .. Len(L) : Begins(s, L, ends, i)
        BY LeafAt
      <4> QED
        BY <4>1 DEF Begins
    <3>3. ASSUME m < c PROVE key < FirstKey(L[c])
      <4>1. FirstKey(L[c]) \in Int /\ ~ (c <= m)
        BY <1>2, <3>1, <3>2, <3>3, SMT
      <4>2. ~ (FirstKey(L[c]) <= key)
        BY <1>2, <3>1, <4>1
      <4> QED
        BY <4>1, <4>2, SMT
    <3>4. ASSUME ~ (m < c) PROVE ~ (key < FirstKey(L[c]))
      <4>1. m > 0 /\ m \in 1 .. Len(L) /\ (c < m \/ c = m)
        BY <1>1, <1>2, <3>1, <3>4, SMT
      <4>2. c < m => FirstKey(L[c]) < FirstKey(L[m])
        BY <3>1, <4>1, FirstKeys
      <4>3. FirstKey(L[m]) <= key /\ FirstKey(L[m]) \in Int /\ FirstKey(L[c]) \in Int
        BY <1>2, <3>1, <3>2, <4>1
      <4>4. c = m => FirstKey(L[c]) = FirstKey(L[m])
        OBVIOUS
      <4> QED
        BY <4>1, <4>2, <4>3, <4>4, SMT
    <3> QED
      BY <2>3, <3>1, <3>3, <3>4 DEF Under
  <2> QED
    BY <2>1, <2>2, <2>3
<1>6. TargetLeaf(L, key) = t
  BY DEF TargetLeaf, t, m
<1> QED
  BY <1>4, <1>5, <1>6 DEF Targets

\* The mutations ms of a batch, in key order.
Listed(muts, ms) ==
    /\ Len(ms) \in Nat
    /\ \A i \in 1 .. Len(ms) : ms[i].key \in DOMAIN muts
    /\ \A k \in DOMAIN muts : \E i \in 1 .. Len(ms) : ms[i].key = k
    /\ \A i, j \in 1 .. Len(ms) : i < j => ms[i].key < ms[j].key

-----------------------------------------------------------------------------
(* The islands. *)

\* The islands of a batch lie apart among the leaves, and each mutation has one of them.
LEMMA IslandsLaid ==
    ASSUME NEW f, NEW E, NEW s, NEW L, NEW ends, Leafed(f, E, s, L, ends), NEW muts, Batch(E, muts)
    PROVE  Laid(L, DOMAIN muts, Islands(L, muts))
\* The mutations of a batch, in key order.
<1>1. Listed(muts, Mutations(muts))
  <2> DEFINE D == DOMAIN muts
             A == {Pair(k, muts[k]) : k \in D}
             g == [k \in D |-> Pair(k, muts[k])]
             ms == Sorted(A)
  <2>1. IsFiniteSet(D) /\ D \subseteq Int
    BY DEF Batch
  <2>2. \A e \in A : e.key \in D /\ e = Pair(e.key, muts[e.key])
    BY PairKey
  <2>3. ASSUME NEW k \in D PROVE \E e \in A : e.key = k
    <3>1. Pair(k, muts[k]) \in A /\ Pair(k, muts[k]).key = k
      BY PairKey
    <3> QED
      BY <3>1
  <2>4. IsFiniteSet(A)
    <3>1. g \in Surjection(D, A)
      BY DEF Surjection
    <3> HIDE DEF A, g, D
    <3> QED
      BY <2>1, <3>1, FS_Surjection
  <2> HIDE DEF A
  <2>5. Keyed(A)
    BY <2>1, <2>2, <2>4 DEF Keyed
  <2>6. ms \in Seq(A) /\ Increasing(ms) /\ A = {ms[i] : i \in 1 .. Len(ms)}
    <3>1. InOrder(ms, A)
      BY <2>5, SortedOrders
    <3> QED
      BY <3>1 DEF InOrder
  <2> HIDE DEF ms
  <2>7. Len(ms) \in Nat
    BY <2>6, SMT
  <2>8. \A i \in 1 .. Len(ms) : ms[i] \in A
    BY <2>6
  <2>9. ASSUME NEW k \in D PROVE \E i \in 1 .. Len(ms) : ms[i].key = k
    <3>1. PICK e \in A : e.key = k
      BY <2>3
    <3>2. PICK i \in 1 .. Len(ms) : e = ms[i]
      BY <2>6
    <3> QED
      BY <3>1, <3>2
  <2>10. Listed(muts, ms)
    BY <2>2, <2>6, <2>7, <2>8, <2>9 DEF Listed, Increasing
  <2> QED
    BY <2>10 DEF Mutations, ms, A
\* Greater keys do not belong to earlier leaves.
<1>2. ASSUME NEW j \in Int, NEW k \in Int, j < k
      PROVE  TargetLeaf(L, j) <= TargetLeaf(L, k)
  <2> USE <1>2
  <2> DEFINE p == TargetLeaf(L, j)
             q == TargetLeaf(L, k)
  <2>1. Len(L) \in Nat
    <3>1. LeavesTyped(E, s, L, ends)
      BY LeafedTyped
    <3> QED
      BY <3>1 DEF LeavesTyped
  <2>2. /\ p \in 1 .. Len(L) /\ \A c \in 1 .. Len(L) + 1 : Under(L, c, j) <=> p < c
        /\ q \in 1 .. Len(L) /\ \A c \in 1 .. Len(L) + 1 : Under(L, c, k) <=> q < c
    BY TargetAt DEF Targets
  <2> HIDE DEF p, q
  <2>3. p \in 1 .. Len(L) + 1 /\ ~ (p < p)
    BY <2>1, <2>2, SMT
  <2>4. ASSUME q < p PROVE FALSE
    <3>1. Under(L, p, k) /\ ~ Under(L, p, j)
      BY <2>2, <2>3, <2>4
    <3>2. k < j
      BY <2>3, <3>1, UnderOrder
    <3> QED
      BY <3>2, SMT
  <2>5. p <= q
    BY <2>1, <2>2, <2>4, SMT
  <2> QED
    BY <2>5 DEF p, q
<1> DEFINE ms == Mutations(muts)
           K == DOMAIN muts
           cs == Candidates(L, ms)[Len(ms)]
<1>3. Listed(muts, ms)
  BY <1>1
<1>4. K \subseteq Int
  BY DEF Batch
<1>5. Len(L) \in Nat
  <2>1. LeavesTyped(E, s, L, ends)
    BY LeafedTyped
  <2> QED
    BY <2>1 DEF LeavesTyped
<1>6. \A k \in K : TargetLeaf(L, k) \in 1 .. Len(L)
  BY <1>4, TargetAt DEF Targets
<1> HIDE DEF ms
<1>7. ASSUME NEW p \in 1 .. Len(ms), NEW q \in 1 .. Len(ms), p < q
      PROVE  TargetLeaf(L, ms[p].key) <= TargetLeaf(L, ms[q].key)
  <2>1. ms[p].key \in Int /\ ms[q].key \in Int /\ ms[p].key < ms[q].key
    BY <1>3, <1>4, <1>7 DEF Listed
  <2> QED
    BY <2>1, <1>2
<1>8. Aimed(L, K, ms) /\ \A k \in K : \E p \in 1 .. Len(ms) : ms[p].key = k
  BY <1>3, <1>5, <1>6, <1>7 DEF Aimed, Listed
<1> HIDE DEF K
<1>9. Laid(L, K, Plans(cs, Len(L))[Len(cs)])
  BY <1>8, PlanLaid
<1> QED
  BY <1>9 DEF Islands, ms, K

\* A replay of an island that ends with nothing open and nothing pending, at a leaf of
\* the island.
IslandDone(f, L, W, island, r) ==
    \E at \in island.from .. island.stop :
        /\ r = ReplayState(f, L, W, island.keys, island.from, at + 1, at)
        /\ PushAll(f, 0, Fresh, Sorted(Between(L, W, island.from, at + 1))).open = <<>>
        /\ From(L, island.keys, at + 1) = {}

\* Such is the replay of every island that lines up with the old leaves.
LEMMA IslandReplay ==
    ASSUME NEW f, NEW E, NEW s, NEW L, NEW ends, Leafed(f, E, s, L, ends), NEW muts, Batch(E, muts),
           NEW is, Laid(L, DOMAIN muts, is), NEW j \in 1 .. Len(is), NEW r,
           r = Replayed(f, L, muts, is[j].keys, is[j].from, is[j].stop, TRUE), r.at # 0
    PROVE  IslandDone(f, L, Written(s, muts), is[j], r)
\* The mutations whose leaves are in an island are the mutations of the island.
<1>1. ASSUME NEW K, Laid(L, K, is), NEW k \in K, is[j].from <= TargetLeaf(L, k),
             TargetLeaf(L, k) <= is[j].stop
      PROVE  k \in is[j].keys
  <2> USE <1>1
  <2> DEFINE t == TargetLeaf(L, k)
             a == is[j].from
             b == is[j].stop
  <2>1. PICK l \in 1 .. Len(is) : k \in is[l].keys
    BY DEF Laid
  <2>2. Len(L) \in Nat /\ Len(is) \in Nat /\ t \in 1 .. Len(L) /\ a \in 1 .. Len(L) /\ b \in 1 .. Len(L)
    BY DEF Laid
  <2>3. (l < j => t < a) /\ (j < l => b < t)
    BY <2>1, IslandTarget
  <2>4. a <= t /\ t <= b
    OBVIOUS
  <2> HIDE DEF t, a, b
  <2>5. l = j
    BY <2>2, <2>3, <2>4, SMT
  <2> QED
    BY <2>1, <2>5
<1> DEFINE W == Written(s, muts)
           K == is[j].keys
           from == is[j].from
           stop == is[j].stop
<1>2. /\ Len(L) \in Nat /\ from \in 1 .. Len(L) /\ stop \in 1 .. Len(L) /\ from <= stop
      /\ K \in SUBSET DOMAIN muts /\ \A k \in DOMAIN muts : k \in Int
      /\ \A k \in K : from <= TargetLeaf(L, k)
  BY DEF Laid, Encloses, Batch
<1>3. ASSUME NEW k \in DOMAIN muts
      PROVE  /\ ~ Under(L, from, k) <=> from <= TargetLeaf(L, k)
             /\ Under(L, stop + 1, k) <=> TargetLeaf(L, k) <= stop
  <2> DEFINE t == TargetLeaf(L, k)
  <2>1. t \in 1 .. Len(L) /\ \A c \in 1 .. Len(L) + 1 : Under(L, c, k) <=> t < c
    BY <1>2, TargetAt DEF Targets
  <2> HIDE DEF t, from, stop
  <2>2. /\ from \in 1 .. Len(L) + 1 /\ stop + 1 \in 1 .. Len(L) + 1
        /\ (~ (t < from) <=> from <= t) /\ (t < stop + 1 <=> t <= stop)
    BY <1>2, <2>1, SMT
  <2> QED
    BY <2>1, <2>2 DEF t
<1>4. Covers(L, muts, K, from, stop + 1)
  <2>1. ASSUME NEW k \in DOMAIN muts, ~ Under(L, from, k), Under(L, stop + 1, k) PROVE k \in K
    <3>1. from <= TargetLeaf(L, k) /\ TargetLeaf(L, k) <= stop
      BY <1>3, <2>1
    <3> QED
      BY <3>1, <1>1
  <2> QED
    BY <2>1 DEF Covers
<1>5. From(L, K, from) = K
  BY <1>2, <1>3 DEF From
<1>6. stop \in from .. Len(L)
  <2> HIDE DEF from, stop
  <2> QED
    BY <1>2, SMT
<1> HIDE DEF K, from, stop
<1>7. ReplayInv(f, L, W, K, from, stop, TRUE, Replayed(f, L, muts, From(L, K, from), from, stop, TRUE))
  BY <1>2, <1>4, <1>6, ReplayEnds
<1>8. ReplayInv(f, L, W, K, from, stop, TRUE, r)
  BY <1>5, <1>7 DEF K, from, stop
<1> HIDE DEF W
<1>9. r # ReplayState(f, L, W, K, from, stop + 1, 0)
  <2>1. ReplayState(f, L, W, K, from, stop + 1, 0).at = 0
    BY DEF ReplayState
  <2> QED
    BY <2>1
<1>10. PICK at \in from .. stop :
          /\ r = ReplayState(f, L, W, K, from, at + 1, at)
          /\ PushAll(f, 0, Fresh, Sorted(Between(L, W, from, at + 1))).open = <<>>
          /\ From(L, K, at + 1) = {}
  BY <1>8, <1>9 DEF ReplayInv
<1> QED
  BY <1>10 DEF IslandDone, W, K, from, stop

\* The merge with the cursor at the leaf c.
MergeState(out, c) == [out |-> out, pending |-> {}, cursor |-> c]

\* The merge after i islands: their mutations are behind the cursor, and the islands that
\* follow are before it.
MergeInv(f, E, L, W, is, i, st) ==
    \E c \in 1 .. Len(L) + 1 : \E out \in Seq(Nodes(0, E)) :
        /\ st = MergeState(out, c)
        /\ Ready(f, E, L, W, c, out)
        /\ \A l \in 1 .. i : \A k \in is[l].keys : Under(L, c, k)
        /\ \A l \in 1 .. Len(is) : i < l => c <= is[l].from

\* g is IslandMerges, up to the island n.
MergedTo(L, is, replay, g, n) ==
    g = [i \in 0 .. n |-> IF i = 0 THEN [out |-> <<>>, pending |-> {}, cursor |-> 1]
                          ELSE Reused(L, g[i - 1], is[i].from, replay[i])]

\* The invariant of the merge holds at its end.
LEMMA MergesEnd ==
    ASSUME NEW f, NEW E, NEW s, NEW L, NEW ends, Leafed(f, E, s, L, ends), NEW muts, Batch(E, muts),
           NEW is, Laid(L, DOMAIN muts, is), NEW replay,
           \A j \in 1 .. Len(is) : IslandDone(f, L, Written(s, muts), is[j], replay[j])
    PROVE  MergeInv(f, E, L, Written(s, muts), is, Len(is), IslandMerges(L, is, replay)[Len(is)])
\* One island more: the leaves up to it are reused, and its replay follows.
<1>1. ASSUME NEW i \in Nat, i + 1 <= Len(is), NEW st,
             MergeInv(f, E, L, Written(s, muts), is, i, st), NEW r,
             IslandDone(f, L, Written(s, muts), is[i + 1], r)
      PROVE  MergeInv(f, E, L, Written(s, muts), is, i + 1, Reused(L, st, is[i + 1].from, r))
  <2> USE <1>1
  <2> DEFINE W == Written(s, muts)
             S == Nodes(0, E)
             from == is[i + 1].from
             stop == is[i + 1].stop
             K == is[i + 1].keys
  <2>1. PICK c \in 1 .. Len(L) + 1, out \in Seq(S) :
            /\ st = MergeState(out, c)
            /\ Ready(f, E, L, W, c, out)
            /\ \A l \in 1 .. i : \A k \in is[l].keys : Under(L, c, k)
            /\ \A l \in 1 .. Len(is) : i < l => c <= is[l].from
    BY DEF MergeInv
  <2>2. PICK at \in from .. stop :
            /\ r = ReplayState(f, L, W, K, from, at + 1, at)
            /\ PushAll(f, 0, Fresh, Sorted(Between(L, W, from, at + 1))).open = <<>>
            /\ From(L, K, at + 1) = {}
    BY DEF IslandDone
  <2>3. /\ Len(is) \in Nat /\ i + 1 \in 1 .. Len(is) /\ i < i + 1
        /\ \A l \in 1 .. i + 1 : l \in 1 .. i \/ l = i + 1
        /\ \A l \in 1 .. i : l \in 1 .. Len(is)
        /\ \A l \in 1 .. Len(is) : i + 1 < l => i < l
    <3>1. Len(is) \in Nat
      BY DEF Laid
    <3> QED
      BY <3>1, SMT
  <2>4. /\ Len(L) \in Nat /\ from \in 1 .. Len(L) /\ stop \in 1 .. Len(L)
        /\ \A l \in 1 .. Len(is) : is[l].keys \in SUBSET DOMAIN muts /\ is[l].from \in 1 .. Len(L)
        /\ \A k \in DOMAIN muts : k \in Int
        /\ c <= from
    BY <2>1, <2>3 DEF Laid, Batch
  <2> DEFINE d == at + 1
             em == PushAll(f, 0, Fresh, Sorted(Between(L, W, from, d)))
             reused == SubSeq(L, c, from - 1)
             new == (out \o reused) \o Flush(0, em)
  <2> HIDE DEF from, stop, K, W
  <2>5. /\ c \in 1 .. Len(L) /\ from \in c .. Len(L) /\ d \in from + 1 .. Len(L) + 1
        /\ from + 1 \in 1 .. Len(L) + 1 /\ d \in 1 .. Len(L) + 1 /\ c <= d /\ at # 0
        /\ (from > c => from > 1) /\ d <= stop + 1
        /\ \A t \in 1 .. Len(L) : t < from + 1 => t <= from
    <3>1. /\ Len(L) \in Nat /\ from \in 1 .. Len(L) /\ stop \in 1 .. Len(L) /\ c <= from
          /\ c \in 1 .. Len(L) + 1 /\ at \in from .. stop
      BY <2>4
    <3>2. c \in 1 .. Len(L) /\ from \in c .. Len(L) /\ from + 1 \in 1 .. Len(L) + 1
      BY <3>1, SMT
    <3>3. d \in from + 1 .. Len(L) + 1 /\ d \in 1 .. Len(L) + 1 /\ c <= d /\ at # 0 /\ d <= stop + 1
      BY <3>1, SMT
    <3>4. (from > c => from > 1) /\ \A t \in 1 .. Len(L) : t < from + 1 => t <= from
      BY <3>1, SMT
    <3> QED
      BY <3>2, <3>3, <3>4
  <2>6. from > c => \A k \in DOMAIN muts : Under(L, from + 1, k) => Under(L, c, k)
    <3> SUFFICES ASSUME from > c, NEW k \in DOMAIN muts, Under(L, from + 1, k) PROVE Under(L, c, k)
      OBVIOUS
    <3>1. TargetLeaf(L, k) \in 1 .. Len(L) /\ TargetLeaf(L, k) < from + 1
      BY <2>4, <2>5, TargetAt DEF Targets
    <3>2. TargetLeaf(L, k) <= is[i + 1].from /\ is[i + 1].from > 1
      BY <2>5, <3>1 DEF from
    <3>3. PICK l \in 1 .. i : k \in is[l].keys
      BY <2>3, <3>2, BeforeIsland
    <3> QED
      BY <2>1, <3>3
  <2>7. new \in Seq(S) /\ Ready(f, E, L, W, d, new)
    <3>1. em.open = <<>>
      BY <2>2
    <3> HIDE DEF em, d
    <3>2. em = PushAll(f, 0, Fresh, Sorted(Between(L, Written(s, muts), from, d)))
      BY DEF em, W
    <3> QED
      BY <2>1, <2>5, <2>6, <3>1, <3>2, ReadyMoves DEF W
  <2>8. Reused(L, st, from, r) = MergeState(new, d)
    <3>1. r = [em |-> em, pending |-> {}, at |-> at]
      BY <2>2 DEF ReplayState
    <3> HIDE DEF em
    <3>2. r.em = em /\ r.pending = {} /\ r.at = at
      BY <3>1, SMT
    <3>3. MergeState(out, c).out = out /\ MergeState(out, c).cursor = c
      BY SMT DEF MergeState
    <3>4. st.out = out /\ st.cursor = c
      BY <2>1, <3>3
    <3> QED
      BY <2>5, <3>2, <3>4 DEF Reused, MergeState
  <2> HIDE DEF new
  <2>9. ASSUME NEW l \in 1 .. i + 1, NEW k \in is[l].keys PROVE Under(L, d, k)
    <3>1. CASE l \in 1 .. i
      <4>1. k \in Int /\ Under(L, c, k)
        BY <2>1, <2>3, <2>4, <3>1
      <4> HIDE DEF d
      <4> QED
        BY <2>1, <2>5, <4>1, UnderLater
    <3>2. CASE l = i + 1
      BY <2>2, <3>2 DEF From, K
    <3> QED
      BY <2>3, <3>1, <3>2
  <2>10. ASSUME NEW l \in 1 .. Len(is), i + 1 < l PROVE d <= is[l].from
    <3> DEFINE a == is[l].from
    <3>1. stop < a
      BY <2>3, <2>10 DEF Laid, Apart, stop
    <3>2. a \in 1 .. Len(L)
      BY <2>4
    <3>3. stop \in 1 .. Len(L) /\ Len(L) \in Nat /\ d \in 1 .. Len(L) + 1 /\ d <= stop + 1
      BY <2>4, <2>5
    <3> HIDE DEF a, d
    <3>4. d <= a
      BY <3>1, <3>2, <3>3, SMT
    <3> QED
      BY <3>4 DEF a
  <2> HIDE DEF d
  <2>11. MergeInv(f, E, L, W, is, i + 1, MergeState(new, d))
    BY <2>5, <2>7, <2>9, <2>10 DEF MergeInv
  <2> QED
    BY <2>8, <2>11 DEF W, from
\* The recursive definition of IslandMerges has a solution, up to every island.
<1>2. \A n \in Nat : \E g : MergedTo(L, is, replay, g, n)
  <2> DEFINE T == {n \in Nat : \E g : MergedTo(L, is, replay, g, n)}
             z == [out |-> <<>>, pending |-> {}, cursor |-> 1]
  <2>1. 0 \in T
    <3>1. MergedTo(L, is, replay, [i \in 0 .. 0 |-> z], 0)
      <4>1. \A i \in 0 .. 0 : i = 0
        BY SMT
      <4> QED
        BY <4>1 DEF MergedTo
    <3>2. 0 \in Nat
      BY SMT
    <3> QED
      BY <3>1, <3>2
  <2>2. ASSUME NEW n \in Nat, n \in T PROVE n + 1 \in T
    <3>1. PICK g : MergedTo(L, is, replay, g, n)
      BY <2>2
    <3> DEFINE x == Reused(L, g[n], is[n + 1].from, replay[n + 1])
               h == [i \in 0 .. n + 1 |-> IF i = n + 1 THEN x ELSE g[i]]
    <3>2. \A i \in 0 .. n : g[i] = IF i = 0 THEN z ELSE Reused(L, g[i - 1], is[i].from, replay[i])
      BY <3>1 DEF MergedTo
    <3>3. /\ n + 1 # 0 /\ (n + 1) - 1 = n /\ n # n + 1 /\ n \in 0 .. n + 1
          /\ \A i \in 0 .. n + 1 : i # n + 1 => i \in 0 .. n
          /\ \A i \in 0 .. n + 1 : i # n + 1 /\ i # 0 => i - 1 # n + 1 /\ i - 1 \in 0 .. n + 1
          /\ n + 1 \in Nat
      BY SMT
    <3> HIDE DEF z
    <3>4. ASSUME NEW i \in 0 .. n + 1
          PROVE  h[i] = IF i = 0 THEN z ELSE Reused(L, h[i - 1], is[i].from, replay[i])
      <4>1. CASE i = n + 1
        <5>1. h[i - 1] = g[n] /\ h[i] = x
          BY <3>3, <4>1
        <5> QED
          BY <3>3, <4>1, <5>1
      <4>2. CASE i # n + 1 /\ i = 0
        BY <3>2, <3>3, <4>2
      <4>3. CASE i # n + 1 /\ i # 0
        <5>1. h[i] = g[i] /\ h[i - 1] = g[i - 1]
          BY <3>3, <4>3
        <5> QED
          BY <3>2, <3>3, <4>3, <5>1
      <4> QED
        BY <4>1, <4>2, <4>3
    <3>5. MergedTo(L, is, replay, h, n + 1)
      BY <3>4 DEF MergedTo, z
    <3> QED
      BY <3>3, <3>5
  <2> HIDE DEF T
  <2>3. \A n \in Nat : n \in T
    BY <2>1, <2>2, Induction
  <2> QED
    BY <2>3 DEF T
<1> DEFINE W == Written(s, muts)
           g == IslandMerges(L, is, replay)
           z == [out |-> <<>>, pending |-> {}, cursor |-> 1]
           T == {n \in Nat : n <= Len(is) => MergeInv(f, E, L, W, is, n, g[n])}
<1>3. /\ Len(is) \in Nat /\ Len(L) \in Nat
      /\ \A l \in 1 .. Len(is) : is[l].from \in 1 .. Len(L)
  BY DEF Laid
<1>4. MergedTo(L, is, replay, g, Len(is))
  <2>1. \E h : MergedTo(L, is, replay, h, Len(is))
    BY <1>3, <1>2
  <2> QED
    BY <2>1 DEF IslandMerges, MergedTo
<1> HIDE DEF g
<1>5. \A i \in 0 .. Len(is) : g[i] = IF i = 0 THEN z ELSE Reused(L, g[i - 1], is[i].from, replay[i])
  BY <1>4 DEF MergedTo
<1>6. 0 \in T
  <2>1. /\ 0 \in 0 .. Len(is) /\ 0 \in Nat /\ 1 \in 1 .. Len(L) + 1 /\ 1 .. 0 = {}
        /\ \A a \in 1 .. Len(L) : 1 <= a
    BY <1>3, SMT
  <2>2. g[0] = MergeState(<<>>, 1)
    BY <1>5, <2>1 DEF MergeState
  <2>3. <<>> \in Seq(Nodes(0, E)) /\ Ready(f, E, L, W, 1, <<>>)
    BY ReadyStart
  <2>4. \A l \in 1 .. Len(is) : 1 <= is[l].from
    BY <1>3, <2>1
  <2>5. MergeInv(f, E, L, W, is, 0, g[0])
    <3> HIDE DEF W
    <3> QED
      BY <2>1, <2>2, <2>3, <2>4 DEF MergeInv
  <2> QED
    BY <2>1, <2>5
<1>7. ASSUME NEW n \in Nat, n \in T PROVE n + 1 \in T
  <2>1. /\ n + 1 \in Nat /\ n + 1 # 0 /\ (n + 1) - 1 = n
        /\ n + 1 <= Len(is) => n <= Len(is) /\ n + 1 \in 0 .. Len(is) /\ n + 1 \in 1 .. Len(is)
    BY <1>3, SMT
  <2>2. ASSUME n + 1 <= Len(is) PROVE MergeInv(f, E, L, W, is, n + 1, g[n + 1])
    <3>1. MergeInv(f, E, L, W, is, n, g[n])
      BY <1>7, <2>1, <2>2
    <3>2. g[n + 1] = Reused(L, g[n], is[n + 1].from, replay[n + 1])
      <4>1. g[(n + 1) - 1] = g[n]
        BY <2>1
      <4> HIDE DEF z
      <4> QED
        BY <1>5, <2>1, <2>2, <4>1
    <3>3. MergeInv(f, E, L, W, is, n + 1, Reused(L, g[n], is[n + 1].from, replay[n + 1]))
      <4>1. IslandDone(f, L, W, is[n + 1], replay[n + 1])
        BY <2>1, <2>2
      <4> QED
        BY <2>2, <3>1, <4>1, <1>1
    <3> QED
      BY <3>2, <3>3
  <2> QED
    BY <2>1, <2>2
<1> HIDE DEF T
<1>8. \A n \in Nat : n \in T
  BY <1>6, <1>7, Induction
<1>9. Len(is) <= Len(is)
  BY <1>3, SMT
<1> QED
  BY <1>3, <1>8, <1>9 DEF T, g

\* The leaves of the islands, when they have any, are the canonical ones.
RewritesApart(f, s, L, muts) ==
    Islanded(f, L, muts) # None => Islanded(f, L, muts) = Level(f, 0, Sorted(Written(s, muts)))

\* So it is at the end of the merge.
LEMMA MergesCanonical ==
    ASSUME NEW f, NEW E, NEW s, NEW L, NEW ends, Leafed(f, E, s, L, ends), NEW muts, Batch(E, muts)
    PROVE  RewritesApart(f, s, L, muts)
<1> DEFINE W == Written(s, muts)
           K == DOMAIN muts
           is == Islands(L, muts)
           replay == [i \in DOMAIN is |->
                         Replayed(f, L, muts, is[i].keys, is[i].from, is[i].stop, TRUE)]
           st == IslandMerges(L, is, replay)[Len(is)]
<1>1. Laid(L, K, is)
  BY IslandsLaid
<1>2. Islanded(f, L, muts) = Proved(L, is, replay)
  BY DEF Islanded, Executed
<1> HIDE DEF is
<1>3. SUFFICES ASSUME Proved(L, is, replay) # None
               PROVE  Proved(L, is, replay) = Level(f, 0, Sorted(W))
  BY <1>2 DEF RewritesApart
<1>4. /\ \A i \in DOMAIN is : replay[i].at # 0
      /\ Proved(L, is, replay) = Closed(L, st)
  BY <1>3 DEF Proved
<1>5. DOMAIN is = 1 .. Len(is) /\ \A k \in K : \E j \in 1 .. Len(is) : k \in is[j].keys
  BY <1>1 DEF Laid
<1>6. ASSUME NEW j \in 1 .. Len(is) PROVE IslandDone(f, L, W, is[j], replay[j])
  <2>1. /\ replay[j] = Replayed(f, L, muts, is[j].keys, is[j].from, is[j].stop, TRUE)
        /\ replay[j].at # 0
    BY <1>4, <1>5
  <2> HIDE DEF replay
  <2> QED
    BY <1>1, <2>1, IslandReplay
<1> HIDE DEF replay
<1>7. MergeInv(f, E, L, W, is, Len(is), st)
  BY <1>1, <1>6, MergesEnd
<1> HIDE DEF st
<1>8. PICK c \in 1 .. Len(L) + 1, out \in Seq(Nodes(0, E)) :
          /\ st = MergeState(out, c)
          /\ Ready(f, E, L, W, c, out)
          /\ \A l \in 1 .. Len(is) : \A k \in is[l].keys : Under(L, c, k)
  BY <1>7 DEF MergeInv
<1>9. From(L, K, c) = {}
  BY <1>5, <1>8 DEF From
<1>10. st.out = out /\ st.cursor = c
  <2>1. MergeState(out, c).out = out /\ MergeState(out, c).cursor = c
    BY SMT DEF MergeState
  <2> QED
    BY <1>8, <2>1
<1>11. Completes(f, s, L, muts, c, out)
  BY <1>8, <1>9, ReadyCloses
<1>12. Closed(L, st) = out \o SubSeq(L, c, Len(L))
  BY <1>10 DEF Closed
<1> QED
  BY <1>4, <1>11, <1>12 DEF Completes

\* The parallel path of apply_impl in write.rs (try_parallel_structural_islands): for every
\* format, every leaf level that a builder made and every finite batch, when all islands
\* line up with the old leaves the leaves merged from their replays are the leaf level that
\* the builder makes of the entries after the batch, the same as the sequential writer's.
\* So islands replayed without each other's mutations never overlap or miss a mutation,
\* whatever the width of the guard.
THEOREM IslandsCanonical ==
    ASSUME NEW f, NEW V, NEW K \in SUBSET Int, IsFiniteSet(K), NEW muts \in [K -> V \cup {None}],
           NEW s \in Seq(LeafEntry(V)), s # <<>>, Increasing(s),
           Islanded(f, Level(f, 0, s), muts) # None
    PROVE  Islanded(f, Level(f, 0, s), muts) = Level(f, 0, Sorted(Written(s, muts)))
<1> DEFINE E == LeafEntry(V)
           L == Level(f, 0, s)
<1>1. PICK ends : Leafed(f, E, s, L, ends) /\ Batch(E, muts)
  BY BuiltLeaves
<1> HIDE DEF E, L
<1>2. RewritesApart(f, s, L, muts)
  BY <1>1, MergesCanonical
<1> QED
  BY <1>2 DEF RewritesApart, L

=============================================================================
