------------------------ MODULE MCIndexedCollections ------------------------
(* Instances of IndexedCollections for TLC. *)
EXTENDS IndexedCollections, TLC

CONSTANTS c1, c2, k1, k2, a, b, t1, t2, full, n1, d1, d2, pin1

MCClients == {c1, c2}
MCKeys == {k1, k2}
MCOneKey == {k1}
MCValues == {a, b}
MCTerms == {t1, t2}
MCProjections == {full, a, b}
MCNames == {n1}
MCDefinitions == {d1, d2}
MCNameOf == (d1 :> n1) @@ (d2 :> n1)
MCGeneration == (d1 :> 1) @@ (d2 :> 2)

\* d1 indexes every value under its own term, with no projection; d2 is
\* sparse and multi-valued, and stores the whole source value.
Emitted(d, v, t) ==
    CASE d = d1 -> IF (v = a) = (t = t1) THEN full ELSE None
      [] d = d2 -> IF t = t1 \/ v = a THEN v ELSE None
MCEmits ==
    [d \in Definitions |-> [k \in Keys |-> [v \in Values |->
        [t \in Terms |-> Emitted(d, v, t)]]]]

\* Both handles register generation 1; the first keeps generation 2 as a
\* historical definition, the second does not know it.
MCRegistry == [c \in Clients |-> [n \in Names |-> d1]]
MCHistorical == (c1 :> {d2}) @@ (c2 :> {})

\* A batch may hold several mutations of one key: the last one counts.  Between
\* them the two insert, change and delete.
MCBatches ==
    {<< <<k1, a>>, <<k2, None>> >>, << <<k1, None>>, <<k1, b>>, <<k2, a>> >>}
MCOneKeyBatches ==
    {<< <<k1, a>> >>, << <<k1, b>> >>, << <<k1, a>>, <<k1, None>> >>}
MCPinIds == {pin1}
=============================================================================
