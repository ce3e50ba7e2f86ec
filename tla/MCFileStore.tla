----------------------------- MODULE MCFileStore -----------------------------
(* Instances of FileStore for TLC. *)
EXTENDS FileStore, TLC

CONSTANTS a, b, e, t1, s1, s2, c1, p, q, x, y, z

MCReach == (e :> {}) @@ (t1 :> {c1})
v1 == [tree |-> t1, stamp |-> s1]
v2 == [tree |-> t1, stamp |-> s2]
v3 == [tree |-> e, stamp |-> s2]
NoName == [n \in Names |-> Unset]

\* A two-root commit with a node, a conditional replacement of both roots,
\* put_root, and a compare_and_swap_root that deletes.
MCRequests == {
    [nodes |-> {c1}, conditions |-> (a :> Absent) @@ NoName, writes |-> (a :> v1) @@ (b :> v1)],
    [nodes |-> {}, conditions |-> (b :> v1) @@ NoName, writes |-> (a :> Absent) @@ (b :> v2)],
    [nodes |-> {}, conditions |-> NoName, writes |-> (a :> v3) @@ NoName],
    [nodes |-> {}, conditions |-> (b :> v2) @@ NoName, writes |-> (b :> Absent) @@ NoName]}

\* x and y share a handle, z has its own.
MCHandleOf == [c \in Clients |-> IF c = z THEN q ELSE p]
=============================================================================
