------------------------ MODULE MCBranchPublication ------------------------
(* Instances of BranchPublication for TLC: two handles of two writers. *)
EXTENDS BranchPublication, TLC

CONSTANTS h1, h2, w1, w2, p, s, x

MCHandles == {h1, h2}
MCWriterOf == (h1 :> w1) @@ (h2 :> w2)
\* Nothing tells the two handles and their writers apart.
Swap ==
    {f \in Permutations({h1, h2, w1, w2}) :
        {f[h1], f[h2]} = {h1, h2} /\ f[w1] = MCWriterOf[f[h1]] /\ f[w2] = MCWriterOf[f[h2]]}
MCPuts == {p}
MCSessions == {s}
MCElsewhere == {x}

\* The last call of a behaviour publishes a session.
LastIsSession ==
    calls' = MaxCalls /\ calls < MaxCalls =>
        \E h \in Handles : call'[h].id = <<h, calls>> /\ call'[h].kind = "session"

\* SessionOnce without its window: no session is published twice.
SessionUnique ==
    \A i, j \in 1 .. Len(Log(ref)) :
        Log(ref)[i].op \in Sessions /\ Log(ref)[i].op = Log(ref)[j].op => i = j
=============================================================================
