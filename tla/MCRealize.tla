----------------------------- MODULE MCRealize -----------------------------
(***************************************************************************)
(* The model of Realize for TLC: three objects with two attributes each,    *)
(* linked in the ways that a recursive call has to tell apart.              *)
(***************************************************************************)
EXTENDS Realize

CONSTANTS p, q, r

MCObj == {p, q, r}
MCModes == {{}, {1, 2}}         \* NoRecurs, FullRecurs

Graph(ps, qs, rs) == [o \in MCObj |-> IF o = p THEN ps ELSE IF o = q THEN qs ELSE rs]
Leaf == <<Null, Null>>

MCGraphs == {
    Graph(<<q, Null>>, <<r, Null>>, Leaf),          \* a chain
    Graph(<<q, q>>,    Leaf,        Leaf),          \* two references to one object
    Graph(<<q, r>>,    <<r, Null>>, Leaf),          \* two paths to one object
    Graph(<<p, q>>,    Leaf,        Leaf),          \* a reference to oneself
    Graph(<<q, Null>>, <<p, Null>>, Leaf),          \* a cycle
    Graph(<<q, r>>,    <<r, Null>>, <<q, Null>>),   \* a cycle with two ways in
    Graph(<<q, r>>,    <<r, p>>,    <<p, Null>>)}   \* cycles and a shared object
=============================================================================
