--------------------------- MODULE MCRelationship ---------------------------
(***************************************************************************)
(* The model of Relationship for TLC: the objects of a class are            *)
(* interchangeable, and the transactions that have failed on the same       *)
(* committed objects are one state, for they can only be aborted.           *)
(***************************************************************************)
EXTENDS Relationship, TLC

Symmetry == Permutations(A) \cup Permutations(B)

View == IF open /\ ~Usable THEN <<rel, saved, open, ctx>> ELSE vars

\* Bound: once a trigger that failed has left inv_list set, no cached object is
\* patched any more, and the objects in the cache do not act on each other: one
\* of them is enough.
LeakBound == ctx => Cardinality({o \in Objs : held[o].in}) <= 1
=============================================================================
