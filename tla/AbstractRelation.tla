---------------------------- MODULE AbstractRelation ----------------------------
(***************************************************************************)
(* What the manual promises of a relationship between two classes, without  *)
(* saying how it is kept: a set of pairs, changed one link at a time inside *)
(* a transaction, which is committed or forgotten as a whole.               *)
(***************************************************************************)
EXTENDS Naturals

CONSTANTS A, B      \* the objects of the two classes

VARIABLES
    rel,     \* the cardinality: "1_1", "1_N" (an A has many Bs) or "N_N"
    pairs,   \* the links the current transaction sees
    saved,   \* the links that are committed
    broken   \* an operation failed: the transaction can only be aborted

relvars == <<rel, pairs, saved, broken>>

Init == rel \in {"1_1", "1_N", "N_N"} /\ pairs = {} /\ saved = {} /\ broken = FALSE

\* The links of P that a link <<a, b>> excludes: a B has one A unless the relation
\* is N:N, an A has one B only if it is 1:1.
Excluded(P, a, b) == {p \in P : \/ p[2] = b /\ rel # "N_N"
                                \/ p[1] = a /\ rel = "1_1"}

Link(P, a, b)   == (P \ Excluded(P, a, b)) \cup {<<a, b>>}
Unlink(P, a, b) == P \ {<<a, b>>}
Forget(P, o)    == {p \in P : p[1] # o /\ p[2] # o}

\* One operation turns the links P into Q.
Changed(P, Q) ==
    \/ \E a \in A, b \in B : Q = Link(P, a, b) \/ Q = Unlink(P, a, b)
    \/ \E o \in A \cup B : Q = Forget(P, o)

Change == ~broken /\ UNCHANGED <<broken, rel, saved>> /\ Changed(pairs, pairs')

\* A failed operation; what the transaction sees no longer matters.
Break == broken' = TRUE /\ pairs' = {} /\ UNCHANGED <<rel, saved>>

Commit == ~broken /\ saved' = pairs /\ UNCHANGED <<rel, pairs, broken>>
Abort  == pairs' = saved /\ broken' = FALSE /\ UNCHANGED <<rel, saved>>

Next == Change \/ Break \/ Commit \/ Abort

Spec == Init /\ [][Next]_relvars
=============================================================================
