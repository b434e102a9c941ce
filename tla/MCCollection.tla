---------------------------- MODULE MCCollection ----------------------------
(***************************************************************************)
(* The cardinality constraints of the run of Collection.                    *)
(***************************************************************************)
EXTENDS Collection

Card(bottom, bottomExcl, top, topExcl) ==
    [set |-> TRUE, bottom |-> bottom, bottomExcl |-> bottomExcl,
     top |-> top, topExcl |-> topExcl]

NoCard == [Card(0, FALSE, maxint, FALSE) EXCEPT !.set = FALSE]

\* No constraint; "one element", said by two excluded bounds; and "two elements",
\* said by two included ones.
FewCards == {NoCard, Card(0, TRUE, 2, TRUE), Card(2, FALSE, 2, FALSE)}
=============================================================================
