------------------------- MODULE DatabaseClassProofs -------------------------
(***************************************************************************)
(* What the calls of class Database do, for every lower layer: lemmas that *)
(* module TransactionProofs instantiates for the server and for the client. *)
(***************************************************************************)
EXTENDS DatabaseClass, TLAPS

\* The fields of a Database that a transaction call leaves alone.
SameOpen(d2, d) ==
    /\ (d2.dbh <=> d.dbh) /\ (d2.sch <=> d.sch) /\ (d2.listed <=> d.listed)
    /\ d2.ref = d.ref

\* What the assignments of class Database do to its fields.
LEMMA SetTrs ==
    ASSUME NEW d \in Database, NEW n \in Nat, NEW e, e = [d EXCEPT !.trs = n]
    PROVE  /\ e \in Database /\ SameOpen(e, d) /\ (e.mod <=> d.mod)
           /\ e.trs = n /\ (e.cur <=> d.cur)
  BY DEF Database, SameOpen

\* A new Transaction object at level 1 (transactionBegin_realize).
LEMMA SetNewTrs ==
    ASSUME NEW d \in Database, NEW e, e = [NewTrs(d) EXCEPT !.trs = 1]
    PROVE  e \in Database /\ SameOpen(e, d) /\ (e.mod <=> d.mod) /\ e.trs = 1 /\ e.cur
  BY DEF Database, SameOpen, NewTrs

\* Deleting the Transaction object leaves trs_cnt alone.
LEMMA SetEndTrs ==
    ASSUME NEW d \in Database, NEW e, e = EndTrs(d)
    PROVE  e \in Database /\ SameOpen(e, d) /\ (e.mod <=> d.mod) /\ e.trs = d.trs /\ ~e.cur
  BY DEF Database, SameOpen, EndTrs

\* The end of a level-1 transaction: no Transaction object, trs_cnt 0.
LEMMA SetEnded ==
    ASSUME NEW d \in Database, NEW e, e = [EndTrs(d) EXCEPT !.trs = 0]
    PROVE  e \in Database /\ SameOpen(e, d) /\ (e.mod <=> d.mod) /\ e.trs = 0 /\ ~e.cur
  BY DEF Database, SameOpen, EndTrs

\* The end of an abort, after which the schema is no longer modified.
LEMMA SetAborted ==
    ASSUME NEW d \in Database, NEW e, e = [EndTrs(d) EXCEPT !.trs = 0, !.mod = FALSE]
    PROVE  e \in Database /\ SameOpen(e, d) /\ ~e.mod /\ e.trs = 0 /\ ~e.cur
  BY DEF Database, SameOpen, EndTrs

\* open() sets the handle of the lower layer and no other field.
LEMMA SetDbh ==
    ASSUME NEW d \in Database, NEW e, e = [d EXCEPT !.dbh = TRUE]
    PROVE  /\ e \in Database /\ e.dbh /\ (e.sch <=> d.sch) /\ (e.listed <=> d.listed)
           /\ e.ref = d.ref /\ (e.mod <=> d.mod) /\ e.trs = d.trs /\ (e.cur <=> d.cur)
  BY DEF Database

\* open_refcnt changes alone.
LEMMA SetRef ==
    ASSUME NEW d \in Database, NEW n \in Int, NEW e, e = [d EXCEPT !.ref = n]
    PROVE  /\ e \in Database /\ (e.dbh <=> d.dbh) /\ (e.sch <=> d.sch)
           /\ (e.listed <=> d.listed) /\ e.ref = n
           /\ (e.mod <=> d.mod) /\ e.trs = d.trs /\ (e.cur <=> d.cur)
  BY DEF Database

\* A handle with its schema that enters dbopen_list keeps its transaction.
LEMMA SetListed ==
    ASSUME NEW d \in Database, NEW e, e = [d EXCEPT !.sch = TRUE, !.listed = TRUE]
    PROVE  /\ e \in Database /\ (e.dbh <=> d.dbh) /\ e.sch /\ e.listed /\ e.ref = d.ref
           /\ (e.mod <=> d.mod) /\ e.trs = d.trs /\ (e.cur <=> d.cur)
  BY DEF Database

\* The assignments of open() after the schema is loaded.
LEMMA SetOpened ==
    ASSUME NEW d \in Database, NEW e,
           e = [d EXCEPT !.sch = TRUE, !.listed = TRUE, !.ref = 1]
    PROVE  /\ e \in Database /\ (e.dbh <=> d.dbh) /\ e.sch /\ e.listed /\ e.ref = 1
           /\ (e.mod <=> d.mod) /\ e.trs = d.trs /\ (e.cur <=> d.cur)
  <1> DEFINE f == [d EXCEPT !.sch = TRUE, !.listed = TRUE]
  <1>1. e = [f EXCEPT !.ref = 1]  BY DEF Database
  <1>2. /\ f \in Database /\ (f.dbh <=> d.dbh) /\ f.sch /\ f.listed
        /\ (f.mod <=> d.mod) /\ f.trs = d.trs /\ (f.cur <=> d.cur)
    BY SetListed
  <1> HIDE DEF f
  <1>3. \A g : g = [f EXCEPT !.ref = 1] =>
            /\ g \in Database /\ (g.dbh <=> d.dbh) /\ g.sch /\ g.listed /\ g.ref = 1
            /\ (g.mod <=> d.mod) /\ g.trs = d.trs /\ (g.cur <=> d.cur)
    BY <1>2, SetRef
  <1> QED  BY <1>1, <1>3, Zenon

\* The assignments of close() after the lower layer is closed.
LEMMA SetClosed ==
    ASSUME NEW d \in Database, NEW e, e = [d EXCEPT !.dbh = FALSE, !.listed = FALSE]
    PROVE  /\ e \in Database /\ ~e.dbh /\ ~e.listed /\ e.ref = d.ref /\ (e.sch <=> d.sch)
           /\ (e.mod <=> d.mod) /\ e.trs = d.trs /\ (e.cur <=> d.cur)
  BY DEF Database

\* What the assignments of class Database do to the incoherency.
LEMMA SetIncoh ==
    ASSUME NEW d \in Database
    PROVE  /\ \A n \in Nat : [d EXCEPT !.trs = n].incoh <=> d.incoh
           /\ ~[NewTrs(d) EXCEPT !.trs = 1].incoh /\ ~EndTrs(d).incoh
           /\ ~[EndTrs(d) EXCEPT !.trs = 0].incoh
           /\ ~[EndTrs(d) EXCEPT !.trs = 0, !.mod = FALSE].incoh
           /\ [d EXCEPT !.dbh = TRUE].incoh <=> d.incoh
           /\ \A n \in Int : [d EXCEPT !.ref = n].incoh <=> d.incoh
           /\ [d EXCEPT !.sch = TRUE, !.listed = TRUE, !.ref = 1].incoh <=> d.incoh
           /\ [d EXCEPT !.dbh = FALSE, !.listed = FALSE].incoh <=> d.incoh
  BY DEF Database, NewTrs, EndTrs

\* transactionBegin adds a level, the first one in the lower layer too.
LEMMA BeginIs ==
    ASSUME NEW d \in Database, NEW l, NEW r \in DbBegin(d, l)
    PROVE  /\ r.d \in Database /\ SameOpen(r.d, d) /\ (r.d.mod <=> d.mod)
           /\ \/ /\ r.st = "Success" /\ d.trs > 0
                 /\ r.d.trs = d.trs + 1 /\ (r.d.cur <=> d.cur) /\ r.l = l
              \/ /\ r.st = "Success" /\ d.trs = 0 /\ r.d.trs = 1 /\ r.d.cur
                 /\ \E q \in LBegin(l) : q.st = "Success" /\ r.l = q.l
              \/ /\ r.st = "Error" /\ d.trs = 0 /\ r.d.trs = 0 /\ ~r.d.cur
                 /\ \E q \in LBegin(l) : q.st # "Success" /\ r.l = q.l
  <1>0. d.trs \in Nat /\ d.trs + 1 \in Nat  BY DEF Database
  <1>1. \/ d.trs > 0 /\ r = Out("Success", [d EXCEPT !.trs = @ + 1], l)
        \/ d.trs = 0 /\ \E q \in LBegin(l) :
             q.st = "Success" /\ r = Out("Success", [NewTrs(d) EXCEPT !.trs = 1], q.l)
        \/ d.trs = 0 /\ \E q \in LBegin(l) :
             q.st # "Success" /\ r = Out("Error", EndTrs(d), q.l)
    BY <1>0 DEF DbBegin
  <1>2. CASE d.trs > 0 /\ r = Out("Success", [d EXCEPT !.trs = @ + 1], l)
    <2>1. r.st = "Success" /\ r.d = [d EXCEPT !.trs = d.trs + 1] /\ r.l = l
      BY <1>2 DEF Out
    <2> QED  BY <1>0, <1>2, <2>1, SetTrs
  <1>3. ASSUME NEW q \in LBegin(l), d.trs = 0, q.st = "Success",
               r = Out("Success", [NewTrs(d) EXCEPT !.trs = 1], q.l)
        PROVE  /\ r.d \in Database /\ SameOpen(r.d, d) /\ (r.d.mod <=> d.mod)
               /\ r.st = "Success" /\ r.d.trs = 1 /\ r.d.cur /\ r.l = q.l
    <2>1. r.st = "Success" /\ r.d = [NewTrs(d) EXCEPT !.trs = 1] /\ r.l = q.l
      BY <1>3 DEF Out
    <2> QED  BY <2>1, SetNewTrs
  <1>4. ASSUME NEW q \in LBegin(l), d.trs = 0, q.st # "Success", r = Out("Error", EndTrs(d), q.l)
        PROVE  /\ r.d \in Database /\ SameOpen(r.d, d) /\ (r.d.mod <=> d.mod)
               /\ r.st = "Error" /\ r.d.trs = 0 /\ ~r.d.cur /\ r.l = q.l
    <2>1. r.st = "Error" /\ r.d = EndTrs(d) /\ r.l = q.l
      BY <1>4 DEF Out
    <2> QED  BY <1>4, <2>1, SetEndTrs
  <1> QED  BY <1>1, <1>2, <1>3, <1>4

\* transactionCommit removes a level, the last one in the lower layer too.
LEMMA CommitIs ==
    ASSUME NEW d \in Database, NEW l, NEW r \in DbCommit(d, l)
    PROVE  /\ r.d \in Database /\ SameOpen(r.d, d) /\ (r.d.mod <=> d.mod)
           /\ \/ r.st = "Error" /\ r.d = d /\ r.l = l
              \/ /\ r.st = "Error" /\ r.d = d /\ d.cur /\ d.trs = 1
                 /\ \E q \in LCommit(l) : q.st # "Success" /\ r.l = q.l
              \/ /\ r.st = "Success" /\ d.cur /\ d.trs > 1
                 /\ r.d.trs = d.trs - 1 /\ (r.d.cur <=> d.cur) /\ r.l = l
              \/ /\ r.st = "Success" /\ d.cur /\ d.trs = 1 /\ r.d.trs = 0 /\ ~r.d.cur
                 /\ \E q \in LCommit(l) : q.st = "Success" /\ r.l = q.l
  <1>0. d.trs \in Nat /\ (d.trs > 1 => d.trs - 1 \in Nat)  BY DEF Database
  <1>1. \/ r = Out("Error", d, l)
        \/ d.cur /\ d.trs > 1 /\ r = Out("Success", [d EXCEPT !.trs = @ - 1], l)
        \/ d.cur /\ d.trs = 1 /\ \E q \in LCommit(l) :
             q.st = "Success" /\ r = Out("Success", [EndTrs(d) EXCEPT !.trs = 0], q.l)
        \/ d.cur /\ d.trs = 1 /\ \E q \in LCommit(l) :
             q.st # "Success" /\ r = Out("Error", d, q.l)
    BY <1>0 DEF DbCommit, TrsCommit
  <1>2. CASE r = Out("Error", d, l)
    <2>1. r.st = "Error" /\ r.d = d /\ r.l = l  BY <1>2 DEF Out
    <2> QED  BY <2>1 DEF SameOpen
  <1>3. ASSUME NEW q \in LCommit(l), q.st # "Success", r = Out("Error", d, q.l)
        PROVE  r.st = "Error" /\ r.d = d /\ r.l = q.l /\ SameOpen(r.d, d)
    <2>1. r.st = "Error" /\ r.d = d /\ r.l = q.l  BY <1>3 DEF Out
    <2> QED  BY <2>1 DEF SameOpen
  <1>4. CASE d.cur /\ d.trs > 1 /\ r = Out("Success", [d EXCEPT !.trs = @ - 1], l)
    <2>1. r.st = "Success" /\ r.d = [d EXCEPT !.trs = d.trs - 1] /\ r.l = l
      BY <1>4 DEF Out
    <2>2. d.trs - 1 \in Nat  BY <1>0, <1>4
    <2>3. /\ r.d \in Database /\ SameOpen(r.d, d) /\ (r.d.mod <=> d.mod)
          /\ r.d.trs = d.trs - 1 /\ (r.d.cur <=> d.cur)
      BY <2>1, <2>2, SetTrs
    <2> QED  BY <1>4, <2>1, <2>3
  <1>5. ASSUME NEW q \in LCommit(l), q.st = "Success",
               r = Out("Success", [EndTrs(d) EXCEPT !.trs = 0], q.l)
        PROVE  /\ r.d \in Database /\ SameOpen(r.d, d) /\ (r.d.mod <=> d.mod)
               /\ r.st = "Success" /\ r.d.trs = 0 /\ ~r.d.cur /\ r.l = q.l
    <2>1. r.st = "Success" /\ r.d = [EndTrs(d) EXCEPT !.trs = 0] /\ r.l = q.l
      BY <1>5 DEF Out
    <2> QED  BY <2>1, SetEnded
  <1> QED  BY <1>1, <1>2, <1>3, <1>4, <1>5

\* transactionAbort removes a level, the last one in the lower layer too,
\* where the purge of the schema follows.
LEMMA AbortIs ==
    ASSUME NEW d \in Database, NEW l, NEW r \in DbAbort(d, l)
    PROVE  /\ r.d \in Database /\ SameOpen(r.d, d) /\ (r.d.mod => d.mod)
           /\ \/ r.st = "Error" /\ r.d = d /\ r.l = l
              \/ /\ r.st = "Error" /\ r.d = d /\ d.cur /\ d.trs = 1
                 /\ \E q \in LAbort(l) : q.st = "Error" /\ r.l = q.l
              \/ /\ r.st = "Success" /\ d.cur /\ d.trs > 1
                 /\ r.d.trs = d.trs - 1 /\ (r.d.cur <=> d.cur) /\ r.l = l
              \/ /\ r.st = "Success" /\ d.cur /\ d.trs = 1 /\ r.d.trs = 0 /\ ~r.d.cur
                 /\ \E q \in LAbort(l) : q.st # "Error" /\ r.l \in SchemaPurge(d, q.l)
  <1>0. d.trs \in Nat /\ (d.trs > 1 => d.trs - 1 \in Nat)  BY DEF Database
  <1>1. \/ r = Out("Error", d, l)
        \/ d.cur /\ d.trs > 1 /\ r = Out("Success", [d EXCEPT !.trs = @ - 1], l)
        \/ d.cur /\ d.trs = 1 /\ \E q \in LAbort(l) :
             q.st = "Error" /\ r = Out("Error", d, q.l)
        \/ d.cur /\ d.trs = 1 /\ \E q \in LAbort(l) : q.st # "Error" /\
             \E l2 \in SchemaPurge(d, q.l) :
               r = Out("Success", [EndTrs(d) EXCEPT !.trs = 0, !.mod = FALSE], l2)
    <2>1. ASSUME NEW t \in TrsAbort(d, l)
          PROVE  \E q \in LAbort(l) :
                   \/ q.st = "Error" /\ t.st = "Error" /\ t.l = q.l
                   \/ q.st # "Error" /\ t.st = "Success" /\ t.l \in SchemaPurge(d, q.l)
      BY DEF TrsAbort
    <2>2. CASE ~d.cur \/ d.trs = 0 \/ d.trs > 1  BY <1>0, <2>2 DEF DbAbort
    <2>3. CASE d.cur /\ d.trs # 0 /\ ~(d.trs > 1)
      <3>1. PICK t \in TrsAbort(d, l) :
              r = IF t.st = "Success"
                  THEN Out("Success", [EndTrs(d) EXCEPT !.trs = 0, !.mod = FALSE], t.l)
                  ELSE Out("Error", d, t.l)
        BY <2>3 DEF DbAbort
      <3> QED  BY <1>0, <2>1, <2>3, <3>1
    <2> QED  BY <2>2, <2>3
  <1>2. CASE r = Out("Error", d, l)
    <2>1. r.st = "Error" /\ r.d = d /\ r.l = l  BY <1>2 DEF Out
    <2> QED  BY <2>1 DEF SameOpen
  <1>3. ASSUME NEW q \in LAbort(l), q.st = "Error", r = Out("Error", d, q.l)
        PROVE  r.st = "Error" /\ r.d = d /\ r.l = q.l /\ SameOpen(r.d, d)
    <2>1. r.st = "Error" /\ r.d = d /\ r.l = q.l  BY <1>3 DEF Out
    <2> QED  BY <2>1 DEF SameOpen
  <1>4. CASE d.cur /\ d.trs > 1 /\ r = Out("Success", [d EXCEPT !.trs = @ - 1], l)
    <2>1. r.st = "Success" /\ r.d = [d EXCEPT !.trs = d.trs - 1] /\ r.l = l
      BY <1>4 DEF Out
    <2>2. d.trs - 1 \in Nat  BY <1>0, <1>4
    <2>3. /\ r.d \in Database /\ SameOpen(r.d, d) /\ (r.d.mod <=> d.mod)
          /\ r.d.trs = d.trs - 1 /\ (r.d.cur <=> d.cur)
      BY <2>1, <2>2, SetTrs
    <2> QED  BY <1>4, <2>1, <2>3
  <1>5. ASSUME NEW l2, r = Out("Success", [EndTrs(d) EXCEPT !.trs = 0, !.mod = FALSE], l2)
        PROVE  /\ r.d \in Database /\ SameOpen(r.d, d) /\ ~r.d.mod
               /\ r.st = "Success" /\ r.d.trs = 0 /\ ~r.d.cur /\ r.l = l2
    <2>1. /\ r.st = "Success" /\ r.l = l2
          /\ r.d = [EndTrs(d) EXCEPT !.trs = 0, !.mod = FALSE]
      BY <1>5 DEF Out
    <2> QED  BY <2>1, SetAborted
  <1> QED  BY <1>1, <1>2, <1>3, <1>4, <1>5

\* A bracket of open() is a transactionBegin followed by a transactionCommit.
LEMMA BracketIs ==
    ASSUME NEW d, NEW l, NEW r \in Bracket(d, l)
    PROVE  \E b \in DbBegin(d, l) : \E c \in DbCommit(b.d, b.l) :
             r.began = b.st /\ r.d = c.d /\ r.l = c.l
  <1>1. PICK b \in DbBegin(d, l) : \E c \in DbCommit(b.d, b.l) :
          r = [began |-> b.st, d |-> c.d, l |-> c.l]
    BY DEF Bracket
  <1>2. PICK c \in DbCommit(b.d, b.l) : r = [began |-> b.st, d |-> c.d, l |-> c.l]
    BY <1>1
  <1>3. r.began = b.st /\ r.d = c.d /\ r.l = c.l  BY <1>2
  <1> QED  BY <1>3

\* A bracket of open() leaves the fields other than the transaction alone.
LEMMA BracketDb ==
    ASSUME NEW d \in Database, NEW l, NEW r \in Bracket(d, l)
    PROVE  r.d \in Database /\ SameOpen(r.d, d) /\ (r.d.mod <=> d.mod)
  <1>1. PICK b \in DbBegin(d, l) : \E c \in DbCommit(b.d, b.l) : r.d = c.d
    BY BracketIs
  <1>2. PICK c \in DbCommit(b.d, b.l) : r.d = c.d  BY <1>1
  <1>3. b.d \in Database /\ SameOpen(b.d, d) /\ (b.d.mod <=> d.mod)  BY BeginIs
  <1>4. c.d \in Database /\ SameOpen(c.d, b.d) /\ (c.d.mod <=> b.d.mod)  BY <1>3, CommitIs
  <1> QED  BY <1>2, <1>3, <1>4 DEF SameOpen

\* open() runs one or two brackets on a handle that has its dbh.
LEMMA OpenIs ==
    ASSUME NEW d \in Database, NEW l, NEW r \in DbOpen(d, l)
    PROVE  \E e \in Database :
             /\ e.dbh /\ (e.mod <=> d.mod) /\ e.trs = d.trs /\ (e.cur <=> d.cur)
             /\ e.ref = d.ref /\ (e.listed <=> d.listed) /\ (e.sch <=> d.sch)
             /\ (e.incoh <=> d.incoh)
             /\ \/ d.sch /\ r.st = "Success" /\ r.d = e /\ r.l = l
                \/ /\ ~d.sch
                   /\ \E b \in Bracket(e, l) :
                        \/ r.st = "Error" /\ r.d = b.d /\ r.l = b.l
                        \/ /\ r.st = "Success"
                           /\ \E f \in Database :
                                /\ (f.dbh <=> b.d.dbh) /\ f.sch /\ f.listed /\ f.ref = 1
                                /\ (f.mod <=> b.d.mod) /\ f.trs = b.d.trs
                                /\ (f.cur <=> b.d.cur) /\ (f.incoh <=> b.d.incoh)
                                /\ \E b2 \in Bracket(f, b.l) : r.d = b2.d /\ r.l = b2.l
  <1> DEFINE e == [d EXCEPT !.dbh = TRUE]
  <1>0. /\ e \in Database /\ e.dbh /\ (e.sch <=> d.sch) /\ (e.listed <=> d.listed)
        /\ e.ref = d.ref /\ (e.mod <=> d.mod) /\ e.trs = d.trs /\ (e.cur <=> d.cur)
        /\ (e.incoh <=> d.incoh)
    BY SetDbh, SetIncoh
  <1>1. CASE d.sch
    <2>1. r = Out("Success", e, l)  BY <1>1 DEF DbOpen
    <2> HIDE DEF e
    <2>2. r.st = "Success" /\ r.d = e /\ r.l = l  BY <2>1 DEF Out
    <2> QED  BY <1>0, <1>1, <2>2
  <1>2. CASE ~d.sch
    <2>1. r \in UNION {UNION {OpenEpilogue(b, x) : x \in LoadSchema(b.began)}
                : b \in Bracket(e, l)}
      BY <1>2 DEF DbOpen
    <2> HIDE DEF e
    <2>2. PICK b \in Bracket(e, l) : \E x \in LoadSchema(b.began) : r \in OpenEpilogue(b, x)
      BY <2>1
    <2>3. PICK x \in LoadSchema(b.began) : r \in OpenEpilogue(b, x)
      BY <2>2
    <2>4. CASE x = "Success"
      <3> DEFINE f == [b.d EXCEPT !.sch = TRUE, !.listed = TRUE, !.ref = 1]
      <3>0. /\ f \in Database /\ (f.dbh <=> b.d.dbh) /\ f.sch /\ f.listed /\ f.ref = 1
            /\ (f.mod <=> b.d.mod) /\ f.trs = b.d.trs /\ (f.cur <=> b.d.cur)
            /\ (f.incoh <=> b.d.incoh)
        <4>1. b.d \in Database  BY <1>0, BracketDb
        <4>2. f.incoh <=> b.d.incoh  BY <4>1, SetIncoh
        <4>3. /\ f \in Database /\ (f.dbh <=> b.d.dbh) /\ f.sch /\ f.listed /\ f.ref = 1
              /\ (f.mod <=> b.d.mod) /\ f.trs = b.d.trs /\ (f.cur <=> b.d.cur)
          BY <4>1, SetOpened
        <4> QED  BY <4>2, <4>3
      <3>1. PICK b2 \in Bracket(f, b.l) : r = Out("Success", b2.d, b2.l)
        BY <2>3, <2>4 DEF OpenEpilogue
      <3> HIDE DEF f
      <3>2. r.st = "Success" /\ r.d = b2.d /\ r.l = b2.l  BY <3>1 DEF Out
      <3> QED  BY <1>0, <1>2, <3>0, <3>2
    <2>5. CASE x # "Success"
      <3>1. r = Out("Error", b.d, b.l)  BY <2>3, <2>5 DEF OpenEpilogue
      <3>2. r.st = "Error" /\ r.d = b.d /\ r.l = b.l  BY <3>1 DEF Out
      <3> QED  BY <1>0, <1>2, <3>2
    <2> QED  BY <2>4, <2>5
  <1> QED  BY <1>1, <1>2

\* A successful first open() leaves a listed handle with one reference.
LEMMA OpenFields ==
    ASSUME NEW d \in Database, NEW l, NEW r \in DbOpen(d, l)
    PROVE  /\ r.d \in Database /\ r.d.dbh /\ (r.d.mod <=> d.mod)
           /\ (r.st = "Success" /\ ~d.sch) => r.d.listed /\ r.d.ref = 1
  <1>1. PICK e \in Database :
          /\ e.dbh /\ (e.mod <=> d.mod)
          /\ \/ d.sch /\ r.st = "Success" /\ r.d = e
             \/ \E b \in Bracket(e, l) :
                  \/ r.st = "Error" /\ r.d = b.d
                  \/ \E f \in Database :
                       /\ (f.dbh <=> b.d.dbh) /\ f.listed /\ f.ref = 1 /\ (f.mod <=> b.d.mod)
                       /\ \E b2 \in Bracket(f, b.l) : r.d = b2.d
    BY OpenIs
  <1>2. ASSUME NEW b \in Bracket(e, l) PROVE b.d \in Database /\ b.d.dbh /\ (b.d.mod <=> d.mod)
    BY <1>1, BracketDb DEF SameOpen
  <1>3. CASE d.sch /\ r.st = "Success" /\ r.d = e  BY <1>1, <1>3
  <1>4. ASSUME NEW b \in Bracket(e, l), r.st = "Error", r.d = b.d
        PROVE  r.d \in Database /\ r.d.dbh /\ (r.d.mod <=> d.mod) /\ r.st # "Success"
    BY <1>2, <1>4
  <1>5. ASSUME NEW b \in Bracket(e, l), NEW f \in Database,
               f.dbh <=> b.d.dbh, f.listed, f.ref = 1, f.mod <=> b.d.mod,
               NEW b2 \in Bracket(f, b.l), r.d = b2.d
        PROVE  r.d \in Database /\ r.d.dbh /\ (r.d.mod <=> d.mod) /\ r.d.listed /\ r.d.ref = 1
    <2>1. b2.d \in Database /\ SameOpen(b2.d, f) /\ (b2.d.mod <=> f.mod)  BY BracketDb
    <2> QED  BY <1>2, <1>5, <2>1 DEF SameOpen
  <1> QED  BY <1>1, <1>3, <1>4, <1>5

\* How close() ends a transaction: curtrs survives exactly a success.
LEMMA EndOnCloseIs ==
    ASSUME NEW d \in Database, NEW l, NEW r \in EndOnClose(d, l)
    PROVE  /\ r.d \in Database /\ SameOpen(r.d, d) /\ (r.d.mod <=> d.mod) /\ r.d.trs = d.trs
           /\ \/ ~d.cur /\ r.d = d /\ r.l = l
              \/ /\ d.cur
                 /\ \E q \in LEnd(l) : r.l = q.l /\ (r.d.cur <=> q.st = "Success")
  <1>1. CASE ~d.cur
    <2>1. r.d = d /\ r.l = l  BY <1>1 DEF EndOnClose, Out
    <2> QED  BY <1>1, <2>1 DEF SameOpen
  <1>2. CASE d.cur
    <2>1. PICK q \in LEnd(l) :
            r = Out(q.st, IF q.st = "Success" THEN d ELSE EndTrs(d), q.l)
      BY <1>2 DEF EndOnClose
    <2>2. CASE q.st = "Success"
      <3>1. r.d = d /\ r.l = q.l  BY <2>1, <2>2 DEF Out
      <3> QED  BY <1>2, <2>2, <3>1 DEF SameOpen
    <2>3. CASE q.st # "Success"
      <3>1. r.d = EndTrs(d) /\ r.l = q.l  BY <2>1, <2>3 DEF Out
      <3>2. /\ r.d \in Database /\ SameOpen(r.d, d) /\ (r.d.mod <=> d.mod)
            /\ r.d.trs = d.trs /\ ~r.d.cur
        BY <3>1, SetEndTrs
      <3> QED  BY <1>2, <2>3, <3>1, <3>2
    <2> QED  BY <2>2, <2>3
  <1> QED  BY <1>1, <1>2

\* close(): a shared handle only loses a reference; the last reference ends
\* the transaction (e) and closes the lower layer (c).
LEMMA CloseIs ==
    ASSUME NEW d \in Database, NEW l, NEW r \in DbClose(d, l)
    PROVE  /\ r.d \in Database /\ (r.d.mod <=> d.mod) /\ r.d.ref = d.ref - 1
           /\ r.d.trs = d.trs /\ (r.d.sch <=> d.sch)
           /\ \/ /\ d.ref > 1 /\ r.st = "Success" /\ r.l = l
                 /\ (r.d.dbh <=> d.dbh) /\ (r.d.listed <=> d.listed) /\ (r.d.cur <=> d.cur)
              \/ /\ ~(d.ref > 1)
                 /\ \E d1 \in Database : /\ (d1.cur <=> d.cur)
                      /\ \E e \in EndOnClose(d1, l) : /\ (r.d.cur <=> e.d.cur)
                           /\ \E c \in LClose(e.l) :
                                /\ r.l = c.l
                                /\ \/ /\ r.st = "Success" /\ c.st = "Success"
                                      /\ ~r.d.dbh /\ ~r.d.listed
                                   \/ /\ r.st = "Error" /\ c.st # "Success"
                                      /\ (r.d.dbh <=> d.dbh) /\ (r.d.listed <=> d.listed)
  <1> DEFINE d1 == [d EXCEPT !.ref = d.ref - 1]
  <1>0. d.ref \in Int /\ d.ref - 1 \in Int  BY DEF Database
  <1>1. /\ d1 \in Database /\ (d1.dbh <=> d.dbh) /\ (d1.listed <=> d.listed)
        /\ (d1.sch <=> d.sch) /\ d1.ref = d.ref - 1
        /\ (d1.mod <=> d.mod) /\ d1.trs = d.trs /\ (d1.cur <=> d.cur)
    BY <1>0, SetRef
  <1>2. CASE d1.ref > 0
    <2>1. r = Out("Success", d1, l)  BY <1>2 DEF DbClose
    <2> HIDE DEF d1
    <2>2. r.st = "Success" /\ r.d = d1 /\ r.l = l  BY <2>1 DEF Out
    <2>3. d.ref > 1  BY <1>0, <1>1, <1>2
    <2> QED  BY <1>1, <2>2, <2>3
  <1>3. CASE ~(d1.ref > 0)
    <2>1. PICK e \in EndOnClose(d1, l) : \E c \in LClose(e.l) :
            r = IF c.st = "Success"
                THEN Out("Success", [e.d EXCEPT !.dbh = FALSE, !.listed = FALSE], c.l)
                ELSE Out("Error", e.d, c.l)
      BY <1>3 DEF DbClose
    <2> HIDE DEF d1
    <2>2. /\ e.d \in Database /\ SameOpen(e.d, d1) /\ (e.d.mod <=> d1.mod) /\ e.d.trs = d1.trs
      BY <1>1, EndOnCloseIs
    <2>3. PICK c \in LClose(e.l) :
            r = IF c.st = "Success"
                THEN Out("Success", [e.d EXCEPT !.dbh = FALSE, !.listed = FALSE], c.l)
                ELSE Out("Error", e.d, c.l)
      BY <2>1
    <2>4. ~(d.ref > 1)  BY <1>0, <1>1, <1>3
    <2>5. /\ r.d \in Database /\ (r.d.mod <=> e.d.mod) /\ r.d.ref = e.d.ref
          /\ r.d.trs = e.d.trs /\ (r.d.sch <=> e.d.sch) /\ (r.d.cur <=> e.d.cur) /\ r.l = c.l
          /\ \/ r.st = "Success" /\ c.st = "Success" /\ ~r.d.dbh /\ ~r.d.listed
             \/ /\ r.st = "Error" /\ c.st # "Success"
                /\ (r.d.dbh <=> e.d.dbh) /\ (r.d.listed <=> e.d.listed)
      <3>1. CASE c.st = "Success"
        <4>1. /\ r.st = "Success" /\ r.l = c.l
              /\ r.d = [e.d EXCEPT !.dbh = FALSE, !.listed = FALSE]
          BY <2>3, <3>1 DEF Out
        <4>2. /\ r.d \in Database /\ ~r.d.dbh /\ ~r.d.listed /\ r.d.ref = e.d.ref
              /\ (r.d.mod <=> e.d.mod) /\ r.d.trs = e.d.trs /\ (r.d.cur <=> e.d.cur)
              /\ (r.d.sch <=> e.d.sch)
          BY <2>2, <4>1, SetClosed
        <4> QED  BY <3>1, <4>1, <4>2
      <3>2. CASE c.st # "Success"
        <4>1. r.st = "Error" /\ r.d = e.d /\ r.l = c.l  BY <2>3, <3>2 DEF Out
        <4> QED  BY <2>2, <3>2, <4>1
      <3> QED  BY <3>1, <3>2
    <2>6. /\ r.d \in Database /\ (r.d.mod <=> d.mod) /\ r.d.ref = d.ref - 1
          /\ r.d.trs = d.trs /\ (r.d.sch <=> d.sch)
      BY <1>1, <2>2, <2>5 DEF SameOpen
    <2>7. (r.st = "Error" => (r.d.dbh <=> d.dbh) /\ (r.d.listed <=> d.listed))
      BY <1>1, <2>2, <2>5 DEF SameOpen
    <2> QED  BY <1>1, <2>4, <2>5, <2>6, <2>7
  <1> QED  BY <1>2, <1>3

-----------------------------------------------------------------------------
(* A set S of lower-layer states that every transaction call of the lower  *)
(* layer stays in is closed under the calls of class Database, and close() *)
(* leaves it only as the close of the lower layer does.                    *)

LowerClosed(S) ==
    \A l \in S : /\ \A q \in LBegin(l) : q.l \in S
                 /\ \A q \in LCommit(l) : q.l \in S
                 /\ \A q \in LAbort(l) : q.l \in S
                 /\ \A q \in LEnd(l) : q.l \in S

\* transactionBegin keeps the lower layer inside a closed set.
LEMMA BeginClosed ==
    ASSUME NEW S, LowerClosed(S), NEW d \in Database, NEW l \in S, NEW r \in DbBegin(d, l)
    PROVE  r.d \in Database /\ r.l \in S
  <1>1. r.l = l \/ \E q \in LBegin(l) : r.l = q.l  BY BeginIs
  <1>2. r.d \in Database  BY BeginIs
  <1> QED  BY <1>1, <1>2 DEF LowerClosed

\* transactionCommit keeps the lower layer inside a closed set.
LEMMA CommitClosed ==
    ASSUME NEW S, LowerClosed(S), NEW d \in Database, NEW l \in S, NEW r \in DbCommit(d, l)
    PROVE  r.d \in Database /\ r.l \in S
  <1>1. r.l = l \/ \E q \in LCommit(l) : r.l = q.l  BY CommitIs
  <1>2. r.d \in Database  BY CommitIs
  <1> QED  BY <1>1, <1>2 DEF LowerClosed

\* The purge of the schema after an abort keeps it there too.
LEMMA PurgeClosed ==
    ASSUME NEW S, LowerClosed(S), NEW d, NEW l \in S, NEW p \in SchemaPurge(d, l)
    PROVE  p \in S
  <1>1. CASE ~d.mod  BY <1>1 DEF SchemaPurge
  <1>2. CASE d.mod
    <2>1. PICK b \in LBegin(l) : \E c \in LCommit(b.l) : p = c.l
      BY <1>2 DEF SchemaPurge
    <2>2. b.l \in S  BY DEF LowerClosed
    <2> QED  BY <2>1, <2>2 DEF LowerClosed
  <1> QED  BY <1>1, <1>2

\* transactionAbort keeps the lower layer inside a closed set.
LEMMA AbortClosed ==
    ASSUME NEW S, LowerClosed(S), NEW d \in Database, NEW l \in S, NEW r \in DbAbort(d, l)
    PROVE  r.d \in Database /\ r.l \in S
  <1>1. \/ r.l = l \/ \E q \in LAbort(l) : r.l = q.l
        \/ \E q \in LAbort(l) : r.l \in SchemaPurge(d, q.l)
    BY AbortIs
  <1>2. r.d \in Database  BY AbortIs
  <1>3. \A q \in LAbort(l) : q.l \in S  BY DEF LowerClosed
  <1> QED  BY <1>1, <1>2, <1>3, PurgeClosed

\* A bracket of open() keeps the lower layer inside a closed set.
LEMMA BracketClosed ==
    ASSUME NEW S, LowerClosed(S), NEW d \in Database, NEW l \in S, NEW r \in Bracket(d, l)
    PROVE  r.d \in Database /\ r.l \in S
  <1>1. PICK b \in DbBegin(d, l) : \E c \in DbCommit(b.d, b.l) : r.d = c.d /\ r.l = c.l
    BY BracketIs
  <1>2. b.d \in Database /\ b.l \in S  BY BeginClosed
  <1> QED  BY <1>1, <1>2, CommitClosed

\* open() keeps the lower layer inside a closed set.
LEMMA OpenClosed ==
    ASSUME NEW S, LowerClosed(S), NEW d \in Database, NEW l \in S, NEW r \in DbOpen(d, l)
    PROVE  r.d \in Database /\ r.l \in S
  <1>1. PICK e \in Database :
          \/ r.d = e /\ r.l = l
          \/ \E b \in Bracket(e, l) :
               \/ r.d = b.d /\ r.l = b.l
               \/ \E f \in Database : \E b2 \in Bracket(f, b.l) : r.d = b2.d /\ r.l = b2.l
    BY OpenIs
  <1>2. CASE r.d = e /\ r.l = l  BY <1>2
  <1>3. ASSUME NEW b \in Bracket(e, l) PROVE b.d \in Database /\ b.l \in S
    BY BracketClosed
  <1> QED  BY <1>1, <1>2, <1>3, BracketClosed

\* close() either drops a reference, or ends the transaction inside the
\* closed set and closes the lower layer.
LEMMA CloseClosed ==
    ASSUME NEW S, LowerClosed(S), NEW d \in Database, NEW l \in S, NEW r \in DbClose(d, l)
    PROVE  /\ r.d \in Database
           /\ \/ d.ref > 1 /\ r.l = l /\ (r.d.dbh <=> d.dbh)
              \/ /\ ~(d.ref > 1)
                 /\ \E l2 \in S : \E c \in LClose(l2) :
                      /\ r.l = c.l
                      /\ (c.st = "Success" => ~r.d.dbh)
                      /\ (c.st # "Success" => (r.d.dbh <=> d.dbh))
  <1>1. r.d \in Database  BY CloseIs
  <1>2. \/ d.ref > 1 /\ r.l = l /\ (r.d.dbh <=> d.dbh)
        \/ /\ ~(d.ref > 1)
           /\ \E d1 \in Database : \E e \in EndOnClose(d1, l) : \E c \in LClose(e.l) :
                 /\ r.l = c.l /\ (c.st = "Success" => ~r.d.dbh)
                 /\ (c.st # "Success" => (r.d.dbh <=> d.dbh))
    BY CloseIs
  <1>3. ASSUME NEW d1 \in Database, NEW e \in EndOnClose(d1, l) PROVE e.l \in S
    <2>1. e.l = l \/ \E q \in LEnd(l) : e.l = q.l  BY EndOnCloseIs
    <2> QED  BY <2>1 DEF LowerClosed
  <1> QED  BY <1>1, <1>2, <1>3

-----------------------------------------------------------------------------
(* Incoherency, and why a call is refused.                                 *)

\* transactionBegin: only a new Transaction object forgets the incoherency.
LEMMA BeginIncoh ==
    ASSUME NEW d \in Database, NEW l, NEW r \in DbBegin(d, l)
    PROVE  /\ d.trs > 0 => (r.d.incoh <=> d.incoh)
           /\ d.trs = 0 => ~r.d.incoh
  <1>0. d.trs \in Nat /\ d.trs + 1 \in Nat  BY DEF Database
  <1>1. CASE d.trs > 0
    <2>1. r.d = [d EXCEPT !.trs = d.trs + 1]  BY <1>1 DEF DbBegin, Out
    <2> QED  BY <1>0, <1>1, <2>1, SetIncoh
  <1>2. CASE ~(d.trs > 0)
    <2>1. r.d = [NewTrs(d) EXCEPT !.trs = 1] \/ r.d = EndTrs(d)  BY <1>2 DEF DbBegin, Out
    <2>2. ~r.d.incoh
      <3>1. CASE r.d = [NewTrs(d) EXCEPT !.trs = 1]  BY <3>1, SetIncoh
      <3>2. CASE r.d = EndTrs(d)  BY <3>2, SetIncoh
      <3> QED  BY <2>1, <3>1, <3>2
    <2> QED  BY <1>2, <2>2
  <1> QED  BY <1>1, <1>2

\* transactionCommit: what is incoherent is not committed; a refusal has its
\* reason in the handle or in the lower layer.
LEMMA CommitIncoh ==
    ASSUME NEW d \in Database, NEW l, NEW r \in DbCommit(d, l)
    PROVE  /\ r.st = "Success" /\ d.trs = 1 => ~d.incoh /\ ~r.d.incoh
           /\ ~(r.st = "Success" /\ d.trs = 1) => (r.d.incoh <=> d.incoh)
           /\ r.st = "Error" => \/ ~d.cur \/ d.trs = 0 \/ d.incoh
                                \/ \E q \in LCommit(l) : q.st # "Success"
  <1>0. d.trs \in Nat /\ (d.trs > 1 => d.trs - 1 \in Nat)  BY DEF Database
  <1>1. CASE ~d.cur \/ d.trs = 0
    <2>1. r.d = d /\ r.st = "Error"  BY <1>1 DEF DbCommit, Out
    <2> QED  BY <1>1, <2>1
  <1>2. CASE d.cur /\ d.trs # 0 /\ d.trs > 1
    <2>1. r.d = [d EXCEPT !.trs = d.trs - 1] /\ r.st = "Success"  BY <1>2 DEF DbCommit, Out
    <2> QED  BY <1>0, <1>2, <2>1, SetIncoh
  <1>3. CASE d.cur /\ d.trs # 0 /\ ~(d.trs > 1)
    <2>1. PICK q \in TrsCommit(d, l) :
            r = IF q.st = "Success" THEN Out("Success", [EndTrs(d) EXCEPT !.trs = 0], q.l)
                                    ELSE Out("Error", d, q.l)
      BY <1>3 DEF DbCommit
    <2>2. CASE d.incoh
      <3>1. q.st = "Error"  BY <2>2 DEF TrsCommit
      <3>2. r.st = "Error" /\ r.d = d  BY <2>1, <3>1 DEF Out
      <3> QED  BY <2>2, <3>2
    <2>3. CASE ~d.incoh
      <3>1. q \in LCommit(l)  BY <2>3 DEF TrsCommit
      <3>2. \/ r.st = "Success" /\ r.d = [EndTrs(d) EXCEPT !.trs = 0]
            \/ r.st = "Error" /\ r.d = d /\ q.st # "Success"
        BY <2>1 DEF Out
      <3>3. ~[EndTrs(d) EXCEPT !.trs = 0].incoh  BY SetIncoh
      <3>4. CASE r.st = "Success" /\ r.d = [EndTrs(d) EXCEPT !.trs = 0]
        <4>1. ~r.d.incoh  BY <3>3, <3>4
        <4> QED  BY <2>3, <3>4, <4>1
      <3>5. CASE r.st = "Error" /\ r.d = d /\ q.st # "Success"
        <4>1. r.d.incoh <=> d.incoh  BY <3>5
        <4> QED  BY <3>1, <3>5, <4>1
      <3> QED  BY <3>2, <3>4, <3>5
    <2> QED  BY <2>2, <2>3
  <1> QED  BY <1>1, <1>2, <1>3

\* transactionAbort: the same.
LEMMA AbortIncoh ==
    ASSUME NEW d \in Database, NEW l, NEW r \in DbAbort(d, l)
    PROVE  /\ r.st = "Success" /\ d.trs = 1 => ~r.d.incoh
           /\ ~(r.st = "Success" /\ d.trs = 1) => (r.d.incoh <=> d.incoh)
           /\ r.st = "Error" => \/ ~d.cur \/ d.trs = 0
                                \/ \E q \in LAbort(l) : q.st = "Error"
  <1>0. d.trs \in Nat /\ (d.trs > 1 => d.trs - 1 \in Nat)  BY DEF Database
  <1>1. CASE ~d.cur \/ d.trs = 0
    <2>1. r.d = d /\ r.st = "Error"  BY <1>1 DEF DbAbort, Out
    <2> QED  BY <1>1, <2>1
  <1>2. CASE d.cur /\ d.trs # 0 /\ d.trs > 1
    <2>1. r.d = [d EXCEPT !.trs = d.trs - 1] /\ r.st = "Success"  BY <1>2 DEF DbAbort, Out
    <2> QED  BY <1>0, <1>2, <2>1, SetIncoh
  <1>3. CASE d.cur /\ d.trs # 0 /\ ~(d.trs > 1)
    <2>1. PICK q \in TrsAbort(d, l) :
            r = IF q.st = "Success"
                THEN Out("Success", [EndTrs(d) EXCEPT !.trs = 0, !.mod = FALSE], q.l)
                ELSE Out("Error", d, q.l)
      BY <1>3 DEF DbAbort
    <2>2. q.st = "Success" \/ \E p \in LAbort(l) : p.st = "Error"
      BY DEF TrsAbort
    <2>3. \/ r.st = "Success" /\ r.d = [EndTrs(d) EXCEPT !.trs = 0, !.mod = FALSE]
          \/ r.st = "Error" /\ r.d = d /\ q.st # "Success"
      BY <2>1 DEF Out
    <2>4. r.d = [EndTrs(d) EXCEPT !.trs = 0, !.mod = FALSE] => ~r.d.incoh  BY SetIncoh
    <2>5. d.trs = 1  BY <1>0, <1>3
    <2> QED  BY <2>2, <2>3, <2>4, <2>5
  <1> QED  BY <1>1, <1>2, <1>3

\* A bracket of open() on a coherent handle leaves it coherent.
LEMMA BracketIncoh ==
    ASSUME NEW d \in Database, ~d.incoh, NEW l, NEW r \in Bracket(d, l)
    PROVE  ~r.d.incoh
  <1>1. PICK b \in DbBegin(d, l) : \E c \in DbCommit(b.d, b.l) : r.d = c.d
    BY BracketIs
  <1>2. PICK c \in DbCommit(b.d, b.l) : r.d = c.d  BY <1>1
  <1>3. b.d \in Database /\ ~b.d.incoh
    <2>1. d.trs \in Nat  BY DEF Database
    <2> QED  BY <2>1, BeginIs, BeginIncoh
  <1> QED  BY <1>2, <1>3, CommitIncoh

\* So does open() as a whole.
LEMMA OpenIncoh ==
    ASSUME NEW d \in Database, ~d.incoh, NEW l, NEW r \in DbOpen(d, l)
    PROVE  ~r.d.incoh
  <1>1. PICK e \in Database :
          /\ (e.incoh <=> d.incoh)
          /\ \/ r.d = e
             \/ \E b \in Bracket(e, l) :
                  \/ r.d = b.d
                  \/ \E f \in Database : /\ (f.incoh <=> b.d.incoh)
                                         /\ \E b2 \in Bracket(f, b.l) : r.d = b2.d
    BY OpenIs
  <1>2. ASSUME NEW b \in Bracket(e, l) PROVE ~b.d.incoh  BY <1>1, BracketIncoh
  <1>3. ASSUME NEW b \in Bracket(e, l), NEW f \in Database, f.incoh <=> b.d.incoh,
               NEW b2 \in Bracket(f, b.l)
        PROVE  ~b2.d.incoh
    BY <1>2, <1>3, BracketIncoh
  <1> QED  BY <1>1, <1>2, <1>3

\* close() makes no handle incoherent, and does not change a shared one.
LEMMA CloseIncoh ==
    ASSUME NEW d \in Database, NEW l, NEW r \in DbClose(d, l)
    PROVE  (r.d.incoh => d.incoh) /\ (d.ref > 1 => (r.d.incoh <=> d.incoh))
  <1> DEFINE d1 == [d EXCEPT !.ref = d.ref - 1]
  <1>0. d.ref \in Int /\ d.ref - 1 \in Int  BY DEF Database
  <1>1. d1 \in Database /\ (d1.incoh <=> d.incoh) /\ d1.ref = d.ref - 1
    BY <1>0, SetRef, SetIncoh
  <1>2. CASE d1.ref > 0
    <2>0. r = Out("Success", d1, l)  BY <1>2 DEF DbClose
    <2> HIDE DEF d1
    <2>1. r.d = d1  BY <2>0 DEF Out
    <2> QED  BY <1>1, <2>1
  <1>3. CASE ~(d1.ref > 0)
    <2>1. PICK e \in EndOnClose(d1, l) : \E c \in LClose(e.l) :
            r = IF c.st = "Success"
                THEN Out("Success", [e.d EXCEPT !.dbh = FALSE, !.listed = FALSE], c.l)
                ELSE Out("Error", e.d, c.l)
      BY <1>3 DEF DbClose
    <2> HIDE DEF d1
    <2>2. e.d = d1 \/ e.d = EndTrs(d1)  BY DEF EndOnClose, Out
    <2>3. e.d \in Database /\ (e.d.incoh => d.incoh)
      <3>1. EndTrs(d1) \in Database /\ ~EndTrs(d1).incoh  BY <1>1, SetEndTrs, SetIncoh
      <3> QED  BY <1>1, <2>2, <3>1
    <2>4. r.d = [e.d EXCEPT !.dbh = FALSE, !.listed = FALSE] \/ r.d = e.d
      BY <2>1 DEF Out
    <2>5. r.d = [e.d EXCEPT !.dbh = FALSE, !.listed = FALSE] => (r.d.incoh <=> e.d.incoh)
      BY <2>3, SetIncoh
    <2>6. ~(d.ref > 1)  BY <1>0, <1>1, <1>3
    <2> QED  BY <2>3, <2>4, <2>5, <2>6
  <1> QED  BY <1>2, <1>3

=============================================================================
