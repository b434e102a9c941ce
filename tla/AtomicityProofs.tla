--------------------------- MODULE AtomicityProofs ---------------------------
(***************************************************************************)
(* Proofs about module Transaction: no handle loses the transaction it      *)
(* holds, the server counts the levels that its clients hold, and, for a    *)
(* client with one handle, commit is all and abort is nothing.              *)
(*                                                                         *)
(* The calls are followed through the layers by what they do to four        *)
(* things: the number of handles, the level of the back-end Database, what  *)
(* is pending and what is durable.                                          *)
(***************************************************************************)
EXTENDS TransactionProofs

\* The storage manager ends a transaction when it is asked to.
Certain == {"commit", "abort"} \cap Faults = {}

-----------------------------------------------------------------------------
(* The storage manager: pending and durable operations.                    *)

\* Only the commit of the last level makes what is pending durable.
LEMMA SmStores ==
    ASSUME NEW m \in Sm
    PROVE  /\ \A r \in SmBegin(m) : r.l.pend = m.pend /\ r.l.dur = m.dur
           /\ \A r \in SmCommit(m) :
                 \/ r.st = "Success" /\ (m.cnt = 1 => r.l.pend = {} /\ r.l.dur = m.dur \cup m.pend)
                 \/ r.st = "Error" /\ r.l = m /\ (m.cnt = 0 \/ "commit" \in Faults)
           /\ \A r \in SmAbort(m) :
                 \/ r.st = "Success" /\ r.l.pend = {} /\ r.l.dur = m.dur
                 \/ r.st = "Error" /\ r.l = m /\ (m.cnt = 0 \/ "abort" \in Faults)
           /\ \A r \in SmClose(m) : r.l.dur = m.dur
  <1>1. ASSUME NEW r \in SmBegin(m) PROVE r.l.pend = m.pend /\ r.l.dur = m.dur
    <2>1. r.l = [m EXCEPT !.cnt = @ + 1] \/ r.l = m  BY DEF SmBegin, Fail
    <2>2. [m EXCEPT !.cnt = @ + 1].pend = m.pend /\ [m EXCEPT !.cnt = @ + 1].dur = m.dur
      BY DEF Sm
    <2> QED  BY <2>1, <2>2
  <1>2. ASSUME NEW r \in SmCommit(m)
        PROVE  \/ r.st = "Success" /\ (m.cnt = 1 => r.l.pend = {} /\ r.l.dur = m.dur \cup m.pend)
               \/ r.st = "Error" /\ r.l = m /\ (m.cnt = 0 \/ "commit" \in Faults)
    <2>1. CASE m.cnt = 0  BY <2>1 DEF SmCommit
    <2>2. CASE m.cnt # 0
      <3>1. \/ r = [st |-> "Error", l |-> m] /\ "commit" \in Faults
            \/ r = [st |-> "Success",
                    l  |-> IF m.cnt > 1 THEN [m EXCEPT !.cnt = @ - 1]
                           ELSE [cnt |-> 0, pend |-> {}, dur |-> m.dur \cup m.pend]]
        BY <2>2 DEF SmCommit, Fail
      <3>2. CASE m.cnt = 1  BY <3>1, <3>2
      <3>3. CASE m.cnt # 1  BY <3>1, <3>3
      <3> QED  BY <3>2, <3>3
    <2> QED  BY <2>1, <2>2
  <1>3. ASSUME NEW r \in SmAbort(m)
        PROVE  \/ r.st = "Success" /\ r.l.pend = {} /\ r.l.dur = m.dur
               \/ r.st = "Error" /\ r.l = m /\ (m.cnt = 0 \/ "abort" \in Faults)
    BY DEF SmAbort, Fail
  <1>4. ASSUME NEW r \in SmClose(m) PROVE r.l.dur = m.dur
    <2>1. r.l = [m EXCEPT !.cnt = 0, !.pend = {}] \/ r.l = m  BY DEF SmClose, Fail
    <2>2. [m EXCEPT !.cnt = 0, !.pend = {}].dur = m.dur  BY DEF Sm
    <2> QED  BY <2>1, <2>2
  <1> QED  BY <1>1, <1>2, <1>3, <1>4

-----------------------------------------------------------------------------
(* The server.                                                             *)

\* An open server with k handles at level n, with P pending and D durable.
At(k, n, P, D) ==
    {s \in OpenSrv(k) : ~s.be.incoh /\ s.be.trs = n /\ s.sm.pend = P /\ s.sm.dur = D}

\* What is known of such a server: nothing is pending outside a transaction.
LEMMA AtElim ==
    ASSUME NEW k, NEW n, NEW P, NEW D, NEW s \in At(k, n, P, D)
    PROVE  /\ s \in OpenSrv(k) /\ s \in Srv /\ s.be \in Be!Database /\ s.sm \in Sm
           /\ s.be.dbh /\ s.be.listed /\ s.be.ref = k /\ ~s.be.incoh /\ PurgeSafe(s.be)
           /\ s.be.trs = n /\ n \in Nat /\ (s.be.cur <=> n > 0)
           /\ s.sm.cnt = (IF n > 0 THEN 1 ELSE 0)
           /\ s.sm.pend = P /\ s.sm.dur = D /\ (n = 0 => P = {})
  <1>1. /\ s \in OpenSrv(k) /\ ~s.be.incoh /\ s.be.trs = n /\ s.sm.pend = P /\ s.sm.dur = D
    BY DEF At
  <1>2. /\ s \in Srv /\ s.be \in Be!Database /\ s.sm \in Sm /\ s.be.dbh /\ s.be.listed
        /\ s.be.ref = k /\ Coherent(s.be, s.sm) /\ PurgeSafe(s.be)
    BY <1>1, OpenSrvElim
  <1>3. n \in Nat  BY <1>1, <1>2 DEF Be!Database
  <1>4. (s.be.cur <=> n > 0) /\ s.sm.cnt = (IF n > 0 THEN 1 ELSE 0) /\ (s.sm.cnt = 0 => P = {})
    BY <1>1, <1>2 DEF Coherent
  <1>5. n = 0 => P = {}  BY <1>3, <1>4
  <1> QED  BY <1>1, <1>2, <1>3, <1>4, <1>5

\* Every open server is such a one.
LEMMA AtIntro ==
    ASSUME NEW k, NEW s \in OpenSrv(k), ~s.be.incoh
    PROVE  s \in At(k, s.be.trs, s.sm.pend, s.sm.dur)
  BY DEF At

\* transactionBegin in the server: one level more.
LEMMA SrvBeginAt ==
    ASSUME NEW k, NEW n, NEW P, NEW D, NEW s \in At(k, n, P, D), NEW q \in SrvBegin(s)
    PROVE  \/ q.st = "Success" /\ q.l \in At(k, n + 1, P, D)
           \/ q.st = "Error" /\ n = 0 /\ q.l \in At(k, n, P, D)
  <1>1. PICK x \in Be!DbBegin(s.be, s.sm) : q.st = x.st /\ q.l = [be |-> x.d, sm |-> x.l]
    BY ToSrvIs DEF SrvBegin
  <1>2. /\ s.be \in Be!Database /\ s.sm \in Sm /\ ~s.be.incoh /\ s.be.trs = n /\ n \in Nat
        /\ s.sm.pend = P /\ s.sm.dur = D /\ s \in OpenSrv(k)
    BY AtElim
  <1>3. q.l \in OpenSrv(k)  BY <1>2, OpenSrvClosed DEF ClP!LowerClosed
  <1>4. ~x.d.incoh  BY <1>2, BeSame, BeP!BeginIncoh
  <1>5. \/ x.st = "Success" /\ x.d.trs = n + 1 /\ x.l = s.sm
        \/ x.st = "Success" /\ x.d.trs = n + 1 /\ \E b \in SmBegin(s.sm) : x.l = b.l
        \/ x.st = "Error" /\ n = 0 /\ x.d.trs = n /\ \E b \in SmBegin(s.sm) : x.l = b.l
    BY <1>2, BeSame, BeP!BeginIs
  <1>6. x.l.pend = P /\ x.l.dur = D  BY <1>2, <1>5, SmStores
  <1>7. q.l.be = x.d /\ q.l.sm = x.l  BY <1>1
  <1> QED  BY <1>1, <1>3, <1>4, <1>5, <1>6, <1>7 DEF At

\* transactionCommit in the server: one level less; the last one stores.
LEMMA SrvCommitAt ==
    ASSUME NEW k, NEW n, NEW P, NEW D, NEW s \in At(k, n, P, D), NEW q \in SrvCommit(s)
    PROVE  \/ q.st = "Error" /\ q.l \in At(k, n, P, D) /\ (n = 0 \/ "commit" \in Faults)
           \/ q.st = "Success" /\ n > 1 /\ q.l \in At(k, n - 1, P, D)
           \/ q.st = "Success" /\ n = 1 /\ q.l \in At(k, 0, {}, D \cup P)
  <1>1. PICK x \in Be!DbCommit(s.be, s.sm) : q.st = x.st /\ q.l = [be |-> x.d, sm |-> x.l]
    BY ToSrvIs DEF SrvCommit
  <1>2. /\ s.be \in Be!Database /\ s.sm \in Sm /\ ~s.be.incoh /\ s.be.trs = n /\ n \in Nat
        /\ s.sm.pend = P /\ s.sm.dur = D /\ s \in OpenSrv(k) /\ (s.be.cur <=> n > 0)
        /\ s.sm.cnt = (IF n > 0 THEN 1 ELSE 0)
    BY AtElim
  <1>3. q.l \in OpenSrv(k)  BY <1>2, OpenSrvClosed DEF ClP!LowerClosed
  <1>4. ~x.d.incoh  BY <1>2, BeSame, BeP!CommitIncoh
  <1>5. q.l.be = x.d /\ q.l.sm = x.l  BY <1>1
  <1>6. ASSUME x.st = "Error" PROVE n = 0 \/ "commit" \in Faults
    <2>1. n = 0 \/ \E c \in SmCommit(s.sm) : c.st # "Success"
      BY <1>2, <1>6, BeSame, BeP!CommitIncoh
    <2>2. \A c \in SmCommit(s.sm) : c.st # "Success" => s.sm.cnt = 0 \/ "commit" \in Faults
      BY <1>2, SmStores
    <2> QED  BY <1>2, <2>1, <2>2
  <1>7. \/ x.st = "Error" /\ x.d = s.be /\ x.l = s.sm
        \/ x.st = "Error" /\ x.d = s.be /\ \E c \in SmCommit(s.sm) : c.st # "Success" /\ x.l = c.l
        \/ x.st = "Success" /\ n > 1 /\ x.d.trs = n - 1 /\ x.l = s.sm
        \/ x.st = "Success" /\ n = 1 /\ x.d.trs = 0 /\ \E c \in SmCommit(s.sm) :
             c.st = "Success" /\ x.l = c.l
    BY <1>2, BeSame, BeP!CommitIs
  <1>8. \/ x.st = "Error" /\ x.d = s.be /\ x.l = s.sm
        \/ x.st = "Success" /\ n > 1 /\ x.d.trs = n - 1 /\ x.l = s.sm
        \/ x.st = "Success" /\ n = 1 /\ x.d.trs = 0 /\ x.l.pend = {} /\ x.l.dur = D \cup P
    BY <1>2, <1>7, SmStores
  <1> QED  BY <1>1, <1>2, <1>3, <1>4, <1>5, <1>6, <1>8 DEF At

\* The purge of the schema in the server stores nothing.
LEMMA BePurgeStores ==
    ASSUME NEW d, NEW m \in Sm, m.cnt = 0, m.pend = {}, NEW l \in BeP!SchemaPurge(d, m)
    PROVE  l.dur = m.dur
  <1>1. CASE ~d.mod  BY <1>1 DEF BeP!SchemaPurge
  <1>2. CASE d.mod
    <2>1. PICK b \in SmBegin(m) : \E c \in SmCommit(b.l) : l = c.l
      BY <1>2 DEF BeP!SchemaPurge
    <2>2. PICK c \in SmCommit(b.l) : l = c.l  BY <2>1
    <2>3. /\ b.l \in Sm /\ (b.l.cnt = m.cnt + 1 \/ b.l = m)
          /\ b.l.pend = m.pend /\ b.l.dur = m.dur
      BY SmBeginIs, SmStores
    <2>4. CASE b.l.cnt = 1
      <3>1. c.l.dur = b.l.dur \cup b.l.pend \/ c.l = b.l  BY <2>3, <2>4, SmStores
      <3> QED  BY <2>2, <2>3, <3>1
    <2>5. CASE b.l = m
      <3>1. c.l = b.l  BY <2>3, <2>5, SmCommitIs
      <3> QED  BY <2>2, <2>5, <3>1
    <2> QED  BY <2>3, <2>4, <2>5
  <1> QED  BY <1>1, <1>2

\* transactionAbort in the server: one level less; the last one forgets.
LEMMA SrvAbortAt ==
    ASSUME NEW k, NEW n, NEW P, NEW D, NEW s \in At(k, n, P, D), NEW q \in SrvAbort(s)
    PROVE  \/ q.st = "Error" /\ q.l \in At(k, n, P, D) /\ (n = 0 \/ "abort" \in Faults)
           \/ q.st = "Success" /\ n > 1 /\ q.l \in At(k, n - 1, P, D)
           \/ q.st = "Success" /\ n = 1 /\ q.l \in At(k, 0, {}, D)
  <1>1. PICK x \in Be!DbAbort(s.be, s.sm) : q.st = x.st /\ q.l = [be |-> x.d, sm |-> x.l]
    BY ToSrvIs DEF SrvAbort
  <1>2. /\ s.be \in Be!Database /\ s.sm \in Sm /\ ~s.be.incoh /\ s.be.trs = n /\ n \in Nat
        /\ s.sm.pend = P /\ s.sm.dur = D /\ s \in OpenSrv(k) /\ (s.be.cur <=> n > 0)
        /\ s.sm.cnt = (IF n > 0 THEN 1 ELSE 0) /\ PurgeSafe(s.be)
    BY AtElim
  <1>3. q.l \in OpenSrv(k)  BY <1>2, OpenSrvClosed DEF ClP!LowerClosed
  <1>4. ~x.d.incoh  BY <1>2, BeSame, BeP!AbortIncoh
  <1>5. q.l.be = x.d /\ q.l.sm = x.l  BY <1>1
  <1>6. ASSUME x.st = "Error" PROVE n = 0 \/ "abort" \in Faults
    <2>1. n = 0 \/ \E c \in SmAbort(s.sm) : c.st = "Error"
      BY <1>2, <1>6, BeSame, BeP!AbortIncoh
    <2>2. \A c \in SmAbort(s.sm) : c.st = "Error" => s.sm.cnt = 0 \/ "abort" \in Faults
      BY <1>2, SmStores
    <2> QED  BY <1>2, <2>1, <2>2
  <1>7. \/ x.st = "Error" /\ x.d = s.be /\ x.l = s.sm
        \/ x.st = "Error" /\ x.d = s.be /\ \E c \in SmAbort(s.sm) : c.st = "Error" /\ x.l = c.l
        \/ x.st = "Success" /\ n > 1 /\ x.d.trs = n - 1 /\ x.l = s.sm
        \/ x.st = "Success" /\ n = 1 /\ x.d.trs = 0 /\ \E c \in SmAbort(s.sm) :
             c.st # "Error" /\ x.l \in BeP!SchemaPurge(s.be, c.l)
    BY <1>2, BeSame, BeP!AbortIs
  <1>8. ASSUME n = 1, NEW c \in SmAbort(s.sm), c.st # "Error", x.l \in BeP!SchemaPurge(s.be, c.l)
        PROVE  x.l.pend = {} /\ x.l.dur = D
    <2>1. s.sm.cnt = 1  BY <1>2, <1>8
    <2>2. c.l \in Sm /\ c.l.cnt = 0 /\ c.l.pend = {} /\ c.l.dur = D
      BY <1>2, <1>8, <2>1, SmAbortIs, SmStores
    <2> QED  BY <1>2, <1>8, <2>2, PurgeCoherent, BePurgeStores
  <1>9. \A c \in SmAbort(s.sm) : c.st = "Error" => c.l = s.sm  BY <1>2, SmAbortIs
  <1>10. \/ x.st = "Error" /\ x.d = s.be /\ x.l = s.sm
         \/ x.st = "Success" /\ n > 1 /\ x.d.trs = n - 1 /\ x.l = s.sm
         \/ x.st = "Success" /\ n = 1 /\ x.d.trs = 0 /\ x.l.pend = {} /\ x.l.dur = D
    BY <1>7, <1>8, <1>9
  <1> QED  BY <1>1, <1>2, <1>3, <1>4, <1>5, <1>6, <1>10 DEF At

\* What ending a transaction at close() does to a server at level n.
EndOutcome(q, k, n, P, D) ==
    \/ q.st = "Error" /\ q.l \in At(k, n, P, D) /\ (n = 0 \/ ~Certain)
    \/ q.st = "Success" /\ n > 1 /\ q.l \in At(k, n - 1, P, D)
    \/ q.st = "Success" /\ n = 1 /\ CommitOnClose /\ q.l \in At(k, 0, {}, D \cup P)
    \/ q.st = "Success" /\ n = 1 /\ ~CommitOnClose /\ q.l \in At(k, 0, {}, D)

\* How close() on the client ends its transaction in the server.
LEMMA SrvEndAt ==
    ASSUME NEW k, NEW n, NEW P, NEW D, NEW s \in At(k, n, P, D), NEW q \in SrvEnd(s)
    PROVE  EndOutcome(q, k, n, P, D)
  <1> USE DEF EndOutcome
  <1>1. CASE CommitOnClose  BY <1>1, SrvCommitAt DEF SrvEnd, Certain
  <1>2. CASE ~CommitOnClose  BY <1>2, SrvAbortAt DEF SrvEnd, Certain
  <1> QED  BY <1>1, <1>2

\* The server after one of k handles is closed.
After(k, n, P, D) ==
    IF k > 1 THEN At(k - 1, n, P, D)
    ELSE {s \in ClosedSrv : ~s.be.incoh /\ s.be.trs = n /\ s.sm.dur = D}

\* dbClose in the server ends no transaction of another handle and stores nothing.
LEMMA SrvCloseAt ==
    ASSUME Reliable, NEW k, NEW n, NEW P, NEW D, NEW s \in At(k, n, P, D), NEW q \in SrvClose(s)
    PROVE  q.st = "Success" /\ q.l \in After(k, n, P, D)
  <1>1. PICK x \in Be!DbClose(s.be, s.sm) : q.st = x.st /\ q.l = [be |-> x.d, sm |-> x.l]
    BY ToSrvIs DEF SrvClose
  <1>2. /\ s.be \in Be!Database /\ s.sm \in Sm /\ ~s.be.incoh /\ s.be.trs = n /\ s.be.ref = k
        /\ s.sm.pend = P /\ s.sm.dur = D /\ s \in OpenSrv(k)
    BY AtElim
  <1>3. /\ q.st = "Success"
        /\ \/ k > 1 /\ q.l \in OpenSrv(k - 1)
           \/ ~(k > 1) /\ q.l \in ClosedSrv
    BY <1>2, SrvCloseIs
  <1>4. x.d.trs = n /\ ~x.d.incoh  BY <1>2, BeSame, BeP!CloseIs, BeP!CloseIncoh
  <1>5. q.l.be = x.d /\ q.l.sm = x.l  BY <1>1
  <1>6. CASE k > 1
    <2>1. x.l = s.sm  BY <1>2, <1>6, BeSame, BeP!CloseIs
    <2> QED  BY <1>2, <1>3, <1>4, <1>5, <1>6, <2>1 DEF At, After
  <1>7. CASE ~(k > 1)
    <2>1. \E d1 \in Be!Database : \E e \in BeP!EndOnClose(d1, s.sm) : \E c \in SmClose(e.l) :
             x.l = c.l
      BY <1>2, <1>7, BeSame, BeP!CloseIs
    <2>2. PICK d1 \in Be!Database : \E e \in BeP!EndOnClose(d1, s.sm) : \E c \in SmClose(e.l) :
             x.l = c.l
      BY <2>1
    <2>3. PICK e \in BeP!EndOnClose(d1, s.sm) : \E c \in SmClose(e.l) : x.l = c.l
      BY <2>2
    <2>4. e.l = s.sm \/ \E p \in SmAbort(s.sm) : e.l = p.l
      BY BeSame, BeP!EndOnCloseIs
    <2>5. e.l \in Sm /\ e.l.dur = D  BY <1>2, <2>4, SmAbortIs, SmStores
    <2>6. x.l.dur = D  BY <2>3, <2>5, SmStores
    <2> QED  BY <1>3, <1>4, <1>5, <1>7, <2>6 DEF After
  <1> QED  BY <1>6, <1>7

\* A bracket of open() in the server, outside a transaction, stores nothing and
\* leaves no level if it can be ended.
LEMMA BeBracketStores ==
    ASSUME Certain, NEW d \in Be!Database, d.trs = 0, ~d.cur, ~d.incoh,
           NEW m \in Sm, m.cnt = 0, m.pend = {}, NEW b \in BeP!Bracket(d, m)
    PROVE  /\ b.d \in Be!Database /\ b.d.trs = 0 /\ ~b.d.cur /\ ~b.d.incoh
           /\ b.l \in Sm /\ b.l.cnt = 0 /\ b.l.pend = {} /\ b.l.dur = m.dur
  <1>1. PICK x \in Be!DbBegin(d, m) : \E c \in Be!DbCommit(x.d, x.l) : b.d = c.d /\ b.l = c.l
    BY BeSame, BeP!BracketIs
  <1>2. PICK c \in Be!DbCommit(x.d, x.l) : b.d = c.d /\ b.l = c.l  BY <1>1
  <1>3. x.d \in Be!Database /\ ~x.d.incoh  BY BeSame, BeP!BeginIs, BeP!BeginIncoh
  <1>4. \/ x.d.trs = 1 /\ x.d.cur /\ \E q \in SmBegin(m) : q.st = "Success" /\ x.l = q.l
        \/ x.d.trs = 0 /\ ~x.d.cur /\ \E q \in SmBegin(m) : q.st # "Success" /\ x.l = q.l
    BY BeSame, BeP!BeginIs
  <1>5. /\ x.l \in Sm /\ x.l.pend = {} /\ x.l.dur = m.dur
        /\ \/ x.d.trs = 1 /\ x.d.cur /\ x.l.cnt = 1
           \/ x.d.trs = 0 /\ ~x.d.cur /\ x.l = m
    BY <1>4, SmBeginIs, SmStores
  <1>6. c.d \in Be!Database /\ ~c.d.incoh  BY <1>3, BeSame, BeP!CommitIs, BeP!CommitIncoh
  <1>7. CASE x.d.trs = 0 /\ ~x.d.cur /\ x.l = m
    <2>1. c.d = x.d /\ c.l = m
      BY <1>3, <1>7, BeSame, BeP!CommitIs
    <2> QED  BY <1>2, <1>3, <1>7, <2>1
  <1>8. CASE x.d.trs = 1 /\ x.d.cur /\ x.l.cnt = 1
    <2>1. \A q \in SmCommit(x.l) : q.st = "Success"
      BY <1>5, <1>8, SmStores DEF Certain
    <2>2. c.st # "Error"
      BY <1>3, <1>8, <2>1, BeSame, BeP!CommitIncoh
    <2>3. c.d.trs = 0 /\ ~c.d.cur /\ \E q \in SmCommit(x.l) : q.st = "Success" /\ c.l = q.l
      BY <1>3, <1>8, <2>2, BeSame, BeP!CommitIs
    <2>4. PICK q \in SmCommit(x.l) : q.st = "Success" /\ c.l = q.l  BY <2>3
    <2>5. q.l \in Sm /\ q.l.cnt = x.l.cnt - 1  BY <1>5, <2>4, SmCommitIs
    <2>6. q.l.pend = {} /\ q.l.dur = x.l.dur \cup x.l.pend  BY <1>5, <1>8, <2>4, SmStores
    <2>7. c.l \in Sm /\ c.l.cnt = 0 /\ c.l.pend = {} /\ c.l.dur = m.dur
      BY <1>5, <1>8, <2>4, <2>5, <2>6
    <2> QED  BY <1>2, <1>6, <2>3, <2>7
  <1> QED  BY <1>5, <1>7, <1>8

\* dbOpen in the server: a shared Database gets one more reference, a new one
\* is opened outside of any transaction if brackets can be ended.
LEMMA SrvOpenAt ==
    ASSUME NEW s \in Srv, NEW o \in SrvOpen(s)
    PROVE  /\ \A k \in Nat : \A n, P, D : s \in At(k, n, P, D) =>
                  o.st = "Success" /\ o.l \in At(k + 1, n, P, D)
           /\ s \in ClosedSrv =>
                  \/ o.st = "Error" /\ o.l = s
                  \/ /\ o.st = "Success" /\ o.l \in OpenSrv(1) /\ ~o.l.be.incoh
                     /\ Certain => o.l \in At(1, 0, {}, s.sm.dur)
  <1>1. ASSUME NEW k \in Nat, NEW n, NEW P, NEW D, s \in At(k, n, P, D)
        PROVE  o.st = "Success" /\ o.l \in At(k + 1, n, P, D)
    <2>1. /\ s.be \in Be!Database /\ s.sm \in Sm /\ s.be.ref = k /\ s \in OpenSrv(k)
          /\ s.be.dbh /\ s.be.listed /\ ~s.be.incoh /\ s.be.trs = n
          /\ s.sm.pend = P /\ s.sm.dur = D
      BY <1>1, AtElim
    <2>2. o.st = "Success" /\ o.l = [s EXCEPT !.be.ref = @ + 1]
      BY <2>1, SrvOpenIs
    <2>3. o.l \in OpenSrv(k + 1)  BY <2>1, SrvOpenCoherent
    <2>4. s = [be |-> s.be, sm |-> s.sm]  BY DEF Srv
    <2>5. o.l.be = [s.be EXCEPT !.ref = k + 1] /\ o.l.sm = s.sm  BY <2>1, <2>2, <2>4
    <2>6. k + 1 \in Int  OBVIOUS
    <2>7. o.l.be.trs = n /\ ~o.l.be.incoh
      BY <2>1, <2>5, <2>6, BeSame, BeP!SetRef, BeP!SetIncoh
    <2> QED  BY <2>1, <2>2, <2>3, <2>5, <2>7 DEF At
  <1>2. ASSUME s \in ClosedSrv
        PROVE  \/ o.st = "Error" /\ o.l = s
               \/ /\ o.st = "Success" /\ o.l \in OpenSrv(1) /\ ~o.l.be.incoh
                  /\ Certain => o.l \in At(1, 0, {}, s.sm.dur)
    <2>1. ~s.be.dbh /\ s.sm \in Sm /\ s.sm.cnt = 0 /\ s.sm.pend = {}
      BY <1>2, SrvParts DEF ClosedSrv
    <2>2. /\ Be!NewDatabase \in Be!Database /\ Be!NewDatabase.trs = 0
          /\ ~Be!NewDatabase.cur /\ ~Be!NewDatabase.incoh /\ ~Be!NewDatabase.sch
      BY NewDatabaseType DEF Be!NewDatabase
    <2>3. \/ o.st = "Error" /\ o.l = s
          \/ /\ o.st = "Success"
             /\ \E r \in Be!DbOpen(Be!NewDatabase, s.sm) :
                  r.st = "Success" /\ o.l = [be |-> r.d, sm |-> r.l]
      <3>1. ~(s.be.dbh /\ s.be.listed)  BY <2>1
      <3> QED  BY <3>1, SrvOpenIs, ZenonT(30)
    <2>4. ASSUME NEW r \in Be!DbOpen(Be!NewDatabase, s.sm), r.st = "Success",
                 o.st = "Success", o.l = [be |-> r.d, sm |-> r.l]
          PROVE  /\ o.st = "Success" /\ o.l \in OpenSrv(1) /\ ~o.l.be.incoh
                 /\ Certain => o.l \in At(1, 0, {}, s.sm.dur)
      <3>1. o.l \in OpenSrv(1)  BY <1>2, <2>4, SrvOpenCoherent
      <3>2. o.l.be = r.d /\ o.l.sm = r.l  BY <2>4
      <3>3. ~r.d.incoh  BY <2>2, BeSame, BeP!OpenIncoh
      <3>4. ASSUME Certain PROVE r.d.trs = 0 /\ r.l.pend = {} /\ r.l.dur = s.sm.dur
        <4>1. PICK e \in Be!Database :
                /\ e.trs = 0 /\ ~e.cur /\ ~e.incoh
                /\ \E b \in BeP!Bracket(e, s.sm) : \E f \in Be!Database :
                      /\ f.trs = b.d.trs /\ (f.cur <=> b.d.cur) /\ (f.incoh <=> b.d.incoh)
                      /\ \E b2 \in BeP!Bracket(f, b.l) : r.d = b2.d /\ r.l = b2.l
          BY <2>2, <2>4, BeSame, BeP!OpenIs
        <4>2. PICK b \in BeP!Bracket(e, s.sm) : \E f \in Be!Database :
                /\ f.trs = b.d.trs /\ (f.cur <=> b.d.cur) /\ (f.incoh <=> b.d.incoh)
                /\ \E b2 \in BeP!Bracket(f, b.l) : r.d = b2.d /\ r.l = b2.l
          BY <4>1
        <4>3. /\ b.d.trs = 0 /\ ~b.d.cur /\ ~b.d.incoh
              /\ b.l \in Sm /\ b.l.cnt = 0 /\ b.l.pend = {} /\ b.l.dur = s.sm.dur
          BY <2>1, <3>4, <4>1, BeBracketStores
        <4>4. PICK f \in Be!Database :
                /\ f.trs = b.d.trs /\ (f.cur <=> b.d.cur) /\ (f.incoh <=> b.d.incoh)
                /\ \E b2 \in BeP!Bracket(f, b.l) : r.d = b2.d /\ r.l = b2.l
          BY <4>2
        <4>5. \A b2 \in BeP!Bracket(f, b.l) :
                 b2.d.trs = 0 /\ b2.l.pend = {} /\ b2.l.dur = s.sm.dur
          BY <3>4, <4>3, <4>4, BeBracketStores
        <4> QED  BY <4>4, <4>5
      <3> QED  BY <2>4, <3>1, <3>2, <3>3, <3>4 DEF At
    <2> QED  BY <2>3, <2>4
  <1> QED  BY <1>1, <1>2

-----------------------------------------------------------------------------
(* The client's calls.                                                     *)

\* An open server that is at level n at least.
AtLeast(k, n) == {s \in OpenSrv(k) : ~s.be.incoh /\ s.be.trs >= n}

\* A server at level n is at level n at least.
LEMMA AtIsAtLeast ==
    ASSUME NEW k, NEW n, NEW P, NEW D, NEW s \in At(k, n, P, D)
    PROVE  n \in Nat /\ \A j \in Int : j <= n => s \in AtLeast(k, j)
  BY AtElim DEF AtLeast

\* What transactionBegin of the handle d does, over a server s at level n.
BeginOutcome(r, d, s, k, n, P, D) ==
    /\ r.d \in Be!Database /\ (r.d.sch <=> d.sch) /\ (r.d.dbh <=> d.dbh)
    /\ \/ /\ d.trs > 0 /\ r.d.trs = d.trs + 1 /\ (r.d.cur <=> d.cur)
          /\ (r.d.incoh <=> d.incoh) /\ r.l = s
       \/ /\ r.st = "Success" /\ d.trs = 0 /\ r.d.trs = 1 /\ r.d.cur /\ ~r.d.incoh
          /\ r.l \in At(k, n + 1, P, D)
       \/ /\ r.st = "Error" /\ d.trs = 0 /\ r.d.trs = 0 /\ ~r.d.cur /\ ~r.d.incoh
          /\ n = 0 /\ r.l \in At(k, n, P, D)

\* transactionBegin of a client.
LEMMA ClBeginAt ==
    ASSUME NEW k, NEW n, NEW P, NEW D, NEW s \in At(k, n, P, D),
           NEW d \in Be!Database, NEW r \in Cl!DbBegin(d, s)
    PROVE  BeginOutcome(r, d, s, k, n, P, D)
  <1> USE DEF BeginOutcome
  <1>1. r.d \in Be!Database /\ (r.d.sch <=> d.sch) /\ (r.d.dbh <=> d.dbh)
    BY ClSame, ClP!BeginIs DEF ClP!SameOpen
  <1>2. (d.trs > 0 => (r.d.incoh <=> d.incoh)) /\ (d.trs = 0 => ~r.d.incoh)
    BY ClSame, ClP!BeginIncoh
  <1>3. \/ d.trs > 0 /\ r.d.trs = d.trs + 1 /\ (r.d.cur <=> d.cur) /\ r.l = s
        \/ /\ r.st = "Success" /\ d.trs = 0 /\ r.d.trs = 1 /\ r.d.cur
           /\ \E q \in SrvBegin(s) : q.st = "Success" /\ r.l = q.l
        \/ /\ r.st = "Error" /\ d.trs = 0 /\ r.d.trs = 0 /\ ~r.d.cur
           /\ \E q \in SrvBegin(s) : q.st # "Success" /\ r.l = q.l
    BY ClSame, ClP!BeginIs
  <1>4. \A q \in SrvBegin(s) :
           /\ q.st = "Success" => q.l \in At(k, n + 1, P, D)
           /\ q.st # "Success" => n = 0 /\ q.l \in At(k, n, P, D)
    BY SrvBeginAt
  <1> QED  BY <1>1, <1>2, <1>3, <1>4

\* What transactionCommit of the handle d does, over a server s at level n.
CommitOutcome(r, d, s, k, n, P, D) ==
    /\ r.d \in Be!Database /\ (r.d.sch <=> d.sch) /\ (r.d.dbh <=> d.dbh)
    /\ \/ /\ r.st = "Error" /\ r.d = d /\ r.l \in At(k, n, P, D)
          /\ ~d.cur \/ d.trs = 0 \/ d.incoh \/ n = 0 \/ ~Certain
       \/ /\ r.st = "Success" /\ d.cur /\ d.trs > 1 /\ r.d.trs = d.trs - 1
          /\ (r.d.cur <=> d.cur) /\ (r.d.incoh <=> d.incoh) /\ r.l = s
       \/ /\ r.st = "Success" /\ d.cur /\ d.trs = 1 /\ r.d.trs = 0 /\ ~r.d.cur /\ ~d.incoh
          /\ \/ n > 1 /\ r.l \in At(k, n - 1, P, D)
             \/ n = 1 /\ r.l \in At(k, 0, {}, D \cup P)

\* transactionCommit of a client.
LEMMA ClCommitAt ==
    ASSUME NEW k, NEW n, NEW P, NEW D, NEW s \in At(k, n, P, D),
           NEW d \in Be!Database, NEW r \in Cl!DbCommit(d, s)
    PROVE  CommitOutcome(r, d, s, k, n, P, D)
  <1> USE DEF CommitOutcome
  <1>1. r.d \in Be!Database /\ (r.d.sch <=> d.sch) /\ (r.d.dbh <=> d.dbh)
    BY ClSame, ClP!CommitIs DEF ClP!SameOpen
  <1>2. /\ r.st = "Success" /\ d.trs = 1 => ~d.incoh
        /\ ~(r.st = "Success" /\ d.trs = 1) => (r.d.incoh <=> d.incoh)
        /\ r.st = "Error" => \/ ~d.cur \/ d.trs = 0 \/ d.incoh
                             \/ \E q \in SrvCommit(s) : q.st # "Success"
    BY ClSame, ClP!CommitIncoh
  <1>3. \/ r.st = "Error" /\ r.d = d /\ r.l = s
        \/ r.st = "Error" /\ r.d = d /\ \E q \in SrvCommit(s) : q.st # "Success" /\ r.l = q.l
        \/ /\ r.st = "Success" /\ d.cur /\ d.trs > 1
           /\ r.d.trs = d.trs - 1 /\ (r.d.cur <=> d.cur) /\ r.l = s
        \/ /\ r.st = "Success" /\ d.cur /\ d.trs = 1 /\ r.d.trs = 0 /\ ~r.d.cur
           /\ \E q \in SrvCommit(s) : q.st = "Success" /\ r.l = q.l
    BY ClSame, ClP!CommitIs
  <1>4. \A q \in SrvCommit(s) :
           /\ q.st = "Success" => \/ n > 1 /\ q.l \in At(k, n - 1, P, D)
                                  \/ n = 1 /\ q.l \in At(k, 0, {}, D \cup P)
           /\ q.st # "Success" => q.l \in At(k, n, P, D) /\ (n = 0 \/ ~Certain)
    BY SrvCommitAt DEF Certain
  <1>5. d.trs \in Nat  BY DEF Be!Database
  <1>6. CASE r.st = "Error"  BY <1>1, <1>2, <1>3, <1>4, <1>6
  <1>7. CASE r.st # "Error" /\ d.trs > 1  BY <1>1, <1>2, <1>3, <1>5, <1>7
  <1>8. CASE r.st # "Error" /\ ~(d.trs > 1)
    <2>1. /\ r.st = "Success" /\ d.cur /\ d.trs = 1 /\ r.d.trs = 0 /\ ~r.d.cur
          /\ \E q \in SrvCommit(s) : q.st = "Success" /\ r.l = q.l
      BY <1>3, <1>8
    <2> QED  BY <1>1, <1>2, <1>4, <2>1
  <1> QED  BY <1>6, <1>7, <1>8

\* The purge at the end of a client's abort, in a server that others use: it
\* stores nothing, and leaves no level if it can be ended.
LEMMA ClPurgeAt ==
    ASSUME NEW k, NEW n, NEW P, NEW D, NEW s \in At(k, n, P, D),
           NEW d, NEW p \in ClP!SchemaPurge(d, s)
    PROVE  p \in AtLeast(k, n) /\ (Certain => p \in At(k, n, P, D))
  <1>0. n \in Nat /\ (n = 0 => P = {})  BY AtElim
  <1>1. CASE ~d.mod
    <2>1. p = s  BY <1>1 DEF ClP!SchemaPurge
    <2> QED  BY <1>0, <2>1, AtIsAtLeast
  <1>2. CASE d.mod
    <2>1. PICK b \in SrvBegin(s) : \E c \in SrvCommit(b.l) : p = c.l
      BY <1>2 DEF ClP!SchemaPurge
    <2>2. PICK c \in SrvCommit(b.l) : p = c.l  BY <2>1
    <2>3. CASE b.l \in At(k, n + 1, P, D)
      <3> DEFINE j == n + 1
      <3>0. b.l \in At(k, j, P, D)  BY <2>3
      <3>2. j # 0 /\ j - 1 = n /\ (j = 1 => n = 0) /\ n <= j /\ n <= n /\ n \in Int /\ j = n + 1
        BY <1>0
      <3> HIDE DEF j
      <3>1. \/ c.l \in At(k, j, P, D) /\ (j = 0 \/ "commit" \in Faults)
            \/ j > 1 /\ c.l \in At(k, j - 1, P, D)
            \/ j = 1 /\ c.l \in At(k, 0, {}, D \cup P)
        BY <3>0, SrvCommitAt
      <3>3. \/ p \in At(k, j, P, D) /\ ~Certain
            \/ p \in At(k, n, P, D)
        <4>1. n = 0 => At(k, 0, {}, D \cup P) = At(k, n, P, D)
          <5>1. n = 0 => D \cup P = D /\ P = {}  BY <1>0
          <5> QED  BY <5>1
        <4> QED  BY <2>2, <3>1, <3>2, <4>1 DEF Certain
      <3> QED  BY <3>2, <3>3, AtIsAtLeast
    <2>4. CASE n = 0 /\ b.l \in At(k, n, P, D)
      <3>0. b.l \in At(k, n, P, D)  BY <2>4
      <3>2. c.l \in At(k, n, P, D) \/ n > 1 \/ n = 1  BY <3>0, SrvCommitAt, Zenon
      <3>1. c.l \in At(k, n, P, D)  BY <2>4, <3>2
      <3> QED  BY <1>0, <2>2, <3>1, AtIsAtLeast
    <2> QED  BY <2>3, <2>4, SrvBeginAt
  <1> QED  BY <1>1, <1>2

\* What transactionAbort of the handle d does, over a server s at level n.
AbortOutcome(r, d, s, k, n, P, D) ==
    /\ r.d \in Be!Database /\ (r.d.sch <=> d.sch) /\ (r.d.dbh <=> d.dbh)
    /\ \/ r.st = "Error" /\ r.d = d /\ r.l \in At(k, n, P, D)
       \/ /\ r.st = "Success" /\ d.cur /\ d.trs > 1 /\ r.d.trs = d.trs - 1
          /\ (r.d.cur <=> d.cur) /\ (r.d.incoh <=> d.incoh) /\ r.l = s
       \/ /\ r.st = "Success" /\ d.cur /\ d.trs = 1 /\ r.d.trs = 0 /\ ~r.d.cur
          /\ n > 0 /\ r.l \in AtLeast(k, n - 1)
          /\ Certain => \/ n > 1 /\ r.l \in At(k, n - 1, P, D)
                        \/ n = 1 /\ r.l \in At(k, 0, {}, D)

\* transactionAbort of a client.
LEMMA ClAbortAt ==
    ASSUME NEW k, NEW n, NEW P, NEW D, NEW s \in At(k, n, P, D),
           NEW d \in Be!Database, NEW r \in Cl!DbAbort(d, s)
    PROVE  AbortOutcome(r, d, s, k, n, P, D)
  <1> USE DEF AbortOutcome
  <1>0. n \in Nat /\ d.trs \in Nat  BY AtElim DEF Be!Database
  <1>1. r.d \in Be!Database /\ (r.d.sch <=> d.sch) /\ (r.d.dbh <=> d.dbh)
    BY ClSame, ClP!AbortIs DEF ClP!SameOpen
  <1>2. ~(r.st = "Success" /\ d.trs = 1) => (r.d.incoh <=> d.incoh)
    BY ClSame, ClP!AbortIncoh
  <1>3. \/ r.st = "Error" /\ r.d = d /\ r.l = s
        \/ r.st = "Error" /\ r.d = d /\ \E q \in SrvAbort(s) : q.st = "Error" /\ r.l = q.l
        \/ /\ r.st = "Success" /\ d.cur /\ d.trs > 1
           /\ r.d.trs = d.trs - 1 /\ (r.d.cur <=> d.cur) /\ r.l = s
        \/ /\ r.st = "Success" /\ d.cur /\ d.trs = 1 /\ r.d.trs = 0 /\ ~r.d.cur
           /\ \E q \in SrvAbort(s) : q.st # "Error" /\ r.l \in ClP!SchemaPurge(d, q.l)
    BY ClSame, ClP!AbortIs
  <1>4. \A q \in SrvAbort(s) :
           /\ q.st # "Error" => \/ n > 1 /\ q.l \in At(k, n - 1, P, D)
                                \/ n = 1 /\ q.l \in At(k, 0, {}, D)
           /\ q.st = "Error" => q.l \in At(k, n, P, D)
    BY SrvAbortAt
  <1>5. CASE r.st = "Error"  BY <1>1, <1>3, <1>4, <1>5
  <1>6. CASE r.st = "Success" /\ d.trs > 1  BY <1>0, <1>1, <1>2, <1>3, <1>6
  <1>7. ASSUME r.st = "Success", d.cur, d.trs = 1, r.d.trs = 0, ~r.d.cur,
               NEW q \in SrvAbort(s), q.st # "Error", r.l \in ClP!SchemaPurge(d, q.l)
        PROVE  /\ n > 0 /\ r.l \in AtLeast(k, n - 1)
               /\ Certain => \/ n > 1 /\ r.l \in At(k, n - 1, P, D)
                             \/ n = 1 /\ r.l \in At(k, 0, {}, D)
    <2>1. CASE n > 1 /\ q.l \in At(k, n - 1, P, D)
      <3>1. r.l \in AtLeast(k, n - 1) /\ (Certain => r.l \in At(k, n - 1, P, D))
        BY <1>7, <2>1, ClPurgeAt
      <3> QED  BY <1>0, <2>1, <3>1
    <2>2. CASE n = 1 /\ q.l \in At(k, 0, {}, D)
      <3>1. r.l \in AtLeast(k, 0) /\ (Certain => r.l \in At(k, 0, {}, D))
        BY <1>7, <2>2, ClPurgeAt
      <3> QED  BY <1>0, <2>2, <3>1
    <2> QED  BY <1>4, <1>7, <2>1, <2>2
  <1> QED  BY <1>1, <1>3, <1>5, <1>6, <1>7

\* What a bracket of open() does to the handle d, over a server s at level n.
BracketOutcome(b, d, s, k, n, P, D) ==
    /\ b.d \in Be!Database /\ (b.d.cur <=> b.d.trs > 0)
    /\ d.trs > 0 => b.d.trs = d.trs /\ b.l = s
    /\ d.trs = 0 => \/ b.d.trs = 0 /\ b.l \in AtLeast(k, n)
                    \/ ~Certain /\ b.d.trs = 1 /\ b.l \in AtLeast(k, n + 1)
    /\ Certain /\ d.trs = 0 => b.l \in At(k, n, P, D)

\* A bracket of open() on the client: inside a transaction it changes nothing;
\* outside it leaves a transaction only if that could not be ended.
LEMMA ClBracketAt ==
    ASSUME NEW k, NEW n, NEW P, NEW D, NEW s \in At(k, n, P, D),
           NEW d \in Be!Database, d.cur <=> d.trs > 0, NEW b \in ClP!Bracket(d, s)
    PROVE  BracketOutcome(b, d, s, k, n, P, D)
  <1> USE DEF BracketOutcome
  <1>0. n \in Nat /\ d.trs \in Nat /\ (n = 0 => P = {})  BY AtElim DEF Be!Database
  <1>1. PICK x \in Cl!DbBegin(d, s) : \E c \in Cl!DbCommit(x.d, x.l) : b.d = c.d /\ b.l = c.l
    BY ClSame, ClP!BracketIs
  <1>2. PICK c \in Cl!DbCommit(x.d, x.l) : b.d = c.d /\ b.l = c.l  BY <1>1
  <1>b. BeginOutcome(x, d, s, k, n, P, D)  BY ClBeginAt
  <1>3. x.d \in Be!Database  BY <1>b DEF BeginOutcome
  <1>4. CASE d.trs > 0
    <2>1. x.d.trs = d.trs + 1 /\ x.d.cur /\ x.l = s  BY <1>4, <1>b DEF BeginOutcome
    <2>2. c.d \in Be!Database  BY <1>3, ClSame, ClP!CommitIs
    <2>3. c.st = "Success" /\ c.d.trs = d.trs + 1 - 1 /\ c.d.cur /\ c.l = s
      <3>1. d.trs + 1 > 1 /\ d.trs + 1 # 0  BY <1>0, <1>4
      <3>2. [x.d EXCEPT !.trs = @ - 1].cur <=> x.d.cur  BY <1>3 DEF Be!Database
      <3>3. c = Cl!Out("Success", [x.d EXCEPT !.trs = @ - 1], x.l)
        <4>1. x.d.cur /\ x.d.trs # 0 /\ x.d.trs > 1  BY <2>1, <3>1
        <4>2. Cl!DbCommit(x.d, x.l) = {Cl!Out("Success", [x.d EXCEPT !.trs = @ - 1], x.l)}
          BY <4>1 DEF Cl!DbCommit
        <4> QED  BY <4>2
      <3>4. c.st = "Success" /\ c.d = [x.d EXCEPT !.trs = @ - 1] /\ c.l = x.l
        BY <3>3 DEF Cl!Out
      <3>5. c.d.trs = x.d.trs - 1  BY <1>3, <3>4 DEF Be!Database
      <3>6. c.d.cur  BY <2>1, <3>2, <3>4
      <3>7. c.d.trs = d.trs + 1 - 1  BY <1>0, <2>1, <3>5
      <3> QED  BY <2>1, <3>4, <3>6, <3>7
    <2> QED  BY <1>0, <1>2, <1>4, <2>2, <2>3
  <1>5. CASE d.trs = 0
    <2>1. \/ x.d.trs = 1 /\ x.d.cur /\ ~x.d.incoh /\ x.l \in At(k, n + 1, P, D)
          \/ x.d.trs = 0 /\ ~x.d.cur /\ x.l \in At(k, n, P, D)
      BY <1>5, <1>b DEF BeginOutcome
    <2>2. CASE x.d.trs = 0 /\ ~x.d.cur /\ x.l \in At(k, n, P, D)
      <3>0. x.l \in At(k, n, P, D) /\ ~x.d.cur  BY <2>2
      <3>1. c.d = x.d /\ c.l \in At(k, n, P, D)
        <4>1. Cl!DbCommit(x.d, x.l) = {Cl!Out("Error", x.d, x.l)}  BY <3>0 DEF Cl!DbCommit
        <4>2. c.d = x.d /\ c.l = x.l  BY <4>1 DEF Cl!Out
        <4> QED  BY <3>0, <4>2
      <3>2. c.l \in AtLeast(k, n)  BY <1>0, <3>1, AtIsAtLeast
      <3> QED  BY <1>2, <1>3, <1>5, <2>2, <3>1, <3>2
    <2>3. CASE x.d.trs = 1 /\ x.d.cur /\ ~x.d.incoh /\ x.l \in At(k, n + 1, P, D)
      <3> DEFINE j == n + 1
      <3>0. x.l \in At(k, j, P, D)  BY <2>3
      <3>1. j # 0 /\ j - 1 = n /\ (j = 1 => n = 0) /\ n <= n /\ j <= j /\ j \in Int /\ n \in Int
        BY <1>0
      <3> HIDE DEF j
      <3>a. CommitOutcome(c, x.d, x.l, k, j, P, D)  BY <1>3, <3>0, ClCommitAt
      <3>2. /\ c.d \in Be!Database
            /\ \/ /\ c.d = x.d /\ c.l \in At(k, j, P, D)
                  /\ ~x.d.cur \/ x.d.trs = 0 \/ x.d.incoh \/ j = 0 \/ ~Certain
               \/ x.d.trs > 1
               \/ /\ c.d.trs = 0 /\ ~c.d.cur
                  /\ \/ j > 1 /\ c.l \in At(k, j - 1, P, D)
                     \/ j = 1 /\ c.l \in At(k, 0, {}, D \cup P)
        BY <3>a DEF CommitOutcome
      <3>3. n = 0 => At(k, 0, {}, D \cup P) = At(k, n, P, D)
        <4>1. n = 0 => D \cup P = D /\ P = {}  BY <1>0
        <4> QED  BY <4>1
      <3>4. \/ c.d = x.d /\ c.l \in At(k, j, P, D) /\ ~Certain
            \/ c.d.trs = 0 /\ ~c.d.cur /\ c.l \in At(k, n, P, D)
        BY <2>3, <3>1, <3>2, <3>3
      <3>5. /\ c.l \in At(k, j, P, D) => c.l \in AtLeast(k, j)
            /\ c.l \in At(k, n, P, D) => c.l \in AtLeast(k, n)
        BY <3>1, AtIsAtLeast
      <3>6. CASE c.d = x.d /\ c.l \in At(k, j, P, D) /\ ~Certain
        BY <1>2, <1>3, <1>5, <2>3, <3>5, <3>6 DEF j
      <3>7. CASE c.d.trs = 0 /\ ~c.d.cur /\ c.l \in At(k, n, P, D)
        BY <1>2, <1>5, <3>2, <3>5, <3>7
      <3> QED  BY <3>4, <3>6, <3>7
    <2> QED  BY <2>1, <2>2, <2>3
  <1> QED  BY <1>0, <1>4, <1>5

\* Two brackets one after the other.
LEMMA ClBracketsAt ==
    ASSUME NEW k, NEW n, NEW P, NEW D, NEW s \in At(k, n, P, D),
           NEW d \in Be!Database, d.cur <=> d.trs > 0, d.trs = 0, NEW b \in ClP!Bracket(d, s),
           NEW f \in Be!Database, f.trs = b.d.trs, f.cur <=> b.d.cur, NEW c \in ClP!Bracket(f, b.l)
    PROVE  /\ c.d \in Be!Database /\ (c.d.cur <=> c.d.trs > 0)
           /\ \/ c.d.trs = 0 /\ c.l \in AtLeast(k, n)
              \/ ~Certain /\ c.d.trs = 1 /\ c.l \in AtLeast(k, n + 1)
           /\ Certain => c.l \in At(k, n, P, D)
  <1>1. /\ b.d \in Be!Database /\ (b.d.cur <=> b.d.trs > 0)
        /\ \/ b.d.trs = 0 /\ b.l \in AtLeast(k, n)
           \/ ~Certain /\ b.d.trs = 1 /\ b.l \in AtLeast(k, n + 1)
        /\ Certain => b.l \in At(k, n, P, D)
    BY ClBracketAt DEF BracketOutcome
  <1>2. f.cur <=> f.trs > 0  BY <1>1
  <1>3. n \in Nat  BY AtElim
  <1>4. ASSUME NEW i \in Nat, b.l \in AtLeast(k, i), b.d.trs = 0
        PROVE  /\ c.d \in Be!Database /\ (c.d.cur <=> c.d.trs > 0)
               /\ \/ c.d.trs = 0 /\ c.l \in AtLeast(k, i)
                  \/ ~Certain /\ c.d.trs = 1 /\ c.l \in AtLeast(k, i + 1)
    <2> DEFINE m == b.l.be.trs
    <2>1. b.l \in At(k, m, b.l.sm.pend, b.l.sm.dur) /\ m >= i
      BY <1>4, AtIntro DEF AtLeast
    <2>2. m \in Nat  BY <2>1, AtElim
    <2> HIDE DEF m
    <2>3. /\ c.d \in Be!Database /\ (c.d.cur <=> c.d.trs > 0)
          /\ \/ c.d.trs = 0 /\ c.l \in AtLeast(k, m)
             \/ ~Certain /\ c.d.trs = 1 /\ c.l \in AtLeast(k, m + 1)
      <3>1. BracketOutcome(c, f, b.l, k, m, b.l.sm.pend, b.l.sm.dur)
        BY <1>2, <2>1, ClBracketAt
      <3> QED  BY <1>4, <3>1 DEF BracketOutcome
    <2>4. /\ c.l \in AtLeast(k, m) => c.l \in AtLeast(k, i)
          /\ c.l \in AtLeast(k, m + 1) => c.l \in AtLeast(k, i + 1)
      <3>1. ASSUME c.l \in OpenSrv(k) PROVE c.l.be.trs \in Nat
        BY <3>1, OpenSrvElim DEF Be!Database
      <3> QED  BY <2>1, <2>2, <3>1 DEF AtLeast
    <2> QED  BY <2>3, <2>4
  <1>5. CASE b.d.trs = 0 /\ b.l \in AtLeast(k, n)
    <2>1. Certain => c.l \in At(k, n, P, D)
      <3>1. Certain => BracketOutcome(c, f, b.l, k, n, P, D)  BY <1>1, <1>2, ClBracketAt
      <3> QED  BY <1>5, <3>1 DEF BracketOutcome
    <2> QED  BY <1>3, <1>4, <1>5, <2>1
  <1>6. CASE ~Certain /\ b.d.trs = 1 /\ b.l \in AtLeast(k, n + 1)
    <2>1. b.l \in At(k, b.l.be.trs, b.l.sm.pend, b.l.sm.dur)
      BY <1>6, AtIntro DEF AtLeast
    <2>2. /\ c.d \in Be!Database /\ (c.d.cur <=> c.d.trs > 0)
          /\ f.trs > 0 => c.d.trs = f.trs /\ c.l = b.l
      <3>1. BracketOutcome(c, f, b.l, k, b.l.be.trs, b.l.sm.pend, b.l.sm.dur)
        BY <1>2, <2>1, ClBracketAt
      <3> QED  BY <3>1 DEF BracketOutcome
    <2> QED  BY <1>6, <2>2
  <1> QED  BY <1>1, <1>5, <1>6

\* What open() does to the handle d, over a server s at level n.
OpenOutcome(r, d, s, k, n, P, D) ==
    /\ r.d \in Be!Database /\ r.d.dbh /\ (r.d.cur => r.d.trs > 0)
    /\ d.sch => r.d.sch /\ r.d.trs = d.trs /\ (r.d.cur <=> d.cur) /\ r.l = s
    /\ ~d.sch => /\ r.d.cur <=> r.d.trs > 0
                 /\ \/ r.d.trs = 0 /\ r.l \in AtLeast(k, n)
                    \/ ~Certain /\ r.d.trs > 0 /\ r.l \in AtLeast(k, n + 1)
                 /\ Certain => r.l \in At(k, n, P, D)

\* Database::open of a client, once the server has opened the database.
LEMMA ClOpenAt ==
    ASSUME NEW k, NEW n, NEW P, NEW D, NEW s \in At(k, n, P, D),
           NEW d \in Be!Database, ~d.sch => d.trs = 0, d.cur => d.trs > 0,
           NEW r \in Cl!DbOpen(d, s)
    PROVE  OpenOutcome(r, d, s, k, n, P, D)
  <1> USE DEF OpenOutcome
  <1>1. r.d \in Be!Database /\ r.d.dbh  BY ClSame, ClP!OpenFields
  <1>2. PICK e \in Be!Database :
          /\ e.trs = d.trs /\ (e.cur <=> d.cur) /\ (e.sch <=> d.sch)
          /\ \/ d.sch /\ r.d = e /\ r.l = s
             \/ /\ ~d.sch
                /\ \E b \in ClP!Bracket(e, s) :
                     \/ r.d = b.d /\ r.l = b.l
                     \/ \E f \in Be!Database :
                          /\ f.trs = b.d.trs /\ (f.cur <=> b.d.cur)
                          /\ \E b2 \in ClP!Bracket(f, b.l) : r.d = b2.d /\ r.l = b2.l
    BY ClSame, ClP!OpenIs
  <1>3. CASE d.sch  BY <1>1, <1>2, <1>3
  <1>4. CASE ~d.sch
    <2>1. e.trs = 0 /\ (e.cur <=> e.trs > 0)
      <3>1. d.trs = 0 /\ ~d.cur  BY <1>4
      <3> QED  BY <1>2, <3>1
    <2>2. ASSUME NEW b \in ClP!Bracket(e, s), r.d = b.d, r.l = b.l
          PROVE  /\ r.d.cur <=> r.d.trs > 0
                 /\ \/ r.d.trs = 0 /\ r.l \in AtLeast(k, n)
                    \/ ~Certain /\ r.d.trs > 0 /\ r.l \in AtLeast(k, n + 1)
                 /\ Certain => r.l \in At(k, n, P, D)
      <3>1. BracketOutcome(b, e, s, k, n, P, D)  BY <2>1, ClBracketAt
      <3> QED  BY <2>1, <2>2, <3>1 DEF BracketOutcome
    <2>3. ASSUME NEW b \in ClP!Bracket(e, s), NEW f \in Be!Database,
                 f.trs = b.d.trs, f.cur <=> b.d.cur,
                 NEW b2 \in ClP!Bracket(f, b.l), r.d = b2.d, r.l = b2.l
          PROVE  /\ r.d.cur <=> r.d.trs > 0
                 /\ \/ r.d.trs = 0 /\ r.l \in AtLeast(k, n)
                    \/ ~Certain /\ r.d.trs > 0 /\ r.l \in AtLeast(k, n + 1)
                 /\ Certain => r.l \in At(k, n, P, D)
      BY <2>1, <2>3, ClBracketsAt
    <2> QED  BY <1>1, <1>2, <1>4, <2>2, <2>3
  <1> QED  BY <1>3, <1>4

\* What close() does to the handle d, over a server s at level n.
CloseOutcome(r, d, s, k, n, P, D) ==
    /\ r.d \in Be!Database /\ r.d.trs = d.trs /\ (r.d.sch <=> d.sch)
    /\ r.d.ref = d.ref - 1 /\ (r.d.cur => d.cur)
    /\ d.ref > 1 => /\ (r.d.cur <=> d.cur) /\ (r.d.dbh <=> d.dbh)
                    /\ (r.d.incoh <=> d.incoh) /\ r.l = s
    /\ ~(d.ref > 1) =>
         /\ ~r.d.dbh
         /\ \/ ~d.cur /\ r.l \in After(k, n, P, D)
            \/ d.cur /\ ~r.d.cur /\ (n = 0 \/ ~Certain) /\ r.l \in After(k, n, P, D)
            \/ d.cur /\ r.d.cur /\ n > 1 /\ r.l \in After(k, n - 1, P, D)
            \/ d.cur /\ r.d.cur /\ n = 1 /\ CommitOnClose /\ r.l \in After(k, 0, {}, D \cup P)
            \/ d.cur /\ r.d.cur /\ n = 1 /\ ~CommitOnClose /\ r.l \in After(k, 0, {}, D)

\* Database::close of a client: a shared handle loses a reference; else the
\* transaction is ended, if there is one, and the server closes.
LEMMA ClCloseAt ==
    ASSUME Reliable, NEW k, NEW n, NEW P, NEW D, NEW s \in At(k, n, P, D),
           NEW d \in Be!Database, NEW r \in Cl!DbClose(d, s)
    PROVE  CloseOutcome(r, d, s, k, n, P, D)
  <1> USE DEF CloseOutcome
  <1>1. /\ r.d \in Be!Database /\ r.d.trs = d.trs /\ (r.d.sch <=> d.sch) /\ r.d.ref = d.ref - 1
    BY ClSame, ClP!CloseIs
  <1>2. CASE d.ref > 1
    <2>1. (r.d.cur <=> d.cur) /\ (r.d.dbh <=> d.dbh) /\ r.l = s
      BY <1>2, ClSame, ClP!CloseIs
    <2>2. r.d.incoh <=> d.incoh  BY <1>2, ClSame, ClP!CloseIncoh
    <2> QED  BY <1>1, <1>2, <2>1, <2>2
  <1>3. CASE ~(d.ref > 1)
    <2>1. PICK d1 \in Be!Database : /\ (d1.cur <=> d.cur)
             /\ \E e \in ClP!EndOnClose(d1, s) : /\ (r.d.cur <=> e.d.cur)
                  /\ \E c \in SrvClose(e.l) : r.l = c.l /\ (c.st = "Success" => ~r.d.dbh)
      BY <1>3, ClSame, ClP!CloseIs
    <2>2. PICK e \in ClP!EndOnClose(d1, s) : /\ (r.d.cur <=> e.d.cur)
             /\ \E c \in SrvClose(e.l) : r.l = c.l /\ (c.st = "Success" => ~r.d.dbh)
      BY <2>1
    <2>3. \/ ~d1.cur /\ e.d = d1 /\ e.l = s
          \/ d1.cur /\ \E q \in SrvEnd(s) : e.l = q.l /\ (e.d.cur <=> q.st = "Success")
      BY ClSame, ClP!EndOnCloseIs
    <2>4. ASSUME NEW i, NEW Q, NEW E, e.l \in At(k, i, Q, E)
          PROVE  ~r.d.dbh /\ r.l \in After(k, i, Q, E)
      BY <2>2, <2>4, SrvCloseAt
    <2>5. CASE ~d1.cur /\ e.d = d1 /\ e.l = s  BY <1>1, <1>3, <2>1, <2>2, <2>4, <2>5
    <2>6. ASSUME d1.cur, NEW q \in SrvEnd(s), e.l = q.l, e.d.cur <=> q.st = "Success"
          PROVE  /\ ~r.d.dbh
                 /\ \/ ~r.d.cur /\ (n = 0 \/ ~Certain) /\ r.l \in After(k, n, P, D)
                    \/ r.d.cur /\ n > 1 /\ r.l \in After(k, n - 1, P, D)
                    \/ r.d.cur /\ n = 1 /\ CommitOnClose /\ r.l \in After(k, 0, {}, D \cup P)
                    \/ r.d.cur /\ n = 1 /\ ~CommitOnClose /\ r.l \in After(k, 0, {}, D)
      <3>1. \/ q.st = "Error" /\ q.l \in At(k, n, P, D) /\ (n = 0 \/ ~Certain)
            \/ q.st = "Success" /\ n > 1 /\ q.l \in At(k, n - 1, P, D)
            \/ q.st = "Success" /\ n = 1 /\ CommitOnClose /\ q.l \in At(k, 0, {}, D \cup P)
            \/ q.st = "Success" /\ n = 1 /\ ~CommitOnClose /\ q.l \in At(k, 0, {}, D)
        <4>1. EndOutcome(q, k, n, P, D)  BY SrvEndAt
        <4> QED  BY <4>1 DEF EndOutcome
      <3> QED  BY <2>2, <2>4, <2>6, <3>1
    <2> QED  BY <1>1, <1>3, <2>1, <2>3, <2>5, <2>6
  <1> QED  BY <1>2, <1>3

-----------------------------------------------------------------------------
(* The levels that the clients hold.                                       *)

\* The client has one Database object on the database.
Alone == \A g, h \in Handles : g = h

\* No Database object is reopened, or there is only one and the storage
\* manager ends its transactions.  (close() leaves trs_cnt, and curtrs when the
\* end succeeded: a reopened handle believes to be in a transaction.)
Owned == MaxOpens <= 1 \/ (Alone /\ Certain)

\* A handle with the Database record d, opened c times, that holds a level or not.
HandleOK(d, c, holds) ==
    /\ holds => d.dbh /\ d.cur
    /\ d.cur => d.trs > 0
    /\ Certain => (~d.sch => d.trs = 0)
    /\ MaxOpens <= 1 => /\ c = 0 => d.trs = 0 /\ ~d.dbh /\ ~d.sch
                        /\ d.dbh /\ d.trs > 0 => holds

\* The server s is at the level of c holders, or above after an end that failed.
LevelOK(s, c) == s.be.trs >= c /\ (Certain => s.be.trs = c)

\* The inductive invariant.
HeldInv ==
    /\ ServerInv
    /\ ~srv.be.incoh
    /\ \A h \in Handles : HandleOK(db[h], opens[h], h \in held)
    /\ server = "serving" => LevelOK(srv, Cardinality(held))

\* The number of holders.
LEMMA HeldFinite ==
    ASSUME TypeOK
    PROVE  IsFiniteSet(held) /\ Cardinality(held) \in Nat
  <1>1. IsFiniteSet(Handles)  BY ConstAssumption
  <1>2. held \subseteq Handles  BY DEF TypeOK
  <1>3. IsFiniteSet(held)  BY <1>1, <1>2, FS_Subset
  <1> QED  BY <1>3, FS_CardinalityType

\* A holder more, a holder less.
LEMMA HeldCount ==
    ASSUME TypeOK, NEW h \in Handles
    PROVE  /\ h \notin held => Cardinality(held \cup {h}) = Cardinality(held) + 1
           /\ h \in held => Cardinality(held \ {h}) = Cardinality(held) - 1
           /\ h \notin held => held \ {h} = held
  <1>1. IsFiniteSet(held)  BY HeldFinite
  <1>2. ASSUME h \notin held PROVE Cardinality(held \cup {h}) = Cardinality(held) + 1
    BY <1>1, <1>2, FS_AddElement
  <1>3. ASSUME h \in held PROVE Cardinality(held \ {h}) = Cardinality(held) - 1
    BY <1>1, <1>3, FS_RemoveElement
  <1>4. ASSUME h \notin held PROVE held \ {h} = held  BY <1>4
  <1> QED  BY <1>2, <1>3, <1>4

\* An open handle has an open server, whose level is known.
LEMMA OpenAt ==
    ASSUME HeldInv, NEW h \in Handles, db[h].dbh
    PROVE  /\ srv \in At(Cardinality(OpenHandles), srv.be.trs, srv.sm.pend, srv.sm.dur)
           /\ db[h] \in Be!Database /\ srv.be.trs \in Nat
  <1>1. srv \in OpenSrv(Cardinality(OpenHandles))  BY HandleOpen DEF HeldInv
  <1>2. srv \in At(Cardinality(OpenHandles), srv.be.trs, srv.sm.pend, srv.sm.dur)
    BY <1>1, AtIntro DEF HeldInv
  <1>3. db[h] \in Be!Database  BY DEF HeldInv, ServerInv, TypeOK
  <1>4. srv.be.trs \in Nat  BY <1>2, AtElim
  <1> QED  BY <1>2, <1>3, <1>4

\* Where nothing is reopened, or one handle is alone, a handle that ends a
\* level of the server's transaction is one that holds a level.
LEMMA EndsHeld ==
    ASSUME Owned, HeldInv, server = "serving", NEW h \in Handles, db[h].dbh, db[h].cur,
           srv.be.trs > 0
    PROVE  h \in held
  <1>1. HandleOK(db[h], opens[h], h \in held) /\ LevelOK(srv, Cardinality(held))
    BY DEF HeldInv
  <1>2. CASE MaxOpens <= 1  BY <1>1, <1>2 DEF HandleOK
  <1>3. CASE Alone /\ Certain
    <2>1. srv.be.trs = Cardinality(held)  BY <1>1, <1>3 DEF LevelOK
    <2>2. Cardinality({}) = 0  BY FS_EmptySet
    <2>3. srv.be.trs \in Nat  BY OpenAt
    <2>4. held # {}  BY <2>1, <2>2, <2>3
    <2>5. held \subseteq Handles  BY DEF HeldInv, ServerInv, TypeOK
    <2> QED  BY <1>3, <2>4, <2>5 DEF Alone
  <1> QED  BY <1>2, <1>3 DEF Owned

\* A step on one handle.
LEMMA HeldCall ==
    ASSUME HeldInv, ServerInv', NEW h \in Handles, NEW d,
           db' = [db EXCEPT ![h] = d],
           \A g \in Handles : g # h => opens'[g] = opens[g] /\ (g \in held' <=> g \in held),
           HandleOK(d, opens'[h], h \in held'),
           ~srv'.be.incoh, LevelOK(srv', Cardinality(held'))
    PROVE  HeldInv'
  <1>1. db'[h] = d /\ \A g \in Handles : g # h => db'[g] = db[g]
    BY DEF HeldInv, ServerInv, TypeOK
  <1>2. ASSUME NEW g \in Handles PROVE HandleOK(db'[g], opens'[g], g \in held')
    <2>1. CASE g = h  BY <1>1, <2>1
    <2>2. CASE g # h
      <3>1. HandleOK(db[g], opens[g], g \in held)  BY DEF HeldInv
      <3>2. db'[g] = db[g] /\ opens'[g] = opens[g] /\ (g \in held' <=> g \in held)
        BY <1>1, <2>2
      <3> QED  BY <3>1, <3>2 DEF HandleOK
    <2> QED  BY <2>1, <2>2
  <1> QED  BY <1>2 DEF HeldInv

\* transactionBegin gives a level to a handle that has none.
LEMMA HeldBegin ==
    ASSUME HeldInv, ServerInv', NEW h \in Handles, Begin(h)
    PROVE  HeldInv'
  <1> DEFINE k == Cardinality(OpenHandles)
             n == srv.be.trs
             P == srv.sm.pend
             D == srv.sm.dur
             c == Cardinality(held)
  <1>0. TypeOK /\ server = "serving" /\ db[h].dbh /\ db[h].sch
    BY DEF HeldInv, ServerInv, Begin, Usable
  <1>1. PICK r \in Cl!DbBegin(db[h], srv) :
          db' = [db EXCEPT ![h] = r.d] /\ srv' = r.l /\ NewScope(h, r.d)
    BY DEF Begin
  <1>2. opens' = opens  BY DEF Begin
  <1>3. srv \in At(k, n, P, D) /\ db[h] \in Be!Database /\ n \in Nat  BY <1>0, OpenAt
  <1>4. HandleOK(db[h], opens[h], h \in held) /\ LevelOK(srv, c)  BY <1>0 DEF HeldInv
  <1>5. c \in Nat  BY <1>0, HeldFinite
  <1>6. h \notin held => Cardinality(held \cup {h}) = c + 1  BY <1>0, HeldCount
  <1> HIDE DEF k, n, P, D, c
  <1>7. BeginOutcome(r, db[h], srv, k, n, P, D)  BY <1>3, ClBeginAt
  <1>8. n >= c /\ (Certain => n = c)  BY <1>4 DEF LevelOK, n
  <1>9. db[h].trs \in Nat  BY <1>3 DEF Be!Database
  <1>10. (r.d.sch <=> db[h].sch) /\ (r.d.dbh <=> db[h].dbh)  BY <1>7 DEF BeginOutcome
  <1>11. CASE db[h].trs > 0
    <2>1. r.d.trs = db[h].trs + 1 /\ (r.d.cur <=> db[h].cur) /\ r.l = srv
      BY <1>7, <1>11 DEF BeginOutcome
    <2>2. held' = held  BY <1>1, <1>9, <1>11 DEF NewScope
    <2>3. HandleOK(r.d, opens[h], h \in held)
      <3>1. r.d.trs > 0  BY <1>9, <2>1
      <3> QED  BY <1>0, <1>4, <1>10, <1>11, <2>1, <3>1 DEF HandleOK
    <2>4. ~srv'.be.incoh /\ LevelOK(srv', Cardinality(held'))
      BY <1>1, <1>4, <2>1, <2>2 DEF HeldInv, c
    <2> QED  BY <1>1, <1>2, <2>2, <2>3, <2>4, HeldCall
  <1>12. CASE db[h].trs = 0 /\ r.d.trs = 1
    <2>1. r.d.cur /\ r.l \in At(k, n + 1, P, D)  BY <1>7, <1>12 DEF BeginOutcome
    <2>2. held' = held \cup {h}  BY <1>1, <1>12 DEF NewScope
    <2>3. h \notin held  BY <1>4, <1>12 DEF HandleOK
    <2>4. HandleOK(r.d, opens[h], TRUE)
      BY <1>0, <1>4, <1>10, <1>12, <2>1 DEF HandleOK
    <2>5. r.l.be.trs = n + 1 /\ ~r.l.be.incoh  BY <2>1, AtElim
    <2>6. LevelOK(r.l, c + 1)  BY <1>3, <1>5, <1>8, <2>5 DEF LevelOK
    <2>7. LevelOK(srv', Cardinality(held')) /\ ~srv'.be.incoh
      BY <1>1, <1>6, <2>2, <2>3, <2>5, <2>6
    <2>8. HandleOK(r.d, opens'[h], h \in held')  BY <1>2, <2>2, <2>4
    <2> QED  BY <1>1, <1>2, <2>2, <2>7, <2>8, HeldCall
  <1>13. CASE db[h].trs = 0 /\ r.d.trs = 0
    <2>1. ~r.d.cur /\ r.l \in At(k, n, P, D)  BY <1>7, <1>13 DEF BeginOutcome
    <2>2. held' = held  BY <1>1, <1>13 DEF NewScope
    <2>3. h \notin held  BY <1>4, <1>13 DEF HandleOK
    <2>4. HandleOK(r.d, opens[h], FALSE)
      BY <1>0, <1>4, <1>10, <1>13, <2>1 DEF HandleOK
    <2>5. r.l.be.trs = n /\ ~r.l.be.incoh  BY <2>1, AtElim
    <2>6. LevelOK(r.l, c)  BY <1>8, <2>5 DEF LevelOK
    <2>7. LevelOK(srv', Cardinality(held')) /\ ~srv'.be.incoh
      BY <1>1, <2>2, <2>5, <2>6 DEF c
    <2>8. HandleOK(r.d, opens'[h], h \in held')  BY <1>2, <2>2, <2>3, <2>4 DEF HandleOK
    <2> QED  BY <1>1, <1>2, <2>2, <2>7, <2>8, HeldCall
  <1>14. db[h].trs > 0 \/ (db[h].trs = 0 /\ (r.d.trs = 1 \/ r.d.trs = 0))
    BY <1>7 DEF BeginOutcome
  <1> QED  BY <1>11, <1>12, <1>13, <1>14

\* The end of a level, by commit or by abort, takes it from its holder.
LEMMA HeldEnds ==
    ASSUME Owned, HeldInv, ServerInv', server = "serving", NEW h \in Handles,
           db[h].dbh, db[h].sch, db[h].cur, db[h].trs = 1, srv.be.trs > 0,
           NEW d, d.dbh, d.sch, ~d.cur, d.trs = 0,
           NEW k, NEW s \in AtLeast(k, srv.be.trs - 1), Certain => s.be.trs = srv.be.trs - 1,
           db' = [db EXCEPT ![h] = d], srv' = s, opens' = opens, held' = held \ {h}
    PROVE  HeldInv'
  <1>0. TypeOK  BY DEF HeldInv, ServerInv
  <1>1. h \in held  BY EndsHeld
  <1>2. Cardinality(held \ {h}) = Cardinality(held) - 1 /\ Cardinality(held) \in Nat
    BY <1>0, <1>1, HeldCount, HeldFinite
  <1>3. s.be.trs >= srv.be.trs - 1 /\ ~s.be.incoh  BY DEF AtLeast
  <1>4. srv.be.trs \in Nat /\ s.be.trs \in Nat
    <2>1. s \in OpenSrv(k)  BY DEF AtLeast
    <2> QED  BY <2>1, OpenAt, OpenSrvElim DEF Be!Database
  <1>5. srv.be.trs >= Cardinality(held) /\ (Certain => srv.be.trs = Cardinality(held))
    BY DEF HeldInv, LevelOK
  <1>6. LevelOK(s, Cardinality(held) - 1)  BY <1>2, <1>3, <1>4, <1>5 DEF LevelOK
  <1>7. LevelOK(srv', Cardinality(held')) /\ ~srv'.be.incoh  BY <1>2, <1>3, <1>6
  <1>8. opens[h] # 0 \/ ~(MaxOpens <= 1)
    <2>1. HandleOK(db[h], opens[h], h \in held)  BY DEF HeldInv
    <2> QED  BY <2>1 DEF HandleOK
  <1>9. HandleOK(d, opens'[h], FALSE)  BY <1>8 DEF HandleOK
  <1>10. HandleOK(d, opens'[h], h \in held')
    <2>1. (h \in held') = FALSE  OBVIOUS
    <2> QED  BY <1>9, <2>1
  <1> QED  BY <1>7, <1>10, HeldCall

\* A nested commit or abort, or one that is refused, takes no level.
LEMMA HeldKept ==
    ASSUME HeldInv, ServerInv', server = "serving", NEW h \in Handles,
           NEW d, d.dbh <=> db[h].dbh, d.sch <=> db[h].sch, d.cur <=> db[h].cur, 
           (d.trs = 0) <=> (db[h].trs = 0), d.trs \in Nat,
           NEW s, ~s.be.incoh, s.be.trs = srv.be.trs,
           db' = [db EXCEPT ![h] = d], srv' = s, opens' = opens, held' = held
    PROVE  HeldInv'
  <1>1. HandleOK(db[h], opens[h], h \in held) /\ LevelOK(srv, Cardinality(held))
    BY DEF HeldInv
  <1>2. db[h].trs \in Nat  BY DEF HeldInv, ServerInv, TypeOK, Be!Database
  <1>3. (d.trs > 0) <=> (db[h].trs > 0)  BY <1>2
  <1>4. HandleOK(d, opens[h], h \in held)  BY <1>1, <1>3 DEF HandleOK
  <1>5. LevelOK(s, Cardinality(held))  BY <1>1 DEF LevelOK
  <1> QED  BY <1>4, <1>5, HeldCall

\* transactionCommit.
LEMMA HeldCommit ==
    ASSUME Owned, HeldInv, ServerInv', NEW h \in Handles, Commit(h)
    PROVE  HeldInv'
  <1> DEFINE k == Cardinality(OpenHandles)
             n == srv.be.trs
             P == srv.sm.pend
             D == srv.sm.dur
  <1>0. server = "serving" /\ db[h].dbh /\ db[h].sch  BY DEF Commit, Usable
  <1>1. PICK r \in Cl!DbCommit(db[h], srv) :
          /\ db' = [db EXCEPT ![h] = r.d] /\ srv' = r.l
          /\ IF r.st = "Success" /\ db[h].trs = 1 THEN held' = held \ {h} ELSE held' = held
    BY DEF Commit
  <1>2. opens' = opens  BY DEF Commit
  <1>3. srv \in At(k, n, P, D) /\ db[h] \in Be!Database /\ n \in Nat  BY <1>0, OpenAt
  <1>4. CommitOutcome(r, db[h], srv, k, n, P, D)
    <2> HIDE DEF k, n, P, D
    <2> QED  BY <1>3, ClCommitAt
  <1>5. r.d \in Be!Database /\ (r.d.sch <=> db[h].sch) /\ (r.d.dbh <=> db[h].dbh)
    BY <1>4 DEF CommitOutcome
  <1>6. db[h].trs \in Nat /\ r.d.trs \in Nat  BY <1>3, <1>5 DEF Be!Database
  <1>7. CASE r.st = "Success" /\ db[h].trs = 1
    <2>1. /\ db[h].cur /\ r.d.trs = 0 /\ ~r.d.cur /\ n > 0
          /\ r.l \in At(k, n - 1, P, D) \/ (n = 1 /\ r.l \in At(k, 0, {}, D \cup P))
      <3> HIDE DEF k, n, P, D
      <3> QED  BY <1>3, <1>4, <1>7 DEF CommitOutcome
    <2>2. r.l \in AtLeast(k, n - 1) /\ r.l.be.trs = n - 1
      <3> HIDE DEF k, n, P, D
      <3>1. n - 1 \in Int /\ n - 1 <= n - 1 /\ (n = 1 => n - 1 = 0)  BY <1>3
      <3>2. CASE r.l \in At(k, n - 1, P, D)  BY <3>1, <3>2, AtElim, AtIsAtLeast
      <3>3. CASE n = 1 /\ r.l \in At(k, 0, {}, D \cup P)
        <4>1. r.l \in AtLeast(k, 0) /\ r.l.be.trs = 0  BY <3>3, AtElim, AtIsAtLeast
        <4> QED  BY <3>1, <3>3, <4>1
      <3> QED  BY <2>1, <3>2, <3>3
    <2>3. held' = held \ {h}  BY <1>1, <1>7
    <2> QED  BY <1>0, <1>1, <1>2, <1>5, <1>7, <2>1, <2>2, <2>3, HeldEnds
  <1>8. CASE ~(r.st = "Success" /\ db[h].trs = 1)
    <2>1. /\ (r.d.cur <=> db[h].cur) /\ (r.d.trs = 0 <=> db[h].trs = 0)
          /\ r.l \in At(k, n, P, D) \/ r.l = srv
      <3> HIDE DEF k, n, P, D
      <3>1. CASE r.st = "Error"  BY <1>4, <3>1 DEF CommitOutcome
      <3>2. CASE r.st # "Error"
        <4>1. db[h].trs > 1 /\ r.d.trs = db[h].trs - 1 /\ (r.d.cur <=> db[h].cur) /\ r.l = srv
          BY <1>4, <1>8, <3>2 DEF CommitOutcome
        <4> QED  BY <1>6, <4>1
      <3> QED  BY <3>1, <3>2
    <2>2. r.l.be.trs = srv.be.trs /\ ~r.l.be.incoh
      BY <1>3, <2>1, AtElim
    <2>3. held' = held  BY <1>1, <1>8
    <2> QED  BY <1>0, <1>1, <1>2, <1>5, <1>6, <2>1, <2>2, <2>3, HeldKept
  <1> QED  BY <1>7, <1>8

\* transactionAbort.
LEMMA HeldAbort ==
    ASSUME Owned, HeldInv, ServerInv', NEW h \in Handles, Abort(h)
    PROVE  HeldInv'
  <1> DEFINE k == Cardinality(OpenHandles)
             n == srv.be.trs
             P == srv.sm.pend
             D == srv.sm.dur
  <1>0. server = "serving" /\ db[h].dbh /\ db[h].sch  BY DEF Abort, Usable
  <1>1. PICK r \in Cl!DbAbort(db[h], srv) :
          /\ db' = [db EXCEPT ![h] = r.d] /\ srv' = r.l
          /\ IF r.st = "Success" /\ db[h].trs = 1 THEN held' = held \ {h} ELSE held' = held
    BY DEF Abort
  <1>2. opens' = opens  BY DEF Abort
  <1>3. srv \in At(k, n, P, D) /\ db[h] \in Be!Database /\ n \in Nat  BY <1>0, OpenAt
  <1>4. AbortOutcome(r, db[h], srv, k, n, P, D)
    <2> HIDE DEF k, n, P, D
    <2> QED  BY <1>3, ClAbortAt
  <1>5. r.d \in Be!Database /\ (r.d.sch <=> db[h].sch) /\ (r.d.dbh <=> db[h].dbh)
    BY <1>4 DEF AbortOutcome
  <1>6. db[h].trs \in Nat /\ r.d.trs \in Nat  BY <1>3, <1>5 DEF Be!Database
  <1>7. CASE r.st = "Success" /\ db[h].trs = 1
    <2>1. /\ db[h].cur /\ r.d.trs = 0 /\ ~r.d.cur /\ n > 0 /\ r.l \in AtLeast(k, n - 1)
          /\ Certain => r.l \in At(k, n - 1, P, D) \/ (n = 1 /\ r.l \in At(k, 0, {}, D))
      <3> HIDE DEF k, n, P, D
      <3> QED  BY <1>4, <1>7 DEF AbortOutcome
    <2>2. Certain => r.l.be.trs = n - 1
      <3> HIDE DEF k, n, P, D
      <3>1. ASSUME r.l \in At(k, n - 1, P, D) PROVE r.l.be.trs = n - 1  BY <3>1, AtElim
      <3>2. ASSUME r.l \in At(k, 0, {}, D) PROVE r.l.be.trs = 0  BY <3>2, AtElim
      <3> QED  BY <2>1, <3>1, <3>2
    <2>3. held' = held \ {h}  BY <1>1, <1>7
    <2> QED  BY <1>0, <1>1, <1>2, <1>5, <1>7, <2>1, <2>2, <2>3, HeldEnds
  <1>8. CASE ~(r.st = "Success" /\ db[h].trs = 1)
    <2>1. /\ (r.d.cur <=> db[h].cur) /\ (r.d.trs = 0 <=> db[h].trs = 0)
          /\ r.l \in At(k, n, P, D) \/ r.l = srv
      <3> HIDE DEF k, n, P, D
      <3>1. CASE r.st = "Error"  BY <1>4, <3>1 DEF AbortOutcome
      <3>2. CASE r.st # "Error"
        <4>1. db[h].trs > 1 /\ r.d.trs = db[h].trs - 1 /\ (r.d.cur <=> db[h].cur) /\ r.l = srv
          BY <1>4, <1>8, <3>2 DEF AbortOutcome
        <4> QED  BY <1>6, <4>1
      <3> QED  BY <3>1, <3>2
    <2>2. r.l.be.trs = srv.be.trs /\ ~r.l.be.incoh
      BY <1>3, <2>1, AtElim
    <2>3. held' = held  BY <1>1, <1>8
    <2> QED  BY <1>0, <1>1, <1>2, <1>5, <1>6, <2>1, <2>2, <2>3, HeldKept
  <1> QED  BY <1>7, <1>8

\* A server after a close is at the level that close() left.
LEMMA AfterElim ==
    ASSUME NEW k, NEW n, NEW P, NEW D, NEW s \in After(k, n, P, D)
    PROVE  /\ ~s.be.incoh /\ s.be.trs = n /\ s.sm.dur = D
           /\ (k > 1 /\ s.sm.pend = P) \/ (~(k > 1) /\ s.sm.pend = {})
  <1>1. CASE k > 1
    <2>1. s \in At(k - 1, n, P, D)  BY <1>1 DEF After
    <2> QED  BY <1>1, <2>1 DEF At
  <1>2. CASE ~(k > 1)  BY <1>2 DEF After, ClosedSrv
  <1> QED  BY <1>1, <1>2

\* close().
LEMMA HeldClose ==
    ASSUME Reliable, Owned, HeldInv, ServerInv', NEW h \in Handles, Close(h)
    PROVE  HeldInv'
  <1> DEFINE k == Cardinality(OpenHandles)
             n == srv.be.trs
             P == srv.sm.pend
             D == srv.sm.dur
             c == Cardinality(held)
  <1>0. TypeOK /\ server = "serving" /\ db[h].dbh  BY DEF Close, HeldInv, ServerInv
  <1>1. PICK r \in Cl!DbClose(db[h], srv) :
          /\ db' = [db EXCEPT ![h] = r.d] /\ srv' = r.l
          /\ IF r.d.ref <= 0 /\ db[h].cur THEN held' = held \ {h} ELSE held' = held
    BY DEF Close
  <1>2. opens' = opens  BY DEF Close
  <1>3. srv \in At(k, n, P, D) /\ db[h] \in Be!Database /\ n \in Nat  BY <1>0, OpenAt
  <1>4. HandleOK(db[h], opens[h], h \in held) /\ LevelOK(srv, c)  BY <1>0 DEF HeldInv
  <1>5. c \in Nat /\ (c = 0 => held = {})  BY <1>0, HeldFinite, FS_EmptySet
  <1>6. /\ h \in held => Cardinality(held \ {h}) = c - 1
        /\ h \notin held => held \ {h} = held
    BY <1>0, HeldCount
  <1>7. db[h].cur /\ n > 0 => h \in held  BY <1>0, EndsHeld
  <1> HIDE DEF k, n, P, D, c
  <1>8. CloseOutcome(r, db[h], srv, k, n, P, D)  BY <1>3, ClCloseAt
  <1>9. n >= c /\ (Certain => n = c)  BY <1>4 DEF LevelOK, n
  <1>10. db[h].ref \in Int /\ r.d.trs = db[h].trs /\ (r.d.sch <=> db[h].sch)
         /\ r.d.ref = db[h].ref - 1 /\ (r.d.cur => db[h].cur)
    BY <1>3, <1>8 DEF CloseOutcome, Be!Database
  <1>11. CASE db[h].ref > 1
    <2>1. (r.d.cur <=> db[h].cur) /\ (r.d.dbh <=> db[h].dbh) /\ r.l = srv
      BY <1>8, <1>11 DEF CloseOutcome
    <2>2. held' = held
      <3>1. ~(r.d.ref <= 0)  BY <1>10, <1>11
      <3> QED  BY <1>1, <3>1
    <2>3. r.d.trs \in Nat  BY <1>3, <1>10 DEF Be!Database
    <2>4. ~srv.be.incoh  BY DEF HeldInv
    <2> QED  BY <1>0, <1>1, <1>2, <1>10, <2>1, <2>2, <2>3, <2>4, HeldKept
  <1>12. CASE ~(db[h].ref > 1)
    <2>0. r.d.ref <= 0  BY <1>10, <1>12
    <2>1. /\ ~r.d.dbh
          /\ \/ ~db[h].cur /\ r.l \in After(k, n, P, D)
             \/ db[h].cur /\ ~r.d.cur /\ (n = 0 \/ ~Certain) /\ r.l \in After(k, n, P, D)
             \/ db[h].cur /\ r.d.cur /\ n > 1 /\ r.l \in After(k, n - 1, P, D)
             \/ db[h].cur /\ r.d.cur /\ n = 1 /\ CommitOnClose /\ r.l \in After(k, 0, {}, D \cup P)
             \/ db[h].cur /\ r.d.cur /\ n = 1 /\ ~CommitOnClose /\ r.l \in After(k, 0, {}, D)
      BY <1>8, <1>12 DEF CloseOutcome
    <2>2. /\ ~r.l.be.incoh
          /\ \/ ~db[h].cur /\ r.l.be.trs = n
             \/ db[h].cur /\ (n = 0 \/ ~Certain) /\ r.l.be.trs = n
             \/ db[h].cur /\ n > 0 /\ r.l.be.trs = n - 1
      <3>1. ASSUME NEW i, NEW Q, NEW E, r.l \in After(k, i, Q, E)
            PROVE  r.l.be.trs = i /\ ~r.l.be.incoh
        BY <3>1, AfterElim
      <3>2. n > 1 => n > 0  BY <1>3
      <3>3. n = 1 => n > 0 /\ n - 1 = 0  OBVIOUS
      <3> QED  BY <2>1, <3>1, <3>2, <3>3
    <2>3. h \notin held'
      <3>1. h \in held => db[h].cur  BY <1>4 DEF HandleOK
      <3> QED  BY <1>1, <2>0, <3>1
    <2>4. HandleOK(r.d, opens[h], FALSE)
      BY <1>0, <1>4, <1>10, <2>1 DEF HandleOK
    <2>5. HandleOK(r.d, opens'[h], h \in held')
      <3>1. (h \in held') = FALSE  BY <2>3
      <3> QED  BY <1>2, <2>4, <3>1
    <2>6. LevelOK(srv', Cardinality(held'))
      <3>1. CASE ~db[h].cur /\ r.l.be.trs = n
        <4>1. held' = held  BY <1>1, <3>1
        <4> QED  BY <1>1, <1>9, <3>1, <4>1 DEF LevelOK, c
      <3>2. CASE db[h].cur /\ (n = 0 \/ ~Certain) /\ r.l.be.trs = n
        <4>1. held' = held \ {h}  BY <1>1, <2>0, <3>2
        <4>2. Cardinality(held') = c \/ (Cardinality(held') = c - 1 /\ c # 0)
          <5>1. CASE h \in held  BY <1>5, <1>6, <4>1, <5>1
          <5>2. CASE h \notin held  BY <1>6, <4>1, <5>2 DEF c
          <5> QED  BY <5>1, <5>2
        <4>3. Certain => n = Cardinality(held')  BY <1>9, <3>2, <4>2
        <4>4. n >= Cardinality(held')  BY <1>3, <1>5, <1>9, <4>2
        <4> QED  BY <1>1, <3>2, <4>3, <4>4 DEF LevelOK
      <3>3. CASE db[h].cur /\ n > 0 /\ r.l.be.trs = n - 1
        <4>1. held' = held \ {h}  BY <1>1, <2>0, <3>3
        <4>2. Cardinality(held') = c - 1  BY <1>6, <1>7, <3>3, <4>1
        <4>3. n - 1 >= c - 1 /\ (Certain => n - 1 = c - 1)  BY <1>3, <1>5, <1>9
        <4> QED  BY <1>1, <3>3, <4>2, <4>3 DEF LevelOK
      <3> QED  BY <2>2, <3>1, <3>2, <3>3
    <2>7. ASSUME NEW g \in Handles, g # h PROVE g \in held' <=> g \in held
      BY <1>1, <2>7
    <2> QED  BY <1>1, <1>2, <2>2, <2>5, <2>6, <2>7, HeldCall
  <1> QED  BY <1>11, <1>12

\* dbOpen in the server, as a client handle that is closed meets it.
LEMMA ServerOpens ==
    ASSUME HeldInv, server = "serving", NEW h \in Handles, ~db[h].dbh, NEW o \in SrvOpen(srv)
    PROVE  \/ o.st = "Error" /\ o.l = srv
           \/ /\ o.st = "Success"
              /\ \E k, n, P : /\ o.l \in At(k, n, P, o.l.sm.dur) /\ n >= Cardinality(held)
                              /\ Certain => /\ n = Cardinality(held)
                                            /\ P = srv.sm.pend /\ o.l.sm.dur = srv.sm.dur
  <1> DEFINE k == Cardinality(OpenHandles)
             c == Cardinality(held)
  <1>0. TypeOK /\ srv \in Srv  BY DEF HeldInv, ServerInv, TypeOK
  <1>1. k \in Nat  BY OpenHandlesFinite
  <1>2. c \in Nat /\ LevelOK(srv, c)  BY <1>0, HeldFinite DEF HeldInv
  <1>3. CASE OpenHandles # {}
    <2>1. srv \in At(k, srv.be.trs, srv.sm.pend, srv.sm.dur)
      BY <1>3, AtIntro DEF HeldInv, ServerInv
    <2>2. o.st = "Success" /\ o.l \in At(k + 1, srv.be.trs, srv.sm.pend, srv.sm.dur)
      <3> HIDE DEF k
      <3> QED  BY <1>0, <1>1, <2>1, SrvOpenAt
    <2>3. o.l.sm.dur = srv.sm.dur  BY <2>2, AtElim
    <2>4. srv.be.trs >= c /\ (Certain => srv.be.trs = c)  BY <1>2 DEF LevelOK
    <2> QED  BY <2>2, <2>3, <2>4
  <1>4. CASE OpenHandles = {}
    <2>1. srv \in ClosedSrv /\ srv.sm.pend = {}  BY <1>4 DEF HeldInv, ServerInv, ClosedSrv
    <2>2. held = {}
      <3>1. \A g \in Handles : g \in held => db[g].dbh  BY DEF HeldInv, HandleOK
      <3> QED  BY <1>0, <1>4, <3>1 DEF OpenHandles, TypeOK
    <2>3. c = 0  BY <2>2, FS_EmptySet
    <2>4. \/ o.st = "Error" /\ o.l = srv
          \/ /\ o.st = "Success" /\ o.l \in OpenSrv(1) /\ ~o.l.be.incoh
             /\ Certain => o.l \in At(1, 0, {}, srv.sm.dur)
      BY <1>0, <2>1, SrvOpenAt
    <2>5. ASSUME o.st = "Success", o.l \in OpenSrv(1), ~o.l.be.incoh,
                 Certain => o.l \in At(1, 0, {}, srv.sm.dur)
          PROVE  \E k1, n, P : /\ o.l \in At(k1, n, P, o.l.sm.dur) /\ n >= c
                               /\ Certain => /\ n = c
                                             /\ P = srv.sm.pend /\ o.l.sm.dur = srv.sm.dur
      <3>1. o.l \in At(1, o.l.be.trs, o.l.sm.pend, o.l.sm.dur)  BY <2>5, AtIntro
      <3>2. o.l.be.trs \in Nat  BY <3>1, AtElim
      <3>3. o.l.be.trs >= c  BY <2>3, <3>2
      <3>4. Certain => o.l.be.trs = 0 /\ o.l.sm.pend = {} /\ o.l.sm.dur = srv.sm.dur
        BY <2>5, AtElim
      <3> QED  BY <2>1, <2>3, <3>1, <3>3, <3>4
    <2> QED  BY <2>4, <2>5
  <1> QED  BY <1>3, <1>4

\* open().
LEMMA HeldOpen ==
    ASSUME Owned, HeldInv, ServerInv', NEW h \in Handles, Open(h)
    PROVE  HeldInv'
  <1> DEFINE c == Cardinality(held)
  <1>0. /\ TypeOK /\ server = "serving" /\ ~db[h].dbh /\ opens[h] < MaxOpens
        /\ db[h] \in Be!Database
    BY DEF Open, HeldInv, ServerInv, TypeOK
  <1>1. PICK o \in SrvOpen(srv) :
          IF o.st = "Error" THEN srv' = o.l /\ UNCHANGED <<db, scope, fate, held>>
          ELSE \E r \in Cl!DbOpen(db[h], o.l) :
                 db' = [db EXCEPT ![h] = r.d] /\ srv' = r.l /\ NewScope(h, r.d)
    BY DEF Open
  <1>2. opens[h] \in Nat /\ opens' = [opens EXCEPT ![h] = opens[h] + 1]
    BY DEF Open, HeldInv, ServerInv, TypeOK
  <1>3. /\ opens'[h] = opens[h] + 1 /\ opens'[h] # 0
        /\ \A g \in Handles : g # h => opens'[g] = opens[g]
    BY <1>0, <1>2 DEF TypeOK
  <1>4. HandleOK(db[h], opens[h], h \in held) /\ LevelOK(srv, c)  BY <1>0 DEF HeldInv
  <1>5. c \in Nat  BY <1>0, HeldFinite
  <1>6. h \notin held  BY <1>0, <1>4 DEF HandleOK
  <1>7. Cardinality(held \cup {h}) = c + 1  BY <1>0, <1>6, HeldCount
  <1>8. MaxOpens <= 1 => opens[h] = 0  BY <1>0, <1>2, ConstAssumption
  <1>9. /\ MaxOpens <= 1 => ~db[h].sch
        /\ ~db[h].sch => db[h].trs = 0
        /\ db[h].cur => db[h].trs > 0
    BY <1>4, <1>8 DEF HandleOK, Owned
  <1>10. \/ o.st = "Error" /\ o.l = srv
         \/ /\ o.st = "Success"
            /\ \E k, n, P : /\ o.l \in At(k, n, P, o.l.sm.dur) /\ n >= c
                            /\ Certain => n = c
    BY <1>0, ServerOpens
  <1> HIDE DEF c
  <1>11. CASE o.st = "Error"
    <2>1. srv' = srv /\ held' = held  BY <1>1, <1>10, <1>11
    <2>2. db' = [db EXCEPT ![h] = db[h]]  BY <1>0, <1>1, <1>11 DEF TypeOK
    <2>3. HandleOK(db[h], opens'[h], h \in held')
      BY <1>0, <1>3, <1>4, <2>1 DEF HandleOK
    <2>4. ~srv'.be.incoh /\ LevelOK(srv', Cardinality(held'))
      BY <1>4, <2>1 DEF HeldInv, c
    <2> QED  BY <1>3, <2>1, <2>2, <2>3, <2>4, HeldCall
  <1>12. CASE o.st # "Error"
    <2>1. PICK r \in Cl!DbOpen(db[h], o.l) :
             db' = [db EXCEPT ![h] = r.d] /\ srv' = r.l /\ NewScope(h, r.d)
      BY <1>1, <1>12
    <2> DEFINE D == o.l.sm.dur
    <2>2. PICK k, n, P : o.l \in At(k, n, P, D) /\ n >= c /\ (Certain => n = c)
      BY <1>10, <1>12
    <2> HIDE DEF D
    <2>3. OpenOutcome(r, db[h], o.l, k, n, P, D)  BY <1>0, <1>9, <2>2, ClOpenAt
    <2>4. n \in Nat /\ ~o.l.be.incoh /\ o.l.be.trs = n  BY <2>2, AtElim
    <2>5. r.d \in Be!Database /\ r.d.dbh /\ (r.d.cur => r.d.trs > 0) /\ r.d.trs \in Nat
      BY <2>3 DEF OpenOutcome, Be!Database
    <2>6. CASE db[h].sch
      <3>1. r.d.sch /\ r.d.trs = db[h].trs /\ r.l = o.l  BY <2>3, <2>6 DEF OpenOutcome
      <3>2. ~(r.d.trs > 0 /\ db[h].trs = 0)  BY <3>1
      <3>3. held' = held  BY <2>1, <3>2 DEF NewScope
      <3>4. HandleOK(r.d, opens'[h], h \in held')
        BY <1>6, <1>9, <2>5, <2>6, <3>1, <3>3 DEF HandleOK
      <3>5. ~srv'.be.incoh /\ LevelOK(srv', Cardinality(held'))
        BY <2>1, <2>2, <2>4, <3>1, <3>3 DEF LevelOK, c
      <3> QED  BY <1>3, <2>1, <3>3, <3>4, <3>5, HeldCall
    <2>7. CASE ~db[h].sch /\ r.d.trs = 0
      <3>1. /\ r.l \in AtLeast(k, n) \/ r.l \in AtLeast(k, n + 1)
            /\ Certain => r.l \in At(k, n, P, D)
        BY <2>3, <2>7 DEF OpenOutcome
      <3>2. /\ ~r.l.be.incoh /\ r.l.be.trs \in Nat
            /\ r.l.be.trs >= n \/ r.l.be.trs >= n + 1
            /\ Certain => r.l.be.trs = n
        <4>1. r.l \in OpenSrv(k)  BY <3>1 DEF AtLeast
        <4>2. r.l.be.trs \in Nat  BY <4>1, OpenSrvElim DEF Be!Database
        <4>3. Certain => r.l.be.trs = n  BY <3>1, AtElim
        <4> QED  BY <3>1, <4>2, <4>3 DEF AtLeast
      <3>3. held' = held  BY <2>1, <2>7 DEF NewScope
      <3>4. HandleOK(r.d, opens'[h], h \in held')
        BY <1>3, <1>6, <2>5, <2>7, <3>3 DEF HandleOK
      <3>5. r.l.be.trs >= c /\ (Certain => r.l.be.trs = c)  BY <1>5, <2>2, <2>4, <3>2
      <3>6. ~srv'.be.incoh /\ LevelOK(srv', Cardinality(held'))
        BY <2>1, <3>2, <3>3, <3>5 DEF LevelOK, c
      <3> QED  BY <1>3, <2>1, <3>3, <3>4, <3>6, HeldCall
    <2>8. CASE ~db[h].sch /\ r.d.trs # 0
      <3>1. ~Certain /\ r.d.cur /\ r.d.trs > 0 /\ r.l \in AtLeast(k, n + 1)
        BY <2>3, <2>8 DEF OpenOutcome
      <3>2. ~r.l.be.incoh /\ r.l.be.trs \in Nat /\ r.l.be.trs >= n + 1
        <4>1. r.l \in OpenSrv(k)  BY <3>1 DEF AtLeast
        <4>2. r.l.be.trs \in Nat  BY <4>1, OpenSrvElim DEF Be!Database
        <4> QED  BY <3>1, <4>2 DEF AtLeast
      <3>3. held' = held \cup {h}  BY <1>9, <2>1, <2>8, <3>1 DEF NewScope
      <3>4. HandleOK(r.d, opens'[h], h \in held')
        BY <1>3, <2>5, <3>1, <3>3 DEF HandleOK
      <3>5. r.l.be.trs >= c + 1  BY <1>5, <2>2, <2>4, <3>2
      <3>6. ~srv'.be.incoh /\ LevelOK(srv', Cardinality(held'))
        BY <1>7, <2>1, <3>1, <3>2, <3>3, <3>5 DEF LevelOK
      <3> QED  BY <1>3, <2>1, <3>3, <3>4, <3>6, HeldCall
    <2> QED  BY <2>6, <2>7, <2>8
  <1> QED  BY <1>11, <1>12

\* Marking the schema of the back end leaves its transaction alone.
LEMMA ModIncoh ==
    ASSUME NEW s \in Srv, NEW t, t = [s EXCEPT !.be.mod = TRUE]
    PROVE  t.be.incoh <=> s.be.incoh
  <1>1. t.be = [s.be EXCEPT !.mod = TRUE]  BY DEF Srv
  <1> QED  BY <1>1, SrvParts DEF Be!Database

\* A store leaves everything but the pending operations of the server alone.
LEMMA StoreIs ==
    ASSUME TypeOK, NEW h \in Handles, Store(h)
    PROVE  \E x \in BOOLEAN :
             db' = [db EXCEPT ![h] = [db[h] EXCEPT !.incoh = x]] /\ srv'.be = srv.be
  <1>0. srv \in Srv /\ db[h] \in Be!Database  BY DEF TypeOK
  <1>1. PICK w \in BOOLEAN :
          \/ /\ srv.sm.cnt > 0
             /\ srv' = [srv EXCEPT !.sm.pend =
                          @ \cup {[h |-> h, n |-> scope[h], whole |-> w]}]
             /\ db' = [db EXCEPT ![h].incoh = @ \/ (db[h].cur /\ ~w)]
          \/ db' = [db EXCEPT ![h].incoh = @ \/ db[h].cur] /\ srv' = srv
    BY DEF Store
  <1>2. CASE /\ srv.sm.cnt > 0
             /\ srv' = [srv EXCEPT !.sm.pend =
                          @ \cup {[h |-> h, n |-> scope[h], whole |-> w]}]
             /\ db' = [db EXCEPT ![h].incoh = @ \/ (db[h].cur /\ ~w)]
    <2> DEFINE x == db[h].incoh \/ (db[h].cur /\ ~w)
               Q == srv.sm.pend \cup {[h |-> h, n |-> scope[h], whole |-> w]}
    <2>1. x \in BOOLEAN  OBVIOUS
    <2>2. db' = [db EXCEPT ![h] = [db[h] EXCEPT !.incoh = x]]  BY <1>2
    <2>3. srv' = [srv EXCEPT !.sm.pend = Q]  BY <1>2
    <2> HIDE DEF x, Q
    <2>4. srv'.be = srv.be  BY <1>0, <2>3 DEF Srv
    <2> QED  BY <2>1, <2>2, <2>4
  <1>3. CASE db' = [db EXCEPT ![h].incoh = @ \/ db[h].cur] /\ srv' = srv
    <2> DEFINE x == db[h].incoh \/ db[h].cur
    <2>1. x \in BOOLEAN  OBVIOUS
    <2>2. db' = [db EXCEPT ![h] = [db[h] EXCEPT !.incoh = x]]  BY <1>3
    <2> HIDE DEF x
    <2> QED  BY <1>3, <2>1, <2>2
  <1> QED  BY <1>1, <1>2, <1>3

\* Sharing a handle, storing and changing the schema take and give no level.
LEMMA HeldOther ==
    ASSUME HeldInv, ServerInv', NEW h \in Handles,
           OpenShared(h) \/ Store(h) \/ TouchSchema(h)
    PROVE  HeldInv'
  <1>0. /\ TypeOK /\ server = "serving" /\ db[h] \in Be!Database /\ srv \in Srv
        /\ ~srv.be.incoh /\ opens' = opens /\ held' = held /\ db[h].trs \in Nat
    BY DEF OpenShared, Store, TouchSchema, HeldInv, ServerInv, TypeOK, Be!Database
  <1>1. CASE OpenShared(h)
    <2>1. db[h].ref + 1 \in Int  BY <1>0 DEF Be!Database
    <2>2. db' = [db EXCEPT ![h] = [db[h] EXCEPT !.ref = db[h].ref + 1]] /\ srv' = srv
      BY <1>1 DEF OpenShared
    <2> DEFINE d == [db[h] EXCEPT !.ref = db[h].ref + 1]
    <2>3. (d.dbh <=> db[h].dbh) /\ (d.sch <=> db[h].sch) /\ d.trs = db[h].trs /\ (d.cur <=> db[h].cur)
      BY <1>0, <2>1, BeSame, BeP!SetRef
    <2> HIDE DEF d
    <2> QED  BY <1>0, <2>2, <2>3, HeldKept DEF d
  <1>2. CASE Store(h)
    <2>1. PICK x \in BOOLEAN :
            db' = [db EXCEPT ![h] = [db[h] EXCEPT !.incoh = x]] /\ srv'.be = srv.be
      BY <1>0, <1>2, StoreIs
    <2> DEFINE d == [db[h] EXCEPT !.incoh = x]
    <2>2. (d.dbh <=> db[h].dbh) /\ (d.sch <=> db[h].sch) /\ d.trs = db[h].trs /\ (d.cur <=> db[h].cur)
      BY <1>0 DEF Be!Database
    <2> HIDE DEF d
    <2>3. db' = [db EXCEPT ![h] = d]  BY <2>1 DEF d
    <2>4. ~srv'.be.incoh /\ srv'.be.trs = srv.be.trs  BY <1>0, <2>1
    <2> QED  BY <1>0, <2>2, <2>3, <2>4, HeldKept
  <1>3. CASE TouchSchema(h)
    <2>1. /\ db' = [db EXCEPT ![h] = [db[h] EXCEPT !.mod = TRUE]]
          /\ srv' = [srv EXCEPT !.be.mod = TRUE]
      BY <1>3 DEF TouchSchema
    <2> DEFINE d == [db[h] EXCEPT !.mod = TRUE]
    <2>2. (d.dbh <=> db[h].dbh) /\ (d.sch <=> db[h].sch) /\ d.trs = db[h].trs /\ (d.cur <=> db[h].cur)
      BY <1>0 DEF Be!Database
    <2> HIDE DEF d
    <2>3. db' = [db EXCEPT ![h] = d]  BY <2>1 DEF d
    <2>4. ~srv'.be.incoh /\ srv'.be.trs = srv.be.trs  BY <1>0, <2>1, ModIncoh, ModType
    <2> QED  BY <1>0, <2>2, <2>3, <2>4, HeldKept
  <1> QED  BY <1>1, <1>2, <1>3

\* The server on its way out.
LEMMA HeldQuit ==
    ASSUME HeldInv, ServerInv', ClientDies \/ Release \/ Killed \/ QuitStep \/ Gone
    PROVE  HeldInv'
  <1>1. /\ server' # "serving" /\ db' = db /\ opens' = opens /\ held' = held
        /\ srv' = srv \/ (srv.be.dbh /\ \E q \in SrvAbort(srv) : srv' = q.l)
    BY DEF ClientDies, Release, Killed, QuitStep, Gone, vars
  <1>2. CASE srv' = srv  BY <1>1, <1>2 DEF HeldInv
  <1>3. CASE srv.be.dbh /\ \E q \in SrvAbort(srv) : srv' = q.l
    <2>1. OpenHandles # {}  BY <1>3 DEF HeldInv, ServerInv, ClosedSrv
    <2> DEFINE k == Cardinality(OpenHandles)
               n == srv.be.trs
               P == srv.sm.pend
               D == srv.sm.dur
    <2>2. srv \in At(k, n, P, D)  BY <2>1, AtIntro DEF HeldInv, ServerInv
    <2> HIDE DEF k, n, P, D
    <2>3. \/ srv' \in At(k, n, P, D) \/ srv' \in At(k, n - 1, P, D) \/ srv' \in At(k, 0, {}, D)
      BY <1>3, <2>2, SrvAbortAt
    <2>4. ~srv'.be.incoh  BY <2>3 DEF At
    <2> QED  BY <1>1, <2>4 DEF HeldInv
  <1> QED  BY <1>1, <1>2, <1>3

\* connection_handler closes an entry: its handle holds nothing any more, and
\* what it leaves in the server was not made durable.
LEMMA HeldCloseEntry ==
    ASSUME Reliable, HeldInv, ServerInv', NEW h \in Handles, CloseEntry(h)
    PROVE  /\ HeldInv'
           /\ srv'.sm.dur = srv.sm.dur
           /\ Alone => srv'.sm.pend = {}
  <1> DEFINE k == Cardinality(OpenHandles)
             n == srv.be.trs
             P == srv.sm.pend
             D == srv.sm.dur
             d == [db[h] EXCEPT !.dbh = FALSE]
  <1>0. /\ server' = "closing" /\ opens' = opens /\ held' = held \ {h} /\ db[h].dbh
        /\ db' = [db EXCEPT ![h] = d] /\ db \in [Handles -> Be!Database]
    BY DEF CloseEntry, HeldInv, ServerInv, TypeOK
  <1>1. PICK q \in SrvClose(srv) : srv' = q.l  BY DEF CloseEntry
  <1>2. srv \in At(k, n, P, D)  BY <1>0, OpenAt
  <1>3. /\ ~d.dbh /\ (d.cur <=> db[h].cur) /\ (d.sch <=> db[h].sch) /\ d.trs = db[h].trs
    BY <1>0 DEF Be!Database
  <1>4. Alone => ~(k > 1)
    <2> SUFFICES ASSUME Alone PROVE k = 1  OBVIOUS
    <2>1. OpenHandles = {h}  BY <1>0 DEF Alone, OpenHandles
    <2> QED  BY <2>1, FS_Singleton
  <1> HIDE DEF k, n, P, D, d
  <1>5. srv' \in After(k, n, P, D)  BY <1>1, <1>2, SrvCloseAt
  <1>6. /\ ~srv'.be.incoh /\ srv'.sm.dur = D
        /\ (k > 1 /\ srv'.sm.pend = P) \/ (~(k > 1) /\ srv'.sm.pend = {})
    BY <1>5, AfterElim
  <1>7. ASSUME NEW g \in Handles PROVE HandleOK(db'[g], opens'[g], g \in held')
    <2>1. HandleOK(db[g], opens[g], g \in held)  BY DEF HeldInv
    <2>2. CASE g = h
      <3>1. db'[g] = d /\ g \notin held'  BY <1>0, <2>2
      <3> QED  BY <1>0, <1>3, <2>1, <2>2, <3>1 DEF HandleOK
    <2>3. CASE g # h
      <3>1. db'[g] = db[g] /\ (g \in held' <=> g \in held)  BY <1>0, <2>3
      <3> QED  BY <1>0, <2>1, <3>1 DEF HandleOK
    <2> QED  BY <2>2, <2>3
  <1>8. HeldInv'  BY <1>0, <1>6, <1>7 DEF HeldInv
  <1> QED  BY <1>4, <1>6, <1>8 DEF D

\* Initially nothing is open and no level is held.
LEMMA HeldInit == Init => HeldInv
  <1> SUFFICES ASSUME Init PROVE HeldInv  OBVIOUS
  <1>1. ServerInv  BY ServerInvInit
  <1>2. /\ ~Be!NewDatabase.incoh /\ Be!NewDatabase.trs = 0 /\ ~Be!NewDatabase.dbh
        /\ ~Be!NewDatabase.cur /\ ~Be!NewDatabase.sch
    BY DEF Be!NewDatabase
  <1>3. srv.be = Be!NewDatabase /\ held = {} /\ (\A h \in Handles : db[h] = Be!NewDatabase)
    BY DEF Init
  <1>4. \A h \in Handles : HandleOK(db[h], opens[h], h \in held)  BY <1>2, <1>3 DEF HandleOK
  <1>5. LevelOK(srv, Cardinality(held))  BY <1>2, <1>3, FS_EmptySet DEF LevelOK
  <1> QED  BY <1>1, <1>2, <1>3, <1>4, <1>5 DEF HeldInv

\* Every step keeps the inductive invariant of the levels.
LEMMA HeldNext ==
    ASSUME Reliable, Owned, HeldInv, Next
    PROVE  HeldInv'
  <1>0. ServerInv'  BY ServerInvNext DEF HeldInv
  <1>1. ASSUME NEW h \in Handles, Open(h) PROVE HeldInv'  BY <1>0, <1>1, HeldOpen
  <1>2. ASSUME NEW h \in Handles, Close(h) PROVE HeldInv'  BY <1>0, <1>2, HeldClose
  <1>3. ASSUME NEW h \in Handles, Begin(h) PROVE HeldInv'  BY <1>0, <1>3, HeldBegin
  <1>4. ASSUME NEW h \in Handles, Commit(h) PROVE HeldInv'  BY <1>0, <1>4, HeldCommit
  <1>5. ASSUME NEW h \in Handles, Abort(h) PROVE HeldInv'  BY <1>0, <1>5, HeldAbort
  <1>6. ASSUME NEW h \in Handles, OpenShared(h) \/ Store(h) \/ TouchSchema(h)
        PROVE  HeldInv'
    BY <1>0, <1>6, HeldOther
  <1>7. ASSUME ClientDies \/ Release \/ Killed \/ QuitStep \/ Gone PROVE HeldInv'  BY <1>0, <1>7, HeldQuit
  <1>8. ASSUME NEW h \in Handles, CloseEntry(h) PROVE HeldInv'  BY <1>0, <1>8, HeldCloseEntry
  <1> QED  BY <1>1, <1>2, <1>3, <1>4, <1>5, <1>6, <1>7, <1>8 DEF Next

\* The inductive invariant of the levels: a handle that holds a level is open
\* and in a transaction, and the server is at the level of its holders.
THEOREM HeldInvariant == ASSUME Reliable, Owned PROVE Spec => []HeldInv
  <1>1. ASSUME HeldInv, UNCHANGED vars PROVE HeldInv'
    <2>1. ServerInv'
      <3>1. TypeOK'  BY <1>1 DEF HeldInv, ServerInv, TypeOK, vars
      <3>2. srv' = srv /\ OpenHandles' = OpenHandles  BY <1>1 DEF vars, OpenHandles
      <3> QED  BY <1>1, <3>1, <3>2 DEF HeldInv, ServerInv
    <2> QED  BY <1>1, <2>1 DEF HeldInv, vars
  <1>2. HeldInv /\ [Next]_vars => HeldInv'  BY <1>1, HeldNext
  <1> QED  BY HeldInit, <1>2, PTL DEF Spec

\* What a client believes is what it owns, whatever fails in begin, commit,
\* abort, store, load and open, and however many handles share the server's
\* transaction: an open handle with a current transaction holds a level of it,
\* and while one does the storage manager is in a transaction.  It needs that
\* no Database object is reopened: close() leaves trs_cnt and curtrs behind.
THEOREM Held == ASSUME Reliable, MaxOpens <= 1 PROVE Spec => []HeldInTransaction
  <1>1. HeldInv => HeldInTransaction
    <2> SUFFICES ASSUME HeldInv PROVE HeldInTransaction  OBVIOUS
    <2>1. ASSUME NEW h \in Handles, db[h].dbh, db[h].cur PROVE h \in held
      <3>1. HandleOK(db[h], opens[h], h \in held)  BY DEF HeldInv
      <3> QED  BY <2>1, <3>1 DEF HandleOK
    <2>2. ASSUME server = "serving", held # {} PROVE srv.sm.cnt > 0
      <3>1. PICK h \in held : TRUE  BY <2>2
      <3>2. h \in Handles  BY DEF HeldInv, ServerInv, TypeOK
      <3>3. db[h].dbh  BY <3>1, <3>2 DEF HeldInv, HandleOK
      <3>4. srv.be.trs >= Cardinality(held)  BY <2>2 DEF HeldInv, LevelOK
      <3>5. IsFiniteSet(held) /\ Cardinality(held) \in Nat  BY HeldFinite DEF HeldInv, ServerInv
      <3>6. Cardinality(held) # 0  BY <2>2, <3>5, FS_EmptySet
      <3>7. srv.be.trs \in Nat /\ srv.sm.cnt = IF srv.be.trs > 0 THEN 1 ELSE 0
        BY <3>2, <3>3, OpenAt, AtElim
      <3> QED  BY <3>4, <3>5, <3>6, <3>7
    <2> QED  BY <2>1, <2>2 DEF HeldInTransaction
  <1>2. Owned  BY DEF Owned
  <1> QED  BY <1>1, <1>2, HeldInvariant, PTL

\* Each handle in a transaction accounts for exactly one level of the back
\* end's trs_cnt, so that the last one to leave ends the transaction, provided
\* that the storage manager ends what it is asked to end.
THEOREM Scopes == ASSUME Reliable, Certain, MaxOpens <= 1 \/ Alone
                  PROVE  Spec => []ServerCountsScopes
  <1>1. HeldInv => ServerCountsScopes  BY DEF HeldInv, LevelOK, ServerCountsScopes
  <1>2. Owned  BY DEF Owned
  <1> QED  BY <1>1, <1>2, HeldInvariant, PTL

-----------------------------------------------------------------------------
(* Atomicity.                                                              *)

\* An operation that may be durable: the handle h was told that it is, and it
\* was done entirely unless close() commits without looking.
Durable(o, h, n, f) ==
    /\ o.h = h /\ o.n <= n /\ f[<<h, o.n>>] = "committed"
    /\ CommitOnClose \/ o.whole

\* The handle h with P pending and D durable in the server, whose last level-0
\* transaction is number n, f being what the clients were told: a holder's
\* transaction is open; a handle that is alone has nothing pending but what its
\* open transaction stored, nothing durable but what it was told is committed,
\* and, unless close() commits, no half-done store in a coherent transaction.
AtomOK(h, P, D, n, f, holds, incoherent) ==
    /\ holds => f[<<h, n>>] = "open"
    /\ Alone =>
         /\ \A o \in P : /\ o.h = h /\ o.n = n /\ holds
                         /\ CommitOnClose \/ o.whole \/ incoherent
         /\ \A o \in D : Durable(o, h, n, f)

\* The inductive invariant.
AtomInv ==
    /\ HeldInv
    /\ \A h \in Handles :
          AtomOK(h, srv.sm.pend, srv.sm.dur, scope[h], fate, h \in held, db[h].incoh)

\* What is durable changes only when a client is told of a commit.
CommitStep ==
    srv'.sm.dur # srv.sm.dur =>
      \E h \in Handles : /\ fate[<<h, scope[h]>>] = "open"
                         /\ fate'[<<h, scope[h]>>] = "committed"

FateMap == [Handles \X (0 .. MaxScopes) -> Fates]

\* What the clients were told once h is told t about its transaction n.
Told(f, h, n, t) == [f EXCEPT ![<<h, n>>] = t]

\* Nothing happens to a handle, except that it may become incoherent.
LEMMA AtomKeep ==
    ASSUME NEW h, NEW P, NEW D, NEW n, NEW f, NEW q, NEW i, NEW j,
           AtomOK(h, P, D, n, f, q, i), ~q \/ (i => j)
    PROVE  AtomOK(h, P, D, n, f, q, j) /\ AtomOK(h, {}, D, n, f, q, j)
  BY DEF AtomOK

\* A level-0 begin.
LEMMA AtomBegin ==
    ASSUME NEW h \in Handles, NEW P, NEW D \in SUBSET Op, NEW n \in 0 .. MaxScopes,
           NEW m \in 0 .. MaxScopes, m > n, NEW f \in FateMap, NEW i, NEW j,
           AtomOK(h, P, D, n, f, FALSE, i)
    PROVE  AtomOK(h, P, D, m, Told(f, h, m, "open"), TRUE, j)
  <1> DEFINE g == Told(f, h, m, "open")
  <1>0. MaxScopes \in Nat  BY ConstAssumption
  <1>1. g[<<h, m>>] = "open"  BY DEF FateMap, Told
  <1>2. ASSUME Alone, NEW o \in P PROVE FALSE  BY <1>2 DEF AtomOK
  <1>3. ASSUME Alone, NEW o \in D PROVE Durable(o, h, m, g)
    <2>1. o.n \in 0 .. MaxScopes  BY DEF Op
    <2>2. Durable(o, h, n, f)  BY <1>3 DEF AtomOK
    <2>3. o.n <= m /\ o.n # m  BY <1>0, <2>1, <2>2 DEF Durable
    <2>4. g[<<h, o.n>>] = f[<<h, o.n>>]  BY <2>1, <2>3 DEF FateMap, Told
    <2> QED  BY <2>2, <2>3, <2>4 DEF Durable
  <1> HIDE DEF g
  <1>4. AtomOK(h, P, D, m, g, TRUE, j)  BY <1>1, <1>2, <1>3 DEF AtomOK
  <1> QED  BY <1>4 DEF g

\* What is durable was not stored by the open transaction of a holder.
LEMMA AtomDurable ==
    ASSUME NEW h \in Handles, NEW D \in SUBSET Op, NEW n \in 0 .. MaxScopes,
           NEW f \in FateMap, f[<<h, n>>] = "open",
           NEW t, NEW o \in D, Durable(o, h, n, f)
    PROVE  Durable(o, h, n, Told(f, h, n, t))
  <1>1. o.n \in 0 .. MaxScopes  BY DEF Op
  <1>2. o.n # n  BY DEF Durable
  <1>3. Told(f, h, n, t)[<<h, o.n>>] = f[<<h, o.n>>]  BY <1>1, <1>2 DEF FateMap, Told
  <1> QED  BY <1>3 DEF Durable

\* A level-0 abort forgets what is pending.
LEMMA AtomAborts ==
    ASSUME NEW h \in Handles, NEW P \in SUBSET Op, NEW D \in SUBSET Op, NEW n \in 0 .. MaxScopes,
           NEW f \in FateMap, NEW q, NEW i, NEW j,
           AtomOK(h, P, D, n, f, q, i), q
    PROVE  AtomOK(h, {}, D, n, Told(f, h, n, "aborted"), FALSE, j)
  <1>1. f[<<h, n>>] = "open"  BY DEF AtomOK
  <1>2. ASSUME Alone, NEW o \in D PROVE Durable(o, h, n, Told(f, h, n, "aborted"))
    <2>1. Durable(o, h, n, f)  BY <1>2 DEF AtomOK
    <2> QED  BY <1>1, <2>1, AtomDurable
  <1> QED  BY <1>2 DEF AtomOK

\* A transaction is committed if it is coherent, or at close() without looking.
MayStore(incoherent) == CommitOnClose \/ ~incoherent

\* A level-0 commit stores what is pending.
LEMMA AtomCommits ==
    ASSUME NEW h \in Handles, NEW P \in SUBSET Op, NEW D \in SUBSET Op, NEW n \in 0 .. MaxScopes,
           NEW f \in FateMap, NEW q, NEW i, NEW j,
           AtomOK(h, P, D, n, f, q, i), q, MayStore(i)
    PROVE  AtomOK(h, {}, D \cup P, n, Told(f, h, n, "committed"), FALSE, j)
  <1>0. f[<<h, n>>] = "open" /\ Told(f, h, n, "committed")[<<h, n>>] = "committed"
    BY DEF AtomOK, FateMap, Told
  <1>1. ASSUME Alone, NEW o \in P PROVE Durable(o, h, n, Told(f, h, n, "committed"))
    <2>1. o.h = h /\ o.n = n /\ (CommitOnClose \/ o.whole)  BY <1>1 DEF AtomOK, MayStore
    <2> QED  BY <1>0, <2>1 DEF Durable
  <1>2. ASSUME Alone, NEW o \in D PROVE Durable(o, h, n, Told(f, h, n, "committed"))
    <2>1. Durable(o, h, n, f)  BY <1>2 DEF AtomOK
    <2> QED  BY <1>0, <2>1, AtomDurable
  <1> QED  BY <1>1, <1>2 DEF AtomOK

\* A step on one handle.
LEMMA AtomCall ==
    ASSUME AtomInv, HeldInv', NEW h \in Handles,
           \A g \in Handles : g # h => /\ scope'[g] = scope[g] /\ (g \in held' <=> g \in held)
                                       /\ fate'[<<g, scope[g]>>] = fate[<<g, scope[g]>>],
           AtomOK(h, srv'.sm.pend, srv'.sm.dur, scope'[h], fate', h \in held', db'[h].incoh)
    PROVE  AtomInv'
  <1>1. ASSUME NEW g \in Handles
        PROVE  AtomOK(g, srv'.sm.pend, srv'.sm.dur, scope'[g], fate', g \in held', db'[g].incoh)
    <2>1. CASE g = h  BY <2>1
    <2>2. CASE g # h
      <3>1. ~Alone  BY <2>2 DEF Alone
      <3>2. g \in held => fate[<<g, scope[g]>>] = "open"  BY DEF AtomInv, AtomOK
      <3>3. g \in held' => fate'[<<g, scope'[g]>>] = "open"  BY <2>2, <3>2
      <3> QED  BY <3>1, <3>3 DEF AtomOK
    <2> QED  BY <2>1, <2>2
  <1> QED  BY <1>1 DEF AtomInv

\* The parts of the state that the lemmas speak of have their types.
LEMMA AtomTypes ==
    ASSUME TypeOK, NEW h \in Handles
    PROVE  /\ srv.sm.pend \in SUBSET Op /\ srv.sm.dur \in SUBSET Op
           /\ scope[h] \in 0 .. MaxScopes /\ scope[h] \in Nat /\ fate \in FateMap
  BY SrvParts DEF TypeOK, Sm, FateMap

\* A step that neither begins nor ends a level-0 transaction.
LEMMA AtomSame ==
    ASSUME AtomInv, HeldInv', NEW h \in Handles,
           scope' = scope, fate' = fate, held' = held,
           srv'.sm.dur = srv.sm.dur, srv'.sm.pend = srv.sm.pend \/ srv'.sm.pend = {},
           h \notin held \/ (db[h].incoh => db'[h].incoh)
    PROVE  AtomInv' /\ CommitStep
  <1> DEFINE i == db[h].incoh
             j == db'[h].incoh
             q == h \in held
  <1>1. AtomOK(h, srv.sm.pend, srv.sm.dur, scope[h], fate, q, i)  BY DEF AtomInv
  <1>2. ~q \/ (i => j)  OBVIOUS
  <1> HIDE DEF i, j, q
  <1>3. /\ AtomOK(h, srv.sm.pend, srv.sm.dur, scope[h], fate, q, j)
        /\ AtomOK(h, {}, srv.sm.dur, scope[h], fate, q, j)
    BY <1>1, <1>2, AtomKeep
  <1>4. AtomOK(h, srv'.sm.pend, srv'.sm.dur, scope'[h], fate', h \in held', db'[h].incoh)
    BY <1>3 DEF q, j
  <1>5. AtomInv'  BY <1>4, AtomCall
  <1> QED  BY <1>5 DEF CommitStep

\* What one handle is told is not told to another.
LEMMA ToldToOne ==
    ASSUME TypeOK, NEW h \in Handles, NEW m \in 0 .. MaxScopes, NEW t,
           fate' = [fate EXCEPT ![<<h, m>>] = t]
    PROVE  /\ fate'[<<h, m>>] = t
           /\ \A g \in Handles : g # h => fate'[<<g, scope[g]>>] = fate[<<g, scope[g]>>]
  BY DEF TypeOK

\* A handle that is alone and holds a level holds the only one.
LEMMA LevelOne ==
    ASSUME HeldInv, Certain, Alone, server = "serving", NEW h \in held
    PROVE  srv.be.trs = 1
  <1>1. held \subseteq Handles  BY DEF HeldInv, ServerInv, TypeOK
  <1>2. held = {h}  BY <1>1 DEF Alone
  <1>3. Cardinality({h}) = 1  BY FS_Singleton
  <1>4. srv.be.trs = Cardinality(held)  BY DEF HeldInv, LevelOK
  <1> QED  BY <1>2, <1>3, <1>4

\* A holder's level-0 commit, when it reaches the storage manager, stores
\* everything that is pending.
LEMMA AtomCommitted ==
    ASSUME AtomInv, HeldInv', Certain, server = "serving", NEW h \in held, h \in Handles,
           NEW n, n = srv.be.trs, n \in Nat, CommitOnClose \/ ~db[h].incoh,
           scope' = scope, held' = held \ {h},
           fate' = [fate EXCEPT ![<<h, scope[h]>>] = "committed"],
           \/ n > 1 /\ srv'.sm.dur = srv.sm.dur
           \/ n = 1 /\ srv'.sm.dur = srv.sm.dur \cup srv.sm.pend /\ srv'.sm.pend = {}
    PROVE  AtomInv' /\ CommitStep
  <1>0. TypeOK /\ HeldInv  BY DEF AtomInv, HeldInv, ServerInv
  <1>1. /\ srv.sm.pend \in SUBSET Op /\ srv.sm.dur \in SUBSET Op
        /\ scope[h] \in 0 .. MaxScopes /\ fate \in FateMap
    BY <1>0, AtomTypes
  <1>2. /\ fate'[<<h, scope[h]>>] = "committed"
        /\ \A g \in Handles : g # h => fate'[<<g, scope[g]>>] = fate[<<g, scope[g]>>]
    BY <1>0, <1>1, ToldToOne
  <1>3. AtomOK(h, srv.sm.pend, srv.sm.dur, scope[h], fate, h \in held, db[h].incoh)
    BY DEF AtomInv
  <1>4. fate[<<h, scope[h]>>] = "open"  BY <1>3 DEF AtomOK
  <1>5. CommitStep  BY <1>2, <1>4 DEF CommitStep
  <1>6. AtomOK(h, srv'.sm.pend, srv'.sm.dur, scope'[h], fate', h \in held', db'[h].incoh)
    <2> DEFINE i == db[h].incoh
               j == db'[h].incoh
               q == h \in held
               P == srv.sm.pend
               D == srv.sm.dur
               m == scope[h]
               f == fate
    <2>1. CASE Alone
      <3>1. n = 1  BY <1>0, <2>1, LevelOne
      <3>2. srv'.sm.dur = srv.sm.dur \cup srv.sm.pend /\ srv'.sm.pend = {}  BY <3>1
      <3>3. AtomOK(h, {}, D \cup P, m, Told(f, h, m, "committed"), FALSE, j)
        <4>1. q /\ MayStore(i)  BY DEF MayStore
        <4> HIDE DEF i, j, q, P, D, m, f
        <4>2. AtomOK(h, P, D, m, f, q, i)  BY <1>3 DEF i, q, P, D, m, f
        <4>3. P \in SUBSET Op /\ D \in SUBSET Op /\ m \in 0 .. MaxScopes /\ f \in FateMap
          BY <1>1 DEF P, D, m, f
        <4> QED  BY <4>1, <4>2, <4>3, AtomCommits
      <3>4. (h \in held') = FALSE  OBVIOUS
      <3> QED  BY <3>2, <3>3, <3>4 DEF Told
    <2>2. CASE ~Alone  BY <2>2 DEF AtomOK
    <2> QED  BY <2>1, <2>2
  <1>7. AtomInv'  BY <1>2, <1>6, AtomCall
  <1> QED  BY <1>5, <1>7

\* A holder's level-0 abort stores nothing, and forgets what is pending if no
\* other handle shares the transaction.
LEMMA AtomAborted ==
    ASSUME AtomInv, HeldInv', Certain, server = "serving", NEW h \in held, h \in Handles,
           NEW n, n = srv.be.trs, n \in Nat,
           scope' = scope, held' = held \ {h},
           fate' = [fate EXCEPT ![<<h, scope[h]>>] = "aborted"],
           srv'.sm.dur = srv.sm.dur, n > 1 \/ (n = 1 /\ srv'.sm.pend = {})
    PROVE  AtomInv' /\ CommitStep
  <1>0. TypeOK /\ HeldInv  BY DEF AtomInv, HeldInv, ServerInv
  <1>1. /\ srv.sm.pend \in SUBSET Op /\ srv.sm.dur \in SUBSET Op
        /\ scope[h] \in 0 .. MaxScopes /\ fate \in FateMap
    BY <1>0, AtomTypes
  <1>2. /\ fate'[<<h, scope[h]>>] = "aborted"
        /\ \A g \in Handles : g # h => fate'[<<g, scope[g]>>] = fate[<<g, scope[g]>>]
    BY <1>0, <1>1, ToldToOne
  <1>3. AtomOK(h, srv.sm.pend, srv.sm.dur, scope[h], fate, h \in held, db[h].incoh)
    BY DEF AtomInv
  <1>4. CommitStep  BY DEF CommitStep
  <1>5. AtomOK(h, srv'.sm.pend, srv'.sm.dur, scope'[h], fate', h \in held', db'[h].incoh)
    <2> DEFINE i == db[h].incoh
               j == db'[h].incoh
               q == h \in held
               P == srv.sm.pend
               D == srv.sm.dur
               m == scope[h]
               f == fate
    <2>1. CASE Alone
      <3>1. n = 1  BY <1>0, <2>1, LevelOne
      <3>2. srv'.sm.pend = {}  BY <3>1
      <3>3. AtomOK(h, {}, D, m, Told(f, h, m, "aborted"), FALSE, j)
        <4>1. q  OBVIOUS
        <4> HIDE DEF i, j, q, P, D, m, f
        <4>2. AtomOK(h, P, D, m, f, q, i)  BY <1>3 DEF i, q, P, D, m, f
        <4>3. P \in SUBSET Op /\ D \in SUBSET Op /\ m \in 0 .. MaxScopes /\ f \in FateMap
          BY <1>1 DEF P, D, m, f
        <4> QED  BY <4>1, <4>2, <4>3, AtomAborts
      <3>4. (h \in held') = FALSE  OBVIOUS
      <3> QED  BY <3>2, <3>3, <3>4 DEF Told
    <2>2. CASE ~Alone  BY <2>2 DEF AtomOK
    <2> QED  BY <2>1, <2>2
  <1>6. AtomInv'  BY <1>2, <1>5, AtomCall
  <1> QED  BY <1>4, <1>6

\* transactionBegin opens a level-0 transaction or changes nothing.
LEMMA AtomBeginStep ==
    ASSUME AtomInv, HeldInv', NEW h \in Handles, Begin(h)
    PROVE  AtomInv' /\ CommitStep
  <1> DEFINE k == Cardinality(OpenHandles)
             n == srv.be.trs
             P == srv.sm.pend
             D == srv.sm.dur
  <1>0. TypeOK /\ HeldInv /\ server = "serving" /\ db[h].dbh /\ scope[h] < MaxScopes
    BY DEF AtomInv, HeldInv, ServerInv, Begin, Usable
  <1>1. PICK r \in Cl!DbBegin(db[h], srv) :
          db' = [db EXCEPT ![h] = r.d] /\ srv' = r.l /\ NewScope(h, r.d)
    BY DEF Begin
  <1>2. db'[h] = r.d  BY <1>0, <1>1 DEF TypeOK
  <1>3. srv \in At(k, n, P, D) /\ db[h] \in Be!Database  BY <1>0, OpenAt
  <1>4. HandleOK(db[h], opens[h], h \in held)  BY DEF AtomInv, HeldInv
  <1>5. AtomOK(h, P, D, scope[h], fate, h \in held, db[h].incoh)  BY DEF AtomInv
  <1>6. D \in SUBSET Op /\ scope[h] \in Nat /\ scope[h] \in 0 .. MaxScopes /\ fate \in FateMap
    BY <1>0, AtomTypes
  <1>7. scope[h] + 1 \in 0 .. MaxScopes  BY <1>0, <1>6, ConstAssumption
  <1>8. BeginOutcome(r, db[h], srv, k, n, P, D)
    <2> HIDE DEF k, n, P, D
    <2> QED  BY <1>3, ClBeginAt
  <1>9. srv'.sm.pend = P /\ srv'.sm.dur = D
    <2> HIDE DEF k, n, P, D
    <2>1. r.l = srv \/ r.l \in At(k, n + 1, P, D) \/ r.l \in At(k, n, P, D)
      BY <1>8 DEF BeginOutcome
    <2> QED  BY <1>1, <1>3, <2>1 DEF At
  <1>10. CASE db[h].trs = 0 /\ r.d.trs > 0
    <2>1. /\ scope' = [scope EXCEPT ![h] = scope[h] + 1]
          /\ fate' = [fate EXCEPT ![<<h, scope[h] + 1>>] = "open"]
          /\ held' = held \cup {h}
      BY <1>1, <1>10 DEF NewScope
    <2>2. ~(h \in held)  BY <1>4, <1>10 DEF HandleOK
    <2>3. AtomOK(h, P, D, scope[h] + 1, Told(fate, h, scope[h] + 1, "open"), TRUE, db'[h].incoh)
      <3> DEFINE m == scope[h]
                 m1 == scope[h] + 1
                 i == db[h].incoh
                 j == db'[h].incoh
                 f == fate
      <3>0. (h \in held) = FALSE  BY <2>2
      <3>1. AtomOK(h, P, D, m, f, FALSE, i)  BY <1>5, <3>0
      <3>2. /\ m \in 0 .. MaxScopes /\ m1 \in 0 .. MaxScopes /\ m1 > m
            /\ D \in SUBSET Op /\ f \in FateMap
        BY <1>6, <1>7
      <3> HIDE DEF m, m1, i, j, f, P, D
      <3>3. AtomOK(h, P, D, m1, Told(f, h, m1, "open"), TRUE, j)  BY <3>1, <3>2, AtomBegin
      <3> QED  BY <3>3 DEF m1, j, f
    <2>4. scope'[h] = scope[h] + 1 /\ \A g \in Handles : g # h => scope'[g] = scope[g]
      BY <1>0, <2>1 DEF TypeOK
    <2>5. \A g \in Handles : g # h => fate'[<<g, scope[g]>>] = fate[<<g, scope[g]>>]
      BY <1>0, <1>7, <2>1, ToldToOne
    <2>6. (h \in held') = TRUE  BY <2>1
    <2>7. AtomOK(h, srv'.sm.pend, srv'.sm.dur, scope'[h], fate', h \in held', db'[h].incoh)
      BY <1>9, <2>1, <2>3, <2>4, <2>6 DEF Told
    <2>8. AtomInv'  BY <2>1, <2>4, <2>5, <2>7, AtomCall
    <2> QED  BY <1>9, <2>8 DEF CommitStep
  <1>11. CASE ~(db[h].trs = 0 /\ r.d.trs > 0)
    <2>1. scope' = scope /\ fate' = fate /\ held' = held  BY <1>1, <1>11 DEF NewScope
    <2>2. h \notin held \/ (db[h].incoh => r.d.incoh)
      <3> HIDE DEF k, n, P, D
      <3>1. CASE db[h].trs > 0  BY <1>8, <3>1 DEF BeginOutcome
      <3>2. CASE ~(db[h].trs > 0)  BY <1>4, <3>2 DEF HandleOK
      <3> QED  BY <3>1, <3>2
    <2> QED  BY <1>2, <1>9, <2>1, <2>2, AtomSame
  <1> QED  BY <1>10, <1>11

\* transactionCommit.
LEMMA AtomCommitStep ==
    ASSUME Owned, Certain, AtomInv, HeldInv', NEW h \in Handles, Commit(h)
    PROVE  AtomInv' /\ CommitStep
  <1> DEFINE k == Cardinality(OpenHandles)
             n == srv.be.trs
             P == srv.sm.pend
             D == srv.sm.dur
  <1>0. TypeOK /\ HeldInv /\ server = "serving" /\ db[h].dbh /\ scope' = scope
    BY DEF AtomInv, HeldInv, ServerInv, Commit, Usable
  <1>1. PICK r \in Cl!DbCommit(db[h], srv) :
          /\ db' = [db EXCEPT ![h] = r.d] /\ srv' = r.l
          /\ IF r.st = "Success" /\ db[h].trs = 1
             THEN Tell(h, "committed") /\ held' = held \ {h}
             ELSE fate' = fate /\ held' = held
    BY DEF Commit
  <1>2. db'[h] = r.d  BY <1>0, <1>1 DEF TypeOK
  <1>3. srv \in At(k, n, P, D) /\ db[h] \in Be!Database /\ n \in Nat  BY <1>0, OpenAt
  <1>4. CommitOutcome(r, db[h], srv, k, n, P, D)
    <2> HIDE DEF k, n, P, D
    <2> QED  BY <1>3, ClCommitAt
  <1>5. CASE r.st = "Success" /\ db[h].trs = 1
    <2>1. /\ db[h].cur /\ ~db[h].incoh
          /\ \/ n > 1 /\ r.l \in At(k, n - 1, P, D)
             \/ n = 1 /\ r.l \in At(k, 0, {}, D \cup P)
      <3> HIDE DEF k, n, P, D
      <3> QED  BY <1>3, <1>4, <1>5 DEF CommitOutcome
    <2>2. \/ n > 1 /\ srv'.sm.dur = D
          \/ n = 1 /\ srv'.sm.dur = D \cup P /\ srv'.sm.pend = {}
      <3> HIDE DEF k, n, P, D
      <3> QED  BY <1>1, <2>1 DEF At
    <2>3. n > 0  BY <1>3, <2>1
    <2>4. h \in held  BY <1>0, <2>1, <2>3, EndsHeld
    <2>5. held' = held \ {h} /\ fate' = [fate EXCEPT ![<<h, scope[h]>>] = "committed"]
      BY <1>1, <1>5 DEF Tell
    <2> QED  BY <1>0, <1>3, <2>1, <2>2, <2>4, <2>5, AtomCommitted
  <1>6. CASE ~(r.st = "Success" /\ db[h].trs = 1)
    <2>1. (r.d.incoh <=> db[h].incoh) /\ (r.l = srv \/ r.l \in At(k, n, P, D))
      <3> HIDE DEF k, n, P, D
      <3>1. CASE r.st = "Error"  BY <1>4, <3>1 DEF CommitOutcome
      <3>2. CASE r.st # "Error"  BY <1>4, <1>6, <3>2 DEF CommitOutcome
      <3> QED  BY <3>1, <3>2
    <2>2. srv'.sm.pend = P /\ srv'.sm.dur = D  BY <1>1, <1>3, <2>1 DEF At
    <2>3. fate' = fate /\ held' = held  BY <1>1, <1>6
    <2> QED  BY <1>0, <1>2, <2>1, <2>2, <2>3, AtomSame
  <1> QED  BY <1>5, <1>6

\* transactionAbort.
LEMMA AtomAbortStep ==
    ASSUME Owned, Certain, AtomInv, HeldInv', NEW h \in Handles, Abort(h)
    PROVE  AtomInv' /\ CommitStep
  <1> DEFINE k == Cardinality(OpenHandles)
             n == srv.be.trs
             P == srv.sm.pend
             D == srv.sm.dur
  <1>0. TypeOK /\ HeldInv /\ server = "serving" /\ db[h].dbh /\ scope' = scope
    BY DEF AtomInv, HeldInv, ServerInv, Abort, Usable
  <1>1. PICK r \in Cl!DbAbort(db[h], srv) :
          /\ db' = [db EXCEPT ![h] = r.d] /\ srv' = r.l
          /\ IF r.st = "Success" /\ db[h].trs = 1
             THEN Tell(h, "aborted") /\ held' = held \ {h}
             ELSE fate' = fate /\ held' = held
    BY DEF Abort
  <1>2. db'[h] = r.d  BY <1>0, <1>1 DEF TypeOK
  <1>3. srv \in At(k, n, P, D) /\ db[h] \in Be!Database /\ n \in Nat  BY <1>0, OpenAt
  <1>4. AbortOutcome(r, db[h], srv, k, n, P, D)
    <2> HIDE DEF k, n, P, D
    <2> QED  BY <1>3, ClAbortAt
  <1>5. CASE r.st = "Success" /\ db[h].trs = 1
    <2>1. /\ db[h].cur
          /\ \/ n > 1 /\ r.l \in At(k, n - 1, P, D)
             \/ n = 1 /\ r.l \in At(k, 0, {}, D)
      <3> HIDE DEF k, n, P, D
      <3> QED  BY <1>4, <1>5 DEF AbortOutcome
    <2>2. srv'.sm.dur = D /\ (n > 1 \/ (n = 1 /\ srv'.sm.pend = {}))
      <3> HIDE DEF k, n, P, D
      <3> QED  BY <1>1, <2>1 DEF At
    <2>3. n > 0  BY <1>3, <2>1
    <2>4. h \in held  BY <1>0, <2>1, <2>3, EndsHeld
    <2>5. held' = held \ {h} /\ fate' = [fate EXCEPT ![<<h, scope[h]>>] = "aborted"]
      BY <1>1, <1>5 DEF Tell
    <2> QED  BY <1>0, <1>3, <2>1, <2>2, <2>4, <2>5, AtomAborted
  <1>6. CASE ~(r.st = "Success" /\ db[h].trs = 1)
    <2>1. (r.d.incoh <=> db[h].incoh) /\ (r.l = srv \/ r.l \in At(k, n, P, D))
      <3> HIDE DEF k, n, P, D
      <3>1. CASE r.st = "Error"  BY <1>4, <3>1 DEF AbortOutcome
      <3>2. CASE r.st # "Error"  BY <1>4, <1>6, <3>2 DEF AbortOutcome
      <3> QED  BY <3>1, <3>2
    <2>2. srv'.sm.pend = P /\ srv'.sm.dur = D  BY <1>1, <1>3, <2>1 DEF At
    <2>3. fate' = fate /\ held' = held  BY <1>1, <1>6
    <2> QED  BY <1>0, <1>2, <2>1, <2>2, <2>3, AtomSame
  <1> QED  BY <1>5, <1>6

\* close(): a handle in a transaction that is not shared commits or aborts it,
\* and any other handle leaves what is stored alone.
LEMMA AtomCloseStep ==
    ASSUME Reliable, Owned, Certain, AtomInv, HeldInv', NEW h \in Handles, Close(h)
    PROVE  AtomInv' /\ CommitStep
  <1> DEFINE k == Cardinality(OpenHandles)
             n == srv.be.trs
             P == srv.sm.pend
             D == srv.sm.dur
             t == IF CommitOnClose THEN "committed" ELSE "aborted"
  <1>0. TypeOK /\ HeldInv /\ server = "serving" /\ db[h].dbh /\ scope' = scope
    BY DEF AtomInv, HeldInv, ServerInv, Close
  <1>1. PICK r \in Cl!DbClose(db[h], srv) :
          /\ db' = [db EXCEPT ![h] = r.d] /\ srv' = r.l
          /\ IF r.d.ref <= 0 /\ db[h].cur
             THEN (IF r.d.cur THEN Tell(h, t) ELSE fate' = fate) /\ held' = held \ {h}
             ELSE fate' = fate /\ held' = held
    BY DEF Close
  <1>2. db'[h] = r.d  BY <1>0, <1>1 DEF TypeOK
  <1>3. srv \in At(k, n, P, D) /\ db[h] \in Be!Database /\ n \in Nat  BY <1>0, OpenAt
  <1>4. HandleOK(db[h], opens[h], h \in held) /\ LevelOK(srv, Cardinality(held))
    BY <1>0 DEF HeldInv
  <1>5. CloseOutcome(r, db[h], srv, k, n, P, D)
    <2> HIDE DEF k, n, P, D
    <2> QED  BY <1>3, ClCloseAt
  <1>6. ASSUME NEW i, NEW Q, NEW E, r.l \in After(k, i, Q, E)
        PROVE  srv'.sm.dur = E /\ (srv'.sm.pend = Q \/ srv'.sm.pend = {})
    <2> HIDE DEF k, n, P, D
    <2> QED  BY <1>1, <1>6, AfterElim
  <1>7. CASE db[h].ref > 1
    <2>1. db[h].ref \in Int /\ r.d.ref = db[h].ref - 1  BY <1>3, <1>5 DEF CloseOutcome, Be!Database
    <2>2. ~(r.d.ref <= 0)  BY <1>7, <2>1
    <2>3. (r.d.incoh <=> db[h].incoh) /\ r.l = srv  BY <1>5, <1>7 DEF CloseOutcome
    <2>4. fate' = fate /\ held' = held  BY <1>1, <2>2
    <2> QED  BY <1>0, <1>1, <1>2, <2>3, <2>4, AtomSame
  <1>8. CASE ~(db[h].ref > 1)
    <2>1. db[h].ref \in Int /\ r.d.ref = db[h].ref - 1  BY <1>3, <1>5 DEF CloseOutcome, Be!Database
    <2>2. r.d.ref <= 0  BY <1>8, <2>1
    <2>3. CASE ~db[h].cur /\ r.l \in After(k, n, P, D)
      <3>1. srv'.sm.dur = D /\ (srv'.sm.pend = P \/ srv'.sm.pend = {})  BY <1>6, <2>3
      <3>2. fate' = fate /\ held' = held  BY <1>1, <2>3
      <3>3. h \notin held  BY <1>4, <2>3 DEF HandleOK
      <3> QED  BY <1>0, <3>1, <3>2, <3>3, AtomSame
    <2>4. CASE db[h].cur /\ ~r.d.cur /\ n = 0 /\ r.l \in After(k, n, P, D)
      <3>1. srv'.sm.dur = D /\ (srv'.sm.pend = P \/ srv'.sm.pend = {})  BY <1>6, <2>4
      <3>2. held = {}
        <4>1. Cardinality(held) = 0  BY <1>4, <2>4 DEF LevelOK
        <4> QED  BY <1>0, <4>1, HeldFinite, FS_EmptySet
      <3>3. fate' = fate /\ held' = held /\ h \notin held  BY <1>1, <2>2, <2>4, <3>2
      <3> QED  BY <1>0, <3>1, <3>3, AtomSame
    <2>5. CASE db[h].cur /\ r.d.cur /\ n > 0
      <3>1. h \in held  BY <1>0, <2>5, EndsHeld
      <3>2. held' = held \ {h} /\ fate' = [fate EXCEPT ![<<h, scope[h]>>] = t]
        BY <1>1, <2>2, <2>5 DEF Tell
      <3>3. \/ n > 1 /\ r.l \in After(k, n - 1, P, D)
            \/ n = 1 /\ CommitOnClose /\ r.l \in After(k, 0, {}, D \cup P)
            \/ n = 1 /\ ~CommitOnClose /\ r.l \in After(k, 0, {}, D)
        <4> HIDE DEF k, n, P, D
        <4> QED  BY <1>3, <1>5, <1>8, <2>5 DEF CloseOutcome
      <3>4. \/ n > 1 /\ srv'.sm.dur = D
            \/ n = 1 /\ CommitOnClose /\ srv'.sm.dur = D \cup P /\ srv'.sm.pend = {}
            \/ n = 1 /\ ~CommitOnClose /\ srv'.sm.dur = D /\ srv'.sm.pend = {}
        <4> HIDE DEF k, n, P, D
        <4> QED  BY <1>6, <3>3
      <3>5. CASE CommitOnClose
        <4>1. fate' = [fate EXCEPT ![<<h, scope[h]>>] = "committed"]  BY <3>2, <3>5
        <4>2. \/ n > 1 /\ srv'.sm.dur = D
              \/ n = 1 /\ srv'.sm.dur = D \cup P /\ srv'.sm.pend = {}
          BY <3>4, <3>5
        <4> QED  BY <1>0, <1>3, <3>1, <3>2, <3>5, <4>1, <4>2, AtomCommitted
      <3>6. CASE ~CommitOnClose
        <4>1. fate' = [fate EXCEPT ![<<h, scope[h]>>] = "aborted"]  BY <3>2, <3>6
        <4>2. srv'.sm.dur = D /\ (n > 1 \/ (n = 1 /\ srv'.sm.pend = {}))  BY <3>4, <3>6
        <4> QED  BY <1>0, <1>3, <3>1, <3>2, <4>1, <4>2, AtomAborted
      <3> QED  BY <3>5, <3>6
    <2> HIDE DEF k, n, P, D
    <2>6. \/ ~db[h].cur /\ r.l \in After(k, n, P, D)
          \/ db[h].cur /\ ~r.d.cur /\ n = 0 /\ r.l \in After(k, n, P, D)
          \/ db[h].cur /\ r.d.cur /\ n > 0
      BY <1>3, <1>5, <1>8 DEF CloseOutcome
    <2> QED  BY <2>3, <2>4, <2>5, <2>6
  <1> QED  BY <1>7, <1>8

\* open(): its internal transactions store nothing and leave none open.
LEMMA AtomOpenStep ==
    ASSUME Owned, Certain, AtomInv, HeldInv', NEW h \in Handles, Open(h)
    PROVE  AtomInv' /\ CommitStep
  <1>0. /\ TypeOK /\ HeldInv /\ server = "serving" /\ ~db[h].dbh /\ db[h] \in Be!Database
    BY DEF AtomInv, HeldInv, ServerInv, TypeOK, Open
  <1>1. PICK o \in SrvOpen(srv) :
          IF o.st = "Error" THEN srv' = o.l /\ UNCHANGED <<db, scope, fate, held>>
          ELSE \E r \in Cl!DbOpen(db[h], o.l) :
                 db' = [db EXCEPT ![h] = r.d] /\ srv' = r.l /\ NewScope(h, r.d)
    BY DEF Open
  <1>2. HandleOK(db[h], opens[h], h \in held)  BY <1>0 DEF HeldInv
  <1>3. h \notin held  BY <1>0, <1>2 DEF HandleOK
  <1>4. (~db[h].sch => db[h].trs = 0) /\ (db[h].cur => db[h].trs > 0)
    BY <1>2 DEF HandleOK, Owned
  <1>5. \/ o.st = "Error" /\ o.l = srv
        \/ /\ o.st = "Success"
           /\ \E k, n, P : /\ o.l \in At(k, n, P, o.l.sm.dur)
                           /\ P = srv.sm.pend /\ o.l.sm.dur = srv.sm.dur
    BY <1>0, ServerOpens
  <1>6. CASE o.st = "Error"
    <2>1. srv' = srv /\ scope' = scope /\ fate' = fate /\ held' = held  BY <1>1, <1>5, <1>6
    <2> QED  BY <1>3, <2>1, AtomSame
  <1>7. CASE o.st # "Error"
    <2>1. PICK r \in Cl!DbOpen(db[h], o.l) :
             db' = [db EXCEPT ![h] = r.d] /\ srv' = r.l /\ NewScope(h, r.d)
      BY <1>1, <1>7
    <2> DEFINE D == o.l.sm.dur
    <2>2. PICK k, n, P : o.l \in At(k, n, P, D) /\ P = srv.sm.pend /\ D = srv.sm.dur
      BY <1>5, <1>7
    <2> HIDE DEF D
    <2>3. OpenOutcome(r, db[h], o.l, k, n, P, D)  BY <1>0, <1>4, <2>2, ClOpenAt
    <2>4. r.l \in At(k, n, P, D)
      <3>1. CASE db[h].sch  BY <2>2, <2>3, <3>1 DEF OpenOutcome
      <3>2. CASE ~db[h].sch  BY <2>3, <3>2 DEF OpenOutcome
      <3> QED  BY <3>1, <3>2
    <2>5. ~(r.d.trs > 0 /\ db[h].trs = 0)
      <3>1. CASE db[h].sch
        <4>1. r.d.trs = db[h].trs  BY <2>3, <3>1 DEF OpenOutcome
        <4> QED  BY <4>1
      <3>2. CASE ~db[h].sch
        <4>1. r.d.trs = 0  BY <2>3, <3>2 DEF OpenOutcome
        <4> QED  BY <4>1
      <3> QED  BY <3>1, <3>2
    <2>6. scope' = scope /\ fate' = fate /\ held' = held  BY <2>1, <2>5 DEF NewScope
    <2>7. srv'.sm.pend = srv.sm.pend /\ srv'.sm.dur = srv.sm.dur  BY <2>1, <2>2, <2>4 DEF At
    <2> QED  BY <1>3, <2>6, <2>7, AtomSame
  <1> QED  BY <1>6, <1>7

\* A store by the open transaction of a holder.
LEMMA AtomStores ==
    ASSUME NEW h, NEW P, NEW D, NEW n, NEW f, NEW q, NEW i, NEW j, NEW w,
           AtomOK(h, P, D, n, f, q, i), q, i => j, ~w => j
    PROVE  AtomOK(h, P \cup {[h |-> h, n |-> n, whole |-> w]}, D, n, f, q, j)
  BY DEF AtomOK

\* A handle that is alone and stores in a transaction of the storage manager
\* holds its level, and knows of it.
LEMMA StoreHolds ==
    ASSUME HeldInv, Certain, Alone, server = "serving", NEW h \in Handles, db[h].dbh,
           srv.sm.cnt > 0
    PROVE  h \in held /\ db[h].cur
  <1>1. srv.be.trs \in Nat /\ srv.sm.cnt = IF srv.be.trs > 0 THEN 1 ELSE 0
    BY OpenAt, AtElim
  <1>2. srv.be.trs # 0  BY <1>1
  <1>3. srv.be.trs = Cardinality(held)  BY DEF HeldInv, LevelOK
  <1>4. held # {}  BY <1>2, <1>3, FS_EmptySet
  <1>5. held \subseteq Handles  BY DEF HeldInv, ServerInv, TypeOK
  <1>6. h \in held  BY <1>4, <1>5 DEF Alone
  <1>7. HandleOK(db[h], opens[h], h \in held)  BY DEF HeldInv
  <1> QED  BY <1>6, <1>7 DEF HandleOK

\* realize and remove: the operation is pending, and one that failed half-way
\* marks the transaction of its handle incoherent.
LEMMA AtomStoreStep ==
    ASSUME Certain, AtomInv, HeldInv', NEW h \in Handles, Store(h)
    PROVE  AtomInv' /\ CommitStep
  <1>0. /\ TypeOK /\ HeldInv /\ server = "serving" /\ db[h].dbh /\ db[h] \in Be!Database
        /\ scope' = scope /\ fate' = fate /\ held' = held /\ srv \in Srv
    BY DEF AtomInv, HeldInv, ServerInv, TypeOK, Store, Usable
  <1>1. CASE srv.sm.cnt > 0
    <2>1. PICK w \in BOOLEAN :
            /\ srv' = [srv EXCEPT !.sm.pend = @ \cup {[h |-> h, n |-> scope[h], whole |-> w]}]
            /\ db' = [db EXCEPT ![h].incoh = @ \/ (db[h].cur /\ ~w)]
      BY <1>1 DEF Store
    <2>2. /\ srv'.sm.pend = srv.sm.pend \cup {[h |-> h, n |-> scope[h], whole |-> w]}
          /\ srv'.sm.dur = srv.sm.dur
      BY <1>0, <2>1 DEF Srv, Sm
    <2>3. db'[h].incoh = (db[h].incoh \/ (db[h].cur /\ ~w))  BY <1>0, <2>1 DEF TypeOK, Be!Database
    <2>4. AtomOK(h, srv.sm.pend, srv.sm.dur, scope[h], fate, h \in held, db[h].incoh)
      BY DEF AtomInv
    <2>5. AtomOK(h, srv'.sm.pend, srv'.sm.dur, scope'[h], fate', h \in held', db'[h].incoh)
      <3>1. CASE Alone
        <4>1. h \in held /\ db[h].cur  BY <1>0, <1>1, <3>1, StoreHolds
        <4> DEFINE i == db[h].incoh
                   j == db'[h].incoh
                   q == h \in held
                   P == srv.sm.pend
                   D == srv.sm.dur
                   m == scope[h]
                   f == fate
        <4>2. q /\ (i => j) /\ (~w => j)  BY <2>3, <4>1
        <4>3. AtomOK(h, P, D, m, f, q, i)  BY <2>4
        <4> HIDE DEF i, j, q, P, D, m, f
        <4>4. AtomOK(h, P \cup {[h |-> h, n |-> m, whole |-> w]}, D, m, f, q, j)
          BY <4>2, <4>3, AtomStores
        <4> QED  BY <1>0, <2>2, <4>4 DEF j, q, P, D, m, f
      <3>2. CASE ~Alone  BY <1>0, <2>4, <3>2 DEF AtomOK
      <3> QED  BY <3>1, <3>2
    <2>6. AtomInv'  BY <1>0, <2>5, AtomCall
    <2> QED  BY <2>2, <2>6 DEF CommitStep
  <1>2. CASE ~(srv.sm.cnt > 0)
    <2>1. srv' = srv /\ db' = [db EXCEPT ![h].incoh = @ \/ db[h].cur]  BY <1>2 DEF Store
    <2>2. db'[h].incoh = (db[h].incoh \/ db[h].cur)  BY <1>0, <2>1 DEF TypeOK, Be!Database
    <2>3. db[h].incoh => db'[h].incoh  BY <2>2
    <2> QED  BY <1>0, <2>1, <2>3, AtomSame
  <1> QED  BY <1>1, <1>2

\* Sharing a handle and changing the schema store nothing.
LEMMA AtomOtherStep ==
    ASSUME AtomInv, HeldInv', NEW h \in Handles, OpenShared(h) \/ TouchSchema(h)
    PROVE  AtomInv' /\ CommitStep
  <1>0. /\ TypeOK /\ db[h] \in Be!Database /\ srv \in Srv
        /\ scope' = scope /\ fate' = fate /\ held' = held
    BY DEF AtomInv, HeldInv, ServerInv, TypeOK, OpenShared, TouchSchema
  <1>1. CASE OpenShared(h)
    <2>1. srv' = srv /\ db' = [db EXCEPT ![h].ref = @ + 1]  BY <1>1 DEF OpenShared
    <2>2. db'[h].incoh = db[h].incoh  BY <1>0, <2>1 DEF TypeOK, Be!Database
    <2> QED  BY <1>0, <2>1, <2>2, AtomSame
  <1>2. CASE TouchSchema(h)
    <2>1. srv' = [srv EXCEPT !.be.mod = TRUE] /\ db' = [db EXCEPT ![h].mod = TRUE]
      BY <1>2 DEF TouchSchema
    <2>2. db'[h].incoh = db[h].incoh  BY <1>0, <2>1 DEF TypeOK, Be!Database
    <2>3. srv'.sm = srv.sm  BY <1>0, <2>1 DEF Srv
    <2> QED  BY <1>0, <2>2, <2>3, AtomSame
  <1> QED  BY <1>1, <1>2

\* The server on its way out makes nothing durable.
LEMMA AtomQuitStep ==
    ASSUME AtomInv, HeldInv', ClientDies \/ Release \/ Killed \/ QuitStep \/ Gone
    PROVE  AtomInv' /\ CommitStep
  <1>1. /\ db' = db /\ scope' = scope /\ fate' = fate /\ held' = held
        /\ srv' = srv \/ (srv.be.dbh /\ \E q \in SrvAbort(srv) : srv' = q.l)
    BY DEF ClientDies, Release, Killed, QuitStep, Gone, vars
  <1>2. srv'.sm.dur = srv.sm.dur /\ (srv'.sm.pend = srv.sm.pend \/ srv'.sm.pend = {})
    <2>1. CASE srv' = srv  BY <2>1
    <2>2. CASE srv.be.dbh /\ \E q \in SrvAbort(srv) : srv' = q.l
      <3>0. HeldInv  BY DEF AtomInv
      <3>1. OpenHandles # {}  BY <2>2, <3>0 DEF HeldInv, ServerInv, ClosedSrv
      <3> DEFINE k == Cardinality(OpenHandles)
                 n == srv.be.trs
                 P == srv.sm.pend
                 D == srv.sm.dur
      <3>2. srv \in At(k, n, P, D)  BY <3>0, <3>1, AtIntro DEF HeldInv, ServerInv
      <3> HIDE DEF k, n, P, D
      <3>3. srv' \in At(k, n, P, D) \/ srv' \in At(k, n - 1, P, D) \/ srv' \in At(k, 0, {}, D)
        BY <2>2, <3>2, SrvAbortAt
      <3>4. srv'.sm.dur = D /\ (srv'.sm.pend = P \/ srv'.sm.pend = {})  BY <3>3 DEF At
      <3> QED  BY <3>4 DEF P, D
    <2> QED  BY <1>1, <2>1, <2>2
  <1>3. CASE Handles = {}  BY <1>2, <1>3 DEF AtomInv, CommitStep
  <1>4. CASE Handles # {}
    <2>1. PICK h \in Handles : TRUE  BY <1>4
    <2> QED  BY <1>1, <1>2, <2>1, AtomSame
  <1> QED  BY <1>3, <1>4

\* connection_handler drops what a lone handle had pending, and commits nothing.
LEMMA AtomCloseEntry ==
    ASSUME Reliable, AtomInv, HeldInv', NEW h \in Handles, CloseEntry(h)
    PROVE  AtomInv' /\ CommitStep
  <1>1. srv'.sm.dur = srv.sm.dur /\ (Alone => srv'.sm.pend = {})
    BY HeldCloseEntry DEF AtomInv, HeldInv
  <1>2. scope' = scope /\ fate' = fate /\ held' = held \ {h}  BY DEF CloseEntry
  <1>3. AtomOK(h, srv.sm.pend, srv.sm.dur, scope[h], fate, h \in held, db[h].incoh)
    BY DEF AtomInv
  <1>4. AtomOK(h, srv'.sm.pend, srv'.sm.dur, scope'[h], fate', h \in held', db'[h].incoh)
    BY <1>1, <1>2, <1>3 DEF AtomOK
  <1>5. AtomInv'  BY <1>2, <1>4, AtomCall
  <1> QED  BY <1>1, <1>5 DEF CommitStep

\* Initially nothing is stored and nobody holds a level.
LEMMA AtomInit == Init => AtomInv
  <1> SUFFICES ASSUME Init PROVE AtomInv  OBVIOUS
  <1>1. HeldInv  BY HeldInit
  <1>2. srv.sm.pend = {} /\ srv.sm.dur = {} /\ held = {}  BY DEF Init
  <1>3. ASSUME NEW h \in Handles
        PROVE  AtomOK(h, srv.sm.pend, srv.sm.dur, scope[h], fate, h \in held, db[h].incoh)
    BY <1>2 DEF AtomOK
  <1> QED  BY <1>1, <1>3 DEF AtomInv

\* Every step keeps the inductive invariant of atomicity, and makes something
\* durable only by telling a handle of its commit.
LEMMA AtomNext ==
    ASSUME Reliable, Owned, Certain, AtomInv, Next
    PROVE  AtomInv' /\ CommitStep
  <1>0. HeldInv'  BY HeldNext DEF AtomInv
  <1>1. ASSUME NEW h \in Handles, Open(h) PROVE AtomInv' /\ CommitStep
    BY <1>0, <1>1, AtomOpenStep
  <1>2. ASSUME NEW h \in Handles, Close(h) PROVE AtomInv' /\ CommitStep
    BY <1>0, <1>2, AtomCloseStep
  <1>3. ASSUME NEW h \in Handles, Begin(h) PROVE AtomInv' /\ CommitStep
    BY <1>0, <1>3, AtomBeginStep
  <1>4. ASSUME NEW h \in Handles, Commit(h) PROVE AtomInv' /\ CommitStep
    BY <1>0, <1>4, AtomCommitStep
  <1>5. ASSUME NEW h \in Handles, Abort(h) PROVE AtomInv' /\ CommitStep
    BY <1>0, <1>5, AtomAbortStep
  <1>6. ASSUME NEW h \in Handles, Store(h) PROVE AtomInv' /\ CommitStep
    BY <1>0, <1>6, AtomStoreStep
  <1>7. ASSUME NEW h \in Handles, OpenShared(h) \/ TouchSchema(h) PROVE AtomInv' /\ CommitStep
    BY <1>0, <1>7, AtomOtherStep
  <1>8. ASSUME ClientDies \/ Release \/ Killed \/ QuitStep \/ Gone PROVE AtomInv' /\ CommitStep
    BY <1>0, <1>8, AtomQuitStep
  <1>9. ASSUME NEW h \in Handles, CloseEntry(h) PROVE AtomInv' /\ CommitStep
    BY <1>0, <1>9, AtomCloseEntry
  <1> QED  BY <1>1, <1>2, <1>3, <1>4, <1>5, <1>6, <1>7, <1>8, <1>9 DEF Next

\* The inductive invariant of atomicity: what is pending was stored by the open
\* transaction of its holder, and what is durable was told to be.
THEOREM AtomInvariant == ASSUME Reliable, Owned, Certain PROVE Spec => []AtomInv
  <1>1. ASSUME AtomInv, HeldInv', UNCHANGED vars PROVE AtomInv'
    BY <1>1 DEF AtomInv, vars
  <1>2. AtomInv /\ HeldInv' /\ [Next]_vars => AtomInv'  BY <1>1, AtomNext
  <1> QED  BY AtomInit, <1>2, HeldInvariant, PTL DEF Spec

\* The server never makes anything durable on its own: not in the internal
\* transactions of open() and abort(), not in close() without a transaction,
\* and not when it loses its client.
THEOREM Stores == ASSUME Reliable, Certain, MaxOpens <= 1 \/ Alone
                  PROVE  Spec => OnlyCommitStores
  <1>1. Owned  BY DEF Owned
  <1>2. ASSUME UNCHANGED vars PROVE CommitStep  BY <1>2 DEF vars, CommitStep
  <1>3. AtomInv /\ [Next]_vars => [CommitStep]_vars  BY <1>1, <1>2, AtomNext
  <1>4. Spec => [][CommitStep]_vars  BY <1>1, <1>3, AtomInvariant, PTL DEF Spec
  <1> QED  BY <1>4 DEF OnlyCommitStores, CommitStep

\* Atomicity of commit for a handle that shares its server with no other: once
\* its level-0 commit has succeeded none of the transaction is still pending.
THEOREM Commits == ASSUME Reliable, Certain, Alone PROVE Spec => []CommittedDurable
  <1>1. AtomInv => CommittedDurable
    <2> SUFFICES ASSUME AtomInv, NEW o \in srv.sm.pend
                 PROVE  fate[<<o.h, o.n>>] # "committed"
      BY DEF CommittedDurable
    <2>1. TypeOK  BY DEF AtomInv, HeldInv, ServerInv
    <2>2. o.h \in Handles  BY <2>1, SrvParts DEF TypeOK, Sm, Op
    <2>3. AtomOK(o.h, srv.sm.pend, srv.sm.dur, scope[o.h], fate, o.h \in held, db[o.h].incoh)
      BY <2>2 DEF AtomInv
    <2> QED  BY <2>3 DEF AtomOK
  <1>2. Owned  BY DEF Owned
  <1> QED  BY <1>1, <1>2, AtomInvariant, PTL

\* Atomicity of abort for a handle that shares its server with no other: once
\* its level-0 abort has succeeded nothing of the transaction is stored or can
\* still be.
THEOREM Aborts == ASSUME Reliable, Certain, Alone PROVE Spec => []AbortedForgotten
  <1>1. AtomInv => AbortedForgotten
    <2> SUFFICES ASSUME AtomInv, NEW o \in srv.sm.pend \cup srv.sm.dur
                 PROVE  fate[<<o.h, o.n>>] # "aborted"
      BY DEF AbortedForgotten, Ops
    <2>1. TypeOK  BY DEF AtomInv, HeldInv, ServerInv
    <2>2. o.h \in Handles  BY <2>1, SrvParts DEF TypeOK, Sm, Op
    <2>3. AtomOK(o.h, srv.sm.pend, srv.sm.dur, scope[o.h], fate, o.h \in held, db[o.h].incoh)
      BY <2>2 DEF AtomInv
    <2>4. CASE o \in srv.sm.pend  BY <2>3, <2>4 DEF AtomOK
    <2>5. CASE o \in srv.sm.dur
      <3>1. Durable(o, o.h, scope[o.h], fate)  BY <2>3, <2>5 DEF AtomOK
      <3> QED  BY <3>1 DEF Durable
    <2> QED  BY <2>4, <2>5
  <1>2. Owned  BY DEF Owned
  <1> QED  BY <1>1, <1>2, AtomInvariant, PTL

\* A handle that shares its server with no other and does not commit on close
\* never makes a store that failed half-way durable.
THEOREM WholeOnly == ASSUME Reliable, Certain, Alone, ~CommitOnClose
                     PROVE  Spec => []NoIncoherentCommit
  <1>1. AtomInv => NoIncoherentCommit
    <2> SUFFICES ASSUME AtomInv, NEW o \in srv.sm.dur PROVE o.whole
      BY DEF NoIncoherentCommit
    <2>1. TypeOK  BY DEF AtomInv, HeldInv, ServerInv
    <2>2. o.h \in Handles  BY <2>1, SrvParts DEF TypeOK, Sm, Op
    <2>3. AtomOK(o.h, srv.sm.pend, srv.sm.dur, scope[o.h], fate, o.h \in held, db[o.h].incoh)
      BY <2>2 DEF AtomInv
    <2>4. Durable(o, o.h, scope[o.h], fate)  BY <2>3 DEF AtomOK
    <2> QED  BY <2>4 DEF Durable
  <1>2. Owned  BY DEF Owned
  <1> QED  BY <1>1, <1>2, AtomInvariant, PTL

=============================================================================
