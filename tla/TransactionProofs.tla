-------------------------- MODULE TransactionProofs --------------------------
(***************************************************************************)
(* Proofs about module Transaction: the type invariant for every value of  *)
(* the constants, and the agreement of the three layers (back-end          *)
(* Database, storage manager, reference count of the client handles).      *)
(*                                                                         *)
(* The calls of class Database are sets of outcomes.  Module               *)
(* DatabaseClassProofs says what an outcome can be over any lower layer;   *)
(* it is instantiated here as Transaction instantiates DatabaseClass.      *)
(***************************************************************************)
EXTENDS Transaction, FiniteSetTheorems, TLAPS

BeP == INSTANCE DatabaseClassProofs WITH
        LBegin <- SmBegin, LCommit <- SmCommit, LAbort <- SmAbort,
        LEnd <- SmAbort, LClose <- SmClose, LoadFails <- "load" \in Faults

ClP == INSTANCE DatabaseClassProofs WITH
        LBegin <- SrvBegin, LCommit <- SrvCommit, LAbort <- SrvAbort,
        LEnd <- SrvEnd, LClose <- SrvClose, LoadFails <- "load" \in Faults

\* The calls of the two instances are the same operators.
LEMMA BeSame ==
    /\ BeP!Database = Be!Database /\ BeP!NewDatabase = Be!NewDatabase
    /\ \A d, l : /\ BeP!DbBegin(d, l) = Be!DbBegin(d, l)
                 /\ BeP!DbCommit(d, l) = Be!DbCommit(d, l)
                 /\ BeP!DbAbort(d, l) = Be!DbAbort(d, l)
                 /\ BeP!DbOpen(d, l) = Be!DbOpen(d, l)
                 /\ BeP!DbClose(d, l) = Be!DbClose(d, l)
  <1>1. BeP!Database = Be!Database /\ BeP!NewDatabase = Be!NewDatabase
    BY DEF BeP!Database, Be!Database, BeP!NewDatabase, Be!NewDatabase
  <1> USE DEF BeP!Out, Be!Out, BeP!EndTrs, Be!EndTrs, BeP!NewTrs, Be!NewTrs
  <1>2. ASSUME NEW d, NEW l PROVE BeP!DbBegin(d, l) = Be!DbBegin(d, l)
    BY DEF BeP!DbBegin, Be!DbBegin
  <1>3. ASSUME NEW d, NEW l PROVE BeP!DbCommit(d, l) = Be!DbCommit(d, l)
    BY DEF BeP!DbCommit, Be!DbCommit, BeP!TrsCommit, Be!TrsCommit
  <1>4. ASSUME NEW d, NEW l PROVE BeP!DbAbort(d, l) = Be!DbAbort(d, l)
    BY DEF BeP!DbAbort, Be!DbAbort, BeP!TrsAbort, Be!TrsAbort,
           BeP!SchemaPurge, Be!SchemaPurge
  <1>5. ASSUME NEW d, NEW l PROVE BeP!DbOpen(d, l) = Be!DbOpen(d, l)
    BY DEF BeP!DbOpen, Be!DbOpen, BeP!Bracket, Be!Bracket, BeP!LoadSchema, Be!LoadSchema,
           BeP!OpenEpilogue, Be!OpenEpilogue, BeP!DbBegin, Be!DbBegin, BeP!DbCommit, Be!DbCommit,
           BeP!TrsCommit, Be!TrsCommit
  <1>6. ASSUME NEW d, NEW l PROVE BeP!DbClose(d, l) = Be!DbClose(d, l)
    BY DEF BeP!DbClose, Be!DbClose, BeP!EndOnClose, Be!EndOnClose
  <1> QED  BY <1>1, <1>2, <1>3, <1>4, <1>5, <1>6

\* The same for the client side.
LEMMA ClSame ==
    /\ ClP!Database = Be!Database
    /\ \A d, l : /\ ClP!DbBegin(d, l) = Cl!DbBegin(d, l)
                 /\ ClP!DbCommit(d, l) = Cl!DbCommit(d, l)
                 /\ ClP!DbAbort(d, l) = Cl!DbAbort(d, l)
                 /\ ClP!DbOpen(d, l) = Cl!DbOpen(d, l)
                 /\ ClP!DbClose(d, l) = Cl!DbClose(d, l)
  <1>1. ClP!Database = Be!Database
    BY DEF ClP!Database, Be!Database
  <1> USE DEF ClP!Out, Cl!Out, ClP!EndTrs, Cl!EndTrs, ClP!NewTrs, Cl!NewTrs
  <1>2. ASSUME NEW d, NEW l PROVE ClP!DbBegin(d, l) = Cl!DbBegin(d, l)
    BY DEF ClP!DbBegin, Cl!DbBegin
  <1>3. ASSUME NEW d, NEW l PROVE ClP!DbCommit(d, l) = Cl!DbCommit(d, l)
    BY DEF ClP!DbCommit, Cl!DbCommit, ClP!TrsCommit, Cl!TrsCommit
  <1>4. ASSUME NEW d, NEW l PROVE ClP!DbAbort(d, l) = Cl!DbAbort(d, l)
    BY DEF ClP!DbAbort, Cl!DbAbort, ClP!TrsAbort, Cl!TrsAbort,
           ClP!SchemaPurge, Cl!SchemaPurge
  <1>5. ASSUME NEW d, NEW l PROVE ClP!DbOpen(d, l) = Cl!DbOpen(d, l)
    BY DEF ClP!DbOpen, Cl!DbOpen, ClP!Bracket, Cl!Bracket, ClP!LoadSchema, Cl!LoadSchema,
           ClP!OpenEpilogue, Cl!OpenEpilogue, ClP!DbBegin, Cl!DbBegin, ClP!DbCommit, Cl!DbCommit,
           ClP!TrsCommit, Cl!TrsCommit
  <1>6. ASSUME NEW d, NEW l PROVE ClP!DbClose(d, l) = Cl!DbClose(d, l)
    BY DEF ClP!DbClose, Cl!DbClose, ClP!EndOnClose, Cl!EndOnClose
  <1> QED  BY <1>1, <1>2, <1>3, <1>4, <1>5, <1>6

-----------------------------------------------------------------------------
(* The storage manager.                                                    *)

\* A begin adds a level or fails without effect.
LEMMA SmBeginIs ==
    ASSUME NEW m \in Sm, NEW r \in SmBegin(m)
    PROVE  /\ r.st \in {"Success", "Error"} /\ r.l \in Sm /\ r.l.pend = m.pend
           /\ \/ r.st = "Success" /\ r.l.cnt = m.cnt + 1
              \/ r.st = "Error" /\ r.l = m
  <1>1. \/ r.st = "Success" /\ r.l = [m EXCEPT !.cnt = @ + 1]
        \/ r.st = "Error" /\ r.l = m
    BY DEF SmBegin, Fail
  <1>2. [m EXCEPT !.cnt = @ + 1] \in Sm
    BY DEF Sm
  <1>3. /\ [m EXCEPT !.cnt = @ + 1].cnt = m.cnt + 1
        /\ [m EXCEPT !.cnt = @ + 1].pend = m.pend
    BY DEF Sm
  <1>4. r.l \in Sm  BY <1>1, <1>2
  <1>5. r.st \in {"Success", "Error"}  BY <1>1
  <1> QED  BY <1>1, <1>3, <1>4, <1>5

\* A commit removes a level, the last one with everything pending, or fails.
LEMMA SmCommitIs ==
    ASSUME NEW m \in Sm, NEW r \in SmCommit(m)
    PROVE  /\ r.st \in {"Success", "Error"} /\ r.l \in Sm
           /\ \/ r.st = "Success" /\ m.cnt > 0 /\ r.l.cnt = m.cnt - 1
                 /\ (m.cnt = 1 => r.l.pend = {})
              \/ r.st = "Error" /\ r.l = m /\ (m.cnt = 0 \/ "commit" \in Faults)
  <1>0. m.cnt \in Nat  BY DEF Sm
  <1>1. \/ r.st = "Error" /\ r.l = m /\ (m.cnt = 0 \/ "commit" \in Faults)
        \/ r.st = "Success" /\ m.cnt > 1 /\ r.l = [m EXCEPT !.cnt = @ - 1]
        \/ r.st = "Success" /\ m.cnt # 0 /\ ~(m.cnt > 1) /\
             r.l = [cnt |-> 0, pend |-> {}, dur |-> m.dur \cup m.pend]
    <2>1. CASE m.cnt = 0  BY <2>1 DEF SmCommit
    <2>2. CASE m.cnt # 0
      <3>1. \/ r \in Fail("commit", m)
            \/ r = [st |-> "Success",
                    l  |-> IF m.cnt > 1 THEN [m EXCEPT !.cnt = @ - 1]
                           ELSE [cnt |-> 0, pend |-> {}, dur |-> m.dur \cup m.pend]]
        BY <2>2 DEF SmCommit
      <3>2. CASE r \in Fail("commit", m)  BY <3>2 DEF Fail
      <3>3. CASE r = [st |-> "Success",
                      l  |-> IF m.cnt > 1 THEN [m EXCEPT !.cnt = @ - 1]
                             ELSE [cnt |-> 0, pend |-> {}, dur |-> m.dur \cup m.pend]]
        BY <2>2, <3>3
      <3> QED  BY <3>1, <3>2, <3>3
    <2> QED  BY <2>1, <2>2
  <1>2. m.cnt > 1 => /\ [m EXCEPT !.cnt = @ - 1] \in Sm
                     /\ [m EXCEPT !.cnt = @ - 1].cnt = m.cnt - 1
    BY <1>0 DEF Sm
  <1>3. [cnt |-> 0, pend |-> {}, dur |-> m.dur \cup m.pend] \in Sm
    BY DEF Sm
  <1>4. r.l \in Sm  BY <1>1, <1>2, <1>3
  <1>5. r.st \in {"Success", "Error"}  BY <1>1
  <1>6. CASE r.st = "Success" /\ m.cnt > 1 /\ r.l = [m EXCEPT !.cnt = @ - 1]
    BY <1>0, <1>2, <1>4, <1>5, <1>6
  <1>7. CASE r.st = "Success" /\ m.cnt # 0 /\ ~(m.cnt > 1) /\
               r.l = [cnt |-> 0, pend |-> {}, dur |-> m.dur \cup m.pend]
    BY <1>0, <1>4, <1>5, <1>7
  <1> QED  BY <1>1, <1>4, <1>5, <1>6, <1>7

\* An abort removes a level and everything pending, or fails.
LEMMA SmAbortIs ==
    ASSUME NEW m \in Sm, NEW r \in SmAbort(m)
    PROVE  /\ r.st \in {"Success", "Error"} /\ r.l \in Sm
           /\ \/ r.st = "Success" /\ m.cnt > 0 /\ r.l.cnt = m.cnt - 1 /\ r.l.pend = {}
              \/ r.st = "Error" /\ r.l = m
  <1>0. m.cnt \in Nat  BY DEF Sm
  <1>1. \/ r.st = "Error" /\ r.l = m
        \/ r.st = "Success" /\ m.cnt > 0 /\
             r.l = [cnt |-> m.cnt - 1, pend |-> {}, dur |-> m.dur]
    BY <1>0 DEF SmAbort, Fail
  <1>2. m.cnt > 0 => [cnt |-> m.cnt - 1, pend |-> {}, dur |-> m.dur] \in Sm
    BY <1>0 DEF Sm
  <1>3. r.l \in Sm  BY <1>1, <1>2
  <1>4. r.st \in {"Success", "Error"}  BY <1>1
  <1> QED  BY <1>1, <1>3, <1>4

\* A close leaves no transaction; an open leaves the storage manager alone.
LEMMA SmCloseOpenIs ==
    ASSUME NEW m \in Sm
    PROVE  /\ \A r \in SmClose(m) :
                 /\ r.st \in {"Success", "Error"} /\ r.l \in Sm
                 /\ \/ r.st = "Success" /\ r.l.cnt = 0 /\ r.l.pend = {}
                    \/ r.st = "Error" /\ r.l = m /\ "close" \in Faults
           /\ \A r \in SmOpen(m) : r.st \in {"Success", "Error"} /\ r.l = m
  <1>1. ASSUME NEW r \in SmClose(m)
        PROVE  /\ r.st \in {"Success", "Error"} /\ r.l \in Sm
               /\ \/ r.st = "Success" /\ r.l.cnt = 0 /\ r.l.pend = {}
                  \/ r.st = "Error" /\ r.l = m /\ "close" \in Faults
    <2>1. \/ r.st = "Success" /\ r.l = [m EXCEPT !.cnt = 0, !.pend = {}]
          \/ r.st = "Error" /\ r.l = m /\ "close" \in Faults
      BY DEF SmClose, Fail
    <2>2. [m EXCEPT !.cnt = 0, !.pend = {}] \in Sm  BY DEF Sm
    <2>3. /\ [m EXCEPT !.cnt = 0, !.pend = {}].cnt = 0
          /\ [m EXCEPT !.cnt = 0, !.pend = {}].pend = {}
      BY DEF Sm
    <2>4. r.l \in Sm  BY <2>1, <2>2
    <2>5. r.st \in {"Success", "Error"}  BY <2>1
    <2> QED  BY <2>1, <2>3, <2>4, <2>5
  <1>2. ASSUME NEW r \in SmOpen(m) PROVE r.st \in {"Success", "Error"} /\ r.l = m
    BY DEF SmOpen, Fail
  <1> QED  BY <1>1, <1>2

-----------------------------------------------------------------------------
(* The server.                                                             *)

\* The storage manager's calls stay in Sm.
LEMMA SmClosed == BeP!LowerClosed(Sm)
  BY SmBeginIs, SmCommitIs, SmAbortIs DEF BeP!LowerClosed

\* What the RPC entry points make of an outcome of the back-end Database.
LEMMA ToSrvIs ==
    ASSUME NEW outs, NEW r \in ToSrv(outs)
    PROVE  \E x \in outs : r.st = x.st /\ r.l = [be |-> x.d, sm |-> x.l]
  BY DEF ToSrv

\* A server state is made of its back-end Database and storage manager.
LEMMA SrvFields ==
    ASSUME NEW s, NEW d \in Be!Database, NEW m \in Sm, s = [be |-> d, sm |-> m]
    PROVE  s \in Srv /\ s.be = d /\ s.sm = m
  BY DEF Srv

\* The parts of a server state are well typed.
LEMMA SrvParts ==
    ASSUME NEW s \in Srv
    PROVE  s.be \in Be!Database /\ s.sm \in Sm
  BY DEF Srv

\* Type correctness of the server's calls.
LEMMA SrvClosed == ClP!LowerClosed(Srv)
  <1>1. ASSUME NEW s \in Srv, NEW q \in SrvBegin(s) PROVE q.l \in Srv
    <2>1. PICK x \in Be!DbBegin(s.be, s.sm) : q.l = [be |-> x.d, sm |-> x.l]
      BY ToSrvIs DEF SrvBegin
    <2>2. x.d \in Be!Database /\ x.l \in Sm
      BY SrvParts, SmClosed, BeSame, BeP!BeginClosed
    <2> QED  BY <2>1, <2>2, SrvFields
  <1>2. ASSUME NEW s \in Srv, NEW q \in SrvCommit(s) PROVE q.l \in Srv
    <2>1. PICK x \in Be!DbCommit(s.be, s.sm) : q.l = [be |-> x.d, sm |-> x.l]
      BY ToSrvIs DEF SrvCommit
    <2>2. x.d \in Be!Database /\ x.l \in Sm
      BY SrvParts, SmClosed, BeSame, BeP!CommitClosed
    <2> QED  BY <2>1, <2>2, SrvFields
  <1>3. ASSUME NEW s \in Srv, NEW q \in SrvAbort(s) PROVE q.l \in Srv
    <2>1. PICK x \in Be!DbAbort(s.be, s.sm) : q.l = [be |-> x.d, sm |-> x.l]
      BY ToSrvIs DEF SrvAbort
    <2>2. x.d \in Be!Database /\ x.l \in Sm
      BY SrvParts, SmClosed, BeSame, BeP!AbortClosed
    <2> QED  BY <2>1, <2>2, SrvFields
  <1>4. ASSUME NEW s \in Srv, NEW q \in SrvEnd(s) PROVE q.l \in Srv
    BY <1>2, <1>3 DEF SrvEnd
  <1> QED  BY <1>1, <1>2, <1>3, <1>4 DEF ClP!LowerClosed

\* The constructor makes a well-typed Database.
LEMMA NewDatabaseType == Be!NewDatabase \in Be!Database
  BY DEF Be!NewDatabase, Be!Database

\* dbClose leaves a well-typed server.
LEMMA SrvCloseType ==
    ASSUME NEW s \in Srv, NEW q \in SrvClose(s)
    PROVE  q.l \in Srv
  <1>1. PICK x \in Be!DbClose(s.be, s.sm) : q.l = [be |-> x.d, sm |-> x.l]
    BY ToSrvIs DEF SrvClose
  <1>2. /\ x.d \in Be!Database
        /\ \/ x.l = s.sm
           \/ \E m \in Sm : \E c \in SmClose(m) : x.l = c.l
    BY SrvParts, SmClosed, BeSame, BeP!CloseClosed
  <1>3. x.l \in Sm  BY <1>2, SrvParts, SmCloseOpenIs
  <1> QED  BY <1>1, <1>2, <1>3, SrvFields

\* dbOpen shares the back-end Database, or opens a new one, or fails without
\* effect.
LEMMA SrvOpenIs ==
    ASSUME NEW s \in Srv, NEW o \in SrvOpen(s)
    PROVE  /\ o.st \in {"Success", "Error"}
           /\ \/ s.be.dbh /\ s.be.listed /\ o.st = "Success" /\ o.l = [s EXCEPT !.be.ref = @ + 1]
              \/ ~(s.be.dbh /\ s.be.listed) /\ o.st = "Error" /\ o.l = s
              \/ /\ ~(s.be.dbh /\ s.be.listed) /\ o.st = "Success"
                 /\ \E r \in Be!DbOpen(Be!NewDatabase, s.sm) :
                      r.st = "Success" /\ o.l = [be |-> r.d, sm |-> r.l]
  <1>1. CASE s.be.dbh /\ s.be.listed  BY <1>1 DEF SrvOpen
  <1>2. CASE ~(s.be.dbh /\ s.be.listed)
    <2>1. PICK p \in SmOpen(s.sm) :
            \/ o = [st |-> "Error", l |-> s]
            \/ \E r \in Be!DbOpen(Be!NewDatabase, p.l) :
                 r.st = "Success" /\ o = [st |-> "Success", l |-> [be |-> r.d, sm |-> r.l]]
      BY <1>2 DEF SrvOpen
    <2>2. p.l = s.sm  BY SrvParts, SmCloseOpenIs
    <2>3. CASE o = [st |-> "Error", l |-> s]
      <3>1. o.st = "Error" /\ o.l = s  BY <2>3
      <3> QED  BY <1>2, <3>1
    <2>4. ASSUME NEW r \in Be!DbOpen(Be!NewDatabase, p.l), r.st = "Success",
                 o = [st |-> "Success", l |-> [be |-> r.d, sm |-> r.l]]
          PROVE  o.st = "Success" /\ o.l = [be |-> r.d, sm |-> r.l]
      BY <2>4
    <2> QED  BY <1>2, <2>1, <2>2, <2>3, <2>4
  <1> QED  BY <1>1, <1>2

\* dbOpen leaves a well-typed server.
LEMMA SrvOpenType ==
    ASSUME NEW s \in Srv, NEW o \in SrvOpen(s)
    PROVE  o.l \in Srv
  <1>1. CASE o.l = [s EXCEPT !.be.ref = @ + 1]
    <2>1. s.be.ref + 1 \in Int  BY SrvParts DEF Be!Database
    <2>2. [s.be EXCEPT !.ref = s.be.ref + 1] \in Be!Database
      BY <2>1, SrvParts, BeSame, BeP!SetRef
    <2>3. o.l = [be |-> [s.be EXCEPT !.ref = s.be.ref + 1], sm |-> s.sm]
      BY <1>1 DEF Srv
    <2> QED  BY <2>2, <2>3, SrvParts, SrvFields
  <1>2. ASSUME NEW r \in Be!DbOpen(Be!NewDatabase, s.sm), o.l = [be |-> r.d, sm |-> r.l]
        PROVE  o.l \in Srv
    <2>1. r.d \in Be!Database /\ r.l \in Sm
      BY SrvParts, SmClosed, NewDatabaseType, BeSame, BeP!OpenClosed
    <2> QED  BY <1>2, <2>1, SrvFields
  <1> QED  BY <1>1, <1>2, SrvOpenIs

-----------------------------------------------------------------------------
(* Type correctness, for every value of the constants.                     *)

\* A step that calls class Database on the handle h.
LEMMA CallType ==
    ASSUME TypeOK, NEW h \in Handles, NEW d \in Be!Database, NEW s \in Srv,
           db' = [db EXCEPT ![h] = d], srv' = s
    PROVE  db' \in [Handles -> Be!Database] /\ srv' \in Srv
  BY DEF TypeOK

\* Beginning a level-0 scope keeps the history variables well typed.
LEMMA NewScopeType ==
    ASSUME TypeOK, NEW h \in Handles, NEW d, scope[h] < MaxScopes, NewScope(h, d)
    PROVE  /\ scope' \in [Handles -> 0 .. MaxScopes]
           /\ fate' \in [Handles \X (0 .. MaxScopes) -> Fates]
           /\ held' \subseteq Handles
  <1>0. MaxScopes \in Nat  BY ConstAssumption
  <1>1. CASE d.trs > 0 /\ db[h].trs = 0
    <2>1. scope[h] + 1 \in 0 .. MaxScopes  BY <1>0 DEF TypeOK
    <2>2. scope' = [scope EXCEPT ![h] = scope[h] + 1]  BY <1>1 DEF NewScope
    <2>3. scope' \in [Handles -> 0 .. MaxScopes]  BY <2>1, <2>2 DEF TypeOK
    <2>4. fate' = [fate EXCEPT ![<<h, scope[h] + 1>>] = "open"]  BY <1>1 DEF NewScope
    <2>5. fate' \in [Handles \X (0 .. MaxScopes) -> Fates]
      BY <2>4 DEF TypeOK, Fates
    <2>6. held' \subseteq Handles  BY <1>1 DEF NewScope, TypeOK
    <2> QED  BY <2>3, <2>5, <2>6
  <1>2. CASE ~(d.trs > 0 /\ db[h].trs = 0)
    BY <1>2 DEF NewScope, TypeOK
  <1> QED  BY <1>1, <1>2

\* Recording what a client was told keeps `fate' well typed.
LEMMA TellType ==
    ASSUME TypeOK, NEW h \in Handles, NEW f \in Fates, Tell(h, f)
    PROVE  fate' \in [Handles \X (0 .. MaxScopes) -> Fates]
  BY DEF TypeOK, Tell

\* A store adds one operation to the pending ones.
LEMMA PendType ==
    ASSUME NEW s \in Srv, NEW P, P \subseteq Op,
           NEW t, t = [s EXCEPT !.sm.pend = P]
    PROVE  t \in Srv /\ t.be = s.be /\ t.sm.cnt = s.sm.cnt /\ t.sm.pend = P
  <1>1. [s.sm EXCEPT !.pend = P] \in Sm  BY SrvParts DEF Sm
  <1>2. [s.sm EXCEPT !.pend = P].cnt = s.sm.cnt /\ [s.sm EXCEPT !.pend = P].pend = P
    BY SrvParts DEF Sm
  <1>3. t = [be |-> s.be, sm |-> [s.sm EXCEPT !.pend = P]]  BY DEF Srv
  <1> QED  BY <1>1, <1>2, <1>3, SrvParts, SrvFields

\* Marking the schema of the back end as modified changes nothing else.
LEMMA ModType ==
    ASSUME NEW s \in Srv, NEW t, t = [s EXCEPT !.be.mod = TRUE]
    PROVE  /\ t \in Srv /\ t.sm = s.sm
           /\ (t.be.dbh <=> s.be.dbh) /\ (t.be.listed <=> s.be.listed) /\ t.be.ref = s.be.ref
           /\ (t.be.cur <=> s.be.cur) /\ t.be.trs = s.be.trs
  <1> DEFINE d == [s.be EXCEPT !.mod = TRUE]
  <1>1. /\ d \in Be!Database
        /\ (d.dbh <=> s.be.dbh) /\ (d.listed <=> s.be.listed) /\ d.ref = s.be.ref
        /\ (d.cur <=> s.be.cur) /\ d.trs = s.be.trs
    BY SrvParts DEF Be!Database
  <1>2. t = [be |-> d, sm |-> s.sm]  BY DEF Srv
  <1> HIDE DEF d
  <1>3. t \in Srv /\ t.be = d /\ t.sm = s.sm  BY <1>1, <1>2, SrvParts, SrvFields
  <1> QED  BY <1>1, <1>3

\* The type invariant: holds initially and is kept by every step.
LEMMA TypeInit == Init => TypeOK
  <1> SUFFICES ASSUME Init PROVE TypeOK  OBVIOUS
  <1>0. MaxScopes \in Nat  BY ConstAssumption
  <1>1. db \in [Handles -> Be!Database]  BY NewDatabaseType DEF Init
  <1>2. [cnt |-> 0, pend |-> {}, dur |-> {}] \in Sm  BY DEF Sm
  <1>3. srv \in Srv  BY <1>2, NewDatabaseType, SrvFields DEF Init
  <1>4. /\ opens \in [Handles -> Nat] /\ scope \in [Handles -> 0 .. MaxScopes]
        /\ held \subseteq Handles /\ server \in ServerStates
    BY <1>0 DEF Init, ServerStates
  <1>5. fate \in [Handles \X (0 .. MaxScopes) -> Fates]  BY DEF Init, Fates
  <1> QED  BY <1>1, <1>3, <1>4, <1>5 DEF TypeOK

\* Every step keeps the types, whatever fails.
LEMMA TypeNext ==
    ASSUME TypeOK, Next
    PROVE  TypeOK'
  <1>0. srv \in Srv /\ (\A h \in Handles : db[h] \in Be!Database)  BY DEF TypeOK
  <1>1. ASSUME NEW h \in Handles, Open(h) PROVE TypeOK'
    <2>1. PICK o \in SrvOpen(srv) :
            IF o.st = "Error" THEN srv' = o.l /\ UNCHANGED <<db, scope, fate, held>>
            ELSE \E r \in Cl!DbOpen(db[h], o.l) :
                   /\ db' = [db EXCEPT ![h] = r.d]
                   /\ srv' = r.l
                   /\ NewScope(h, r.d)
      BY <1>1 DEF Open
    <2>2. o.l \in Srv  BY <1>0, SrvOpenType
    <2>3. opens' \in [Handles -> Nat] /\ server' = server /\ scope[h] < MaxScopes
      BY <1>1 DEF Open, TypeOK
    <2>4. CASE o.st = "Error"  BY <2>1, <2>2, <2>3, <2>4 DEF TypeOK
    <2>5. CASE o.st # "Error"
      <3>1. PICK r \in Cl!DbOpen(db[h], o.l) :
               db' = [db EXCEPT ![h] = r.d] /\ srv' = r.l /\ NewScope(h, r.d)
        BY <2>1, <2>5
      <3>2. r.d \in Be!Database /\ r.l \in Srv
        BY <1>0, <2>2, SrvClosed, ClSame, ClP!OpenClosed
      <3>3. db' \in [Handles -> Be!Database] /\ srv' \in Srv
        BY <3>1, <3>2, CallType
      <3> QED  BY <2>3, <3>1, <3>3, NewScopeType DEF TypeOK
    <2> QED  BY <2>4, <2>5
  <1>2. ASSUME NEW h \in Handles, OpenShared(h) PROVE TypeOK'
    <2>1. db[h].ref + 1 \in Int  BY <1>0 DEF Be!Database
    <2>2. db' = [db EXCEPT ![h] = [db[h] EXCEPT !.ref = db[h].ref + 1]]
      BY <1>2 DEF OpenShared
    <2>3. [db[h] EXCEPT !.ref = db[h].ref + 1] \in Be!Database
      BY <1>0, <2>1, BeSame, BeP!SetRef
    <2>4. db' \in [Handles -> Be!Database]  BY <2>2, <2>3 DEF TypeOK
    <2> QED  BY <1>2, <2>4 DEF OpenShared, TypeOK
  <1>3. ASSUME NEW h \in Handles, Close(h) PROVE TypeOK'
    <2>1. PICK r \in Cl!DbClose(db[h], srv) :
            /\ db' = [db EXCEPT ![h] = r.d] /\ srv' = r.l
            /\ \/ /\ Tell(h, IF CommitOnClose THEN "committed" ELSE "aborted")
                  /\ held' = held \ {h}
               \/ fate' = fate /\ (held' = held \ {h} \/ held' = held)
      BY <1>3 DEF Close
    <2>2. /\ r.d \in Be!Database
          /\ \/ r.l = srv
             \/ \E l2 \in Srv : \E c \in SrvClose(l2) : r.l = c.l
      BY <1>0, SrvClosed, ClSame, ClP!CloseClosed
    <2>3. r.l \in Srv  BY <1>0, <2>2, SrvCloseType
    <2>4. db' \in [Handles -> Be!Database] /\ srv' \in Srv
      BY <2>1, <2>2, <2>3, CallType
    <2>5. fate' \in [Handles \X (0 .. MaxScopes) -> Fates]
      <3>1. (IF CommitOnClose THEN "committed" ELSE "aborted") \in Fates  BY DEF Fates
      <3>2. CASE fate' = fate  BY <3>2 DEF TypeOK
      <3> QED  BY <2>1, <3>1, <3>2, TellType
    <2>6. held' \subseteq Handles  BY <2>1 DEF TypeOK
    <2> QED  BY <1>3, <2>4, <2>5, <2>6 DEF Close, TypeOK
  <1>4. ASSUME NEW h \in Handles, Begin(h) PROVE TypeOK'
    <2>1. PICK r \in Cl!DbBegin(db[h], srv) :
            db' = [db EXCEPT ![h] = r.d] /\ srv' = r.l /\ NewScope(h, r.d)
      BY <1>4 DEF Begin
    <2>2. r.d \in Be!Database /\ r.l \in Srv
      BY <1>0, SrvClosed, ClSame, ClP!BeginClosed
    <2>3. db' \in [Handles -> Be!Database] /\ srv' \in Srv
      BY <2>1, <2>2, CallType
    <2>4. scope[h] < MaxScopes  BY <1>4 DEF Begin
    <2> QED  BY <1>4, <2>1, <2>3, <2>4, NewScopeType DEF Begin, TypeOK
  <1>5. ASSUME NEW h \in Handles, Commit(h) PROVE TypeOK'
    <2>1. PICK r \in Cl!DbCommit(db[h], srv) :
            /\ db' = [db EXCEPT ![h] = r.d] /\ srv' = r.l
            /\ Tell(h, "committed") \/ fate' = fate
            /\ held' = held \ {h} \/ held' = held
      BY <1>5 DEF Commit
    <2>2. r.d \in Be!Database /\ r.l \in Srv
      BY <1>0, SrvClosed, ClSame, ClP!CommitClosed
    <2>3. db' \in [Handles -> Be!Database] /\ srv' \in Srv
      BY <2>1, <2>2, CallType
    <2>4. "committed" \in Fates  BY DEF Fates
    <2>5. fate' \in [Handles \X (0 .. MaxScopes) -> Fates]
      <3>1. CASE fate' = fate  BY <3>1 DEF TypeOK
      <3> QED  BY <2>1, <2>4, <3>1, TellType
    <2>6. held' \subseteq Handles  BY <2>1 DEF TypeOK
    <2> QED  BY <1>5, <2>3, <2>5, <2>6 DEF Commit, TypeOK
  <1>6. ASSUME NEW h \in Handles, Abort(h) PROVE TypeOK'
    <2>1. PICK r \in Cl!DbAbort(db[h], srv) :
            /\ db' = [db EXCEPT ![h] = r.d] /\ srv' = r.l
            /\ Tell(h, "aborted") \/ fate' = fate
            /\ held' = held \ {h} \/ held' = held
      BY <1>6 DEF Abort
    <2>2. r.d \in Be!Database /\ r.l \in Srv
      BY <1>0, SrvClosed, ClSame, ClP!AbortClosed
    <2>3. db' \in [Handles -> Be!Database] /\ srv' \in Srv
      BY <2>1, <2>2, CallType
    <2>4. "aborted" \in Fates  BY DEF Fates
    <2>5. fate' \in [Handles \X (0 .. MaxScopes) -> Fates]
      <3>1. CASE fate' = fate  BY <3>1 DEF TypeOK
      <3> QED  BY <2>1, <2>4, <3>1, TellType
    <2>6. held' \subseteq Handles  BY <2>1 DEF TypeOK
    <2> QED  BY <1>6, <2>3, <2>5, <2>6 DEF Abort, TypeOK
  <1>7. ASSUME NEW h \in Handles, Store(h) PROVE TypeOK'
    <2>1. PICK whole \in BOOLEAN :
            \/ /\ srv' = [srv EXCEPT !.sm.pend =
                            @ \cup {[h |-> h, n |-> scope[h], whole |-> whole]}]
               /\ db' = [db EXCEPT ![h].incoh = @ \/ (db[h].cur /\ ~whole)]
            \/ /\ db' = [db EXCEPT ![h].incoh = @ \/ db[h].cur]
               /\ srv' = srv
      BY <1>7 DEF Store
    <2>2. [h |-> h, n |-> scope[h], whole |-> whole] \in Op  BY DEF Op, TypeOK
    <2>3. srv.sm.pend \cup {[h |-> h, n |-> scope[h], whole |-> whole]} \subseteq Op
      BY <1>0, <2>2, SrvParts DEF Sm
    <2>4. srv' \in Srv  BY <1>0, <2>1, <2>3, PendType
    <2>5. ASSUME NEW x \in BOOLEAN, db' = [db EXCEPT ![h].incoh = x]
          PROVE  db' \in [Handles -> Be!Database]
      <3>1. [db[h] EXCEPT !.incoh = x] \in Be!Database  BY <1>0 DEF Be!Database
      <3>2. db' = [db EXCEPT ![h] = [db[h] EXCEPT !.incoh = x]]  BY <2>5
      <3> QED  BY <3>1, <3>2 DEF TypeOK
    <2>6. /\ (db[h].incoh \/ (db[h].cur /\ ~whole)) \in BOOLEAN
          /\ (db[h].incoh \/ db[h].cur) \in BOOLEAN
      OBVIOUS
    <2>7. db' \in [Handles -> Be!Database]  BY <2>1, <2>5, <2>6
    <2> QED  BY <1>7, <2>4, <2>7 DEF Store, TypeOK
  <1>8. ASSUME NEW h \in Handles, TouchSchema(h) PROVE TypeOK'
    <2>1. srv' \in Srv  BY <1>0, <1>8, ModType DEF TouchSchema
    <2>2. [db[h] EXCEPT !.mod = TRUE] \in Be!Database  BY <1>0 DEF Be!Database
    <2>3. db' = [db EXCEPT ![h] = [db[h] EXCEPT !.mod = TRUE]]  BY <1>8 DEF TouchSchema
    <2>4. db' \in [Handles -> Be!Database]  BY <2>2, <2>3 DEF TypeOK
    <2> QED  BY <1>8, <2>1, <2>4 DEF TouchSchema, TypeOK
  <1>9. ASSUME ClientDies \/ Release \/ Killed PROVE TypeOK'
    BY <1>9 DEF ClientDies, Release, Killed, TypeOK, ServerStates
  <1>10. ASSUME QuitStep PROVE TypeOK'
    <2>1. srv' = srv \/ \E r \in SrvAbort(srv) : srv' = r.l  BY <1>10 DEF QuitStep
    <2>2. srv' \in Srv  BY <1>0, <2>1, SrvClosed DEF ClP!LowerClosed
    <2>3. server' \in ServerStates  BY <1>10 DEF QuitStep, TypeOK, ServerStates
    <2> QED  BY <1>10, <2>2, <2>3 DEF QuitStep, TypeOK
  <1>11. ASSUME Gone PROVE TypeOK'
    BY <1>11 DEF Gone, vars, TypeOK
  <1>12. ASSUME NEW h \in Handles, CloseEntry(h) PROVE TypeOK'
    <2>1. srv' \in Srv  BY <1>0, <1>12, SrvCloseType DEF CloseEntry
    <2>2. [db[h] EXCEPT !.dbh = FALSE] \in Be!Database  BY <1>0 DEF Be!Database
    <2>3. db' = [db EXCEPT ![h] = [db[h] EXCEPT !.dbh = FALSE]]  BY <1>12 DEF CloseEntry
    <2>4. db' \in [Handles -> Be!Database]  BY <2>2, <2>3 DEF TypeOK
    <2>5. held' \subseteq Handles  BY <1>12 DEF CloseEntry, TypeOK
    <2> QED  BY <1>12, <2>1, <2>4, <2>5 DEF CloseEntry, TypeOK
  <1> QED
    BY <1>1, <1>2, <1>3, <1>4, <1>5, <1>6, <1>7, <1>8, <1>9, <1>10, <1>11, <1>12 DEF Next

\* Every variable keeps its type whatever fails: in particular trs_cnt of the
\* client and of the server, and the storage manager's count, stay naturals.
THEOREM TypeCorrect == Spec => []TypeOK
  <1>1. ASSUME TypeOK, UNCHANGED vars PROVE TypeOK'  BY <1>1 DEF vars, TypeOK
  <1>2. TypeOK /\ [Next]_vars => TypeOK'  BY <1>1, TypeNext
  <1> QED  BY TypeInit, <1>2, PTL DEF Spec
-----------------------------------------------------------------------------
(* The layers of the server agree, and its reference count is exact, as    *)
(* long as the storage manager can close a database and, where the schema  *)
(* may have to be purged, can commit (both statuses are ignored or leave   *)
(* the reference count decremented).                                       *)

Reliable ==
    /\ "close" \notin Faults
    /\ SchemaOps => "commit" \notin Faults

\* One storage-manager transaction exactly while the Database is in one.
Coherent(d, m) ==
    /\ d.cur <=> d.trs > 0
    /\ m.cnt = IF d.trs > 0 THEN 1 ELSE 0
    /\ m.cnt = 0 => m.pend = {}

PurgeSafe(d) == d.mod => "commit" \notin Faults

\* The server with an open back-end Database that has k references.
OpenSrv(k) ==
    {s \in Srv : /\ s.be.dbh /\ s.be.listed /\ s.be.ref = k
                 /\ Coherent(s.be, s.sm) /\ PurgeSafe(s.be)}

\* The server before the first open and after the last close.
ClosedSrv == {s \in Srv : ~s.be.dbh /\ s.sm.cnt = 0 /\ s.sm.pend = {}}

OpenHandles == {h \in Handles : db[h].dbh}

\* The inductive invariant.
ServerInv ==
    /\ TypeOK
    /\ OpenHandles = {} => srv \in ClosedSrv
    /\ OpenHandles # {} => srv \in OpenSrv(Cardinality(OpenHandles))

\* The transaction calls of the back-end Database keep it coherent.
LEMMA BeginCoherent ==
    ASSUME NEW d \in Be!Database, NEW m \in Sm, Coherent(d, m), NEW r \in Be!DbBegin(d, m)
    PROVE  Coherent(r.d, r.l) /\ r.l \in Sm
  <1>1. d.trs \in Nat /\ m.cnt \in Nat  BY DEF Be!Database, Sm
  <1>2. \/ d.trs > 0 /\ r.d.trs = d.trs + 1 /\ (r.d.cur <=> d.cur) /\ r.l = m
        \/ d.trs = 0 /\ r.d.trs = 1 /\ r.d.cur /\ \E q \in SmBegin(m) : q.st = "Success" /\ r.l = q.l
        \/ d.trs = 0 /\ r.d.trs = 0 /\ ~r.d.cur /\ \E q \in SmBegin(m) : q.st # "Success" /\ r.l = q.l
    BY BeSame, BeP!BeginIs
  <1>3. \/ d.trs > 0 /\ r.d.trs = d.trs + 1 /\ (r.d.cur <=> d.cur) /\ r.l = m
        \/ d.trs = 0 /\ r.d.trs = 1 /\ r.d.cur /\ r.l.cnt = m.cnt + 1
        \/ d.trs = 0 /\ r.d.trs = 0 /\ ~r.d.cur /\ r.l = m
    BY <1>2, SmBeginIs
  <1>4. r.l \in Sm  BY <1>2, SmBeginIs
  <1> QED  BY <1>1, <1>3, <1>4 DEF Coherent

\* A commit of the back end keeps it coherent with the storage manager.
LEMMA CommitCoherent ==
    ASSUME NEW d \in Be!Database, NEW m \in Sm, Coherent(d, m), NEW r \in Be!DbCommit(d, m)
    PROVE  Coherent(r.d, r.l) /\ r.l \in Sm
  <1>1. d.trs \in Nat /\ m.cnt \in Nat  BY DEF Be!Database, Sm
  <1>2. \/ r.d = d /\ r.l = m
        \/ r.d = d /\ \E q \in SmCommit(m) : q.st # "Success" /\ r.l = q.l
        \/ d.trs > 1 /\ r.d.trs = d.trs - 1 /\ (r.d.cur <=> d.cur) /\ r.l = m
        \/ /\ d.trs = 1 /\ r.d.trs = 0 /\ ~r.d.cur
           /\ \E q \in SmCommit(m) : q.st = "Success" /\ r.l = q.l
    BY BeSame, BeP!CommitIs
  <1>3. \/ r.d = d /\ r.l = m
        \/ d.trs > 1 /\ r.d.trs = d.trs - 1 /\ (r.d.cur <=> d.cur) /\ r.l = m
        \/ /\ d.trs = 1 /\ r.d.trs = 0 /\ ~r.d.cur
           /\ r.l.cnt = m.cnt - 1 /\ (m.cnt = 1 => r.l.pend = {})
    BY <1>2, SmCommitIs
  <1>4. r.l \in Sm  BY <1>2, SmCommitIs
  <1> QED  BY <1>1, <1>3, <1>4 DEF Coherent

\* The purge of the schema at the end of an abort leaves no transaction.
LEMMA PurgeCoherent ==
    ASSUME NEW d, PurgeSafe(d), NEW m \in Sm, m.cnt = 0, m.pend = {},
           NEW l \in BeP!SchemaPurge(d, m)
    PROVE  l \in Sm /\ l.cnt = 0 /\ l.pend = {}
  <1>1. CASE ~d.mod  BY <1>1 DEF BeP!SchemaPurge
  <1>2. CASE d.mod
    <2>1. PICK b \in SmBegin(m) : \E c \in SmCommit(b.l) : l = c.l
      BY <1>2 DEF BeP!SchemaPurge
    <2>2. PICK c \in SmCommit(b.l) : l = c.l
      BY <2>1
    <2>3. b.l \in Sm /\ b.l.pend = m.pend /\ (b.l.cnt = m.cnt + 1 \/ b.l = m)
      BY SmBeginIs
    <2>4. /\ c.l \in Sm
          /\ \/ b.l.cnt > 0 /\ c.l.cnt = b.l.cnt - 1 /\ (b.l.cnt = 1 => c.l.pend = {})
             \/ c.l = b.l /\ (b.l.cnt = 0 \/ "commit" \in Faults)
      BY <2>3, SmCommitIs
    <2>5. "commit" \notin Faults  BY <1>2 DEF PurgeSafe
    <2>6. CASE b.l.cnt = m.cnt + 1  BY <2>2, <2>4, <2>5, <2>6
    <2>7. CASE b.l = m  BY <2>2, <2>4, <2>5, <2>7
    <2> QED  BY <2>3, <2>6, <2>7
  <1> QED  BY <1>1, <1>2

\* So does an abort, if the purge that may follow it cannot half fail.
LEMMA AbortCoherent ==
    ASSUME NEW d \in Be!Database, NEW m \in Sm, Coherent(d, m), PurgeSafe(d),
           NEW r \in Be!DbAbort(d, m)
    PROVE  Coherent(r.d, r.l) /\ r.l \in Sm
  <1>1. d.trs \in Nat /\ m.cnt \in Nat  BY DEF Be!Database, Sm
  <1>2. \/ r.d = d /\ r.l = m
        \/ r.d = d /\ \E q \in SmAbort(m) : q.st = "Error" /\ r.l = q.l
        \/ d.trs > 1 /\ r.d.trs = d.trs - 1 /\ (r.d.cur <=> d.cur) /\ r.l = m
        \/ /\ d.trs = 1 /\ r.d.trs = 0 /\ ~r.d.cur
           /\ \E q \in SmAbort(m) : q.st # "Error" /\ r.l \in BeP!SchemaPurge(d, q.l)
    BY BeSame, BeP!AbortIs
  <1>3. ASSUME d.trs = 1, NEW q \in SmAbort(m), q.st # "Error", r.l \in BeP!SchemaPurge(d, q.l)
        PROVE  r.l \in Sm /\ r.l.cnt = 0 /\ r.l.pend = {}
    <2>1. m.cnt = 1  BY <1>3 DEF Coherent
    <2>2. q.l \in Sm /\ q.l.cnt = 0 /\ q.l.pend = {}  BY <1>3, <2>1, SmAbortIs
    <2> QED  BY <1>3, <2>2, PurgeCoherent
  <1>4. \/ r.d = d /\ r.l = m
        \/ d.trs > 1 /\ r.d.trs = d.trs - 1 /\ (r.d.cur <=> d.cur) /\ r.l = m
        \/ r.d.trs = 0 /\ ~r.d.cur /\ r.l \in Sm /\ r.l.cnt = 0 /\ r.l.pend = {}
    BY <1>2, <1>3, SmAbortIs
  <1> QED  BY <1>1, <1>4 DEF Coherent

\* So does a bracket of open().
LEMMA BracketCoherent ==
    ASSUME NEW d \in Be!Database, NEW m \in Sm, Coherent(d, m), NEW b \in BeP!Bracket(d, m)
    PROVE  Coherent(b.d, b.l) /\ b.d \in Be!Database /\ b.l \in Sm
  <1>1. PICK x \in Be!DbBegin(d, m) : \E c \in Be!DbCommit(x.d, x.l) : b.d = c.d /\ b.l = c.l
    BY BeSame, BeP!BracketIs
  <1>2. PICK c \in Be!DbCommit(x.d, x.l) : b.d = c.d /\ b.l = c.l  BY <1>1
  <1>3. x.d \in Be!Database  BY BeSame, BeP!BeginIs
  <1>4. x.l \in Sm /\ Coherent(x.d, x.l)  BY BeginCoherent
  <1>5. c.d \in Be!Database  BY <1>3, BeSame, BeP!CommitIs
  <1>6. c.l \in Sm /\ Coherent(c.d, c.l)  BY <1>3, <1>4, CommitCoherent
  <1> QED  BY <1>2, <1>5, <1>6

\* So does open() as a whole.
LEMMA OpenCoherent ==
    ASSUME NEW d \in Be!Database, NEW m \in Sm, Coherent(d, m), NEW r \in Be!DbOpen(d, m)
    PROVE  Coherent(r.d, r.l)
  <1>1. PICK e \in Be!Database :
          /\ e.trs = d.trs /\ (e.cur <=> d.cur)
          /\ \/ r.d = e /\ r.l = m
             \/ \E b \in BeP!Bracket(e, m) :
                  \/ r.d = b.d /\ r.l = b.l
                  \/ \E f \in Be!Database :
                       /\ f.trs = b.d.trs /\ (f.cur <=> b.d.cur)
                       /\ \E b2 \in BeP!Bracket(f, b.l) : r.d = b2.d /\ r.l = b2.l
    BY BeSame, BeP!OpenIs
  <1>2. Coherent(e, m)  BY <1>1 DEF Coherent
  <1>3. ASSUME NEW b \in BeP!Bracket(e, m)
        PROVE  Coherent(b.d, b.l) /\ b.d \in Be!Database /\ b.l \in Sm
    BY <1>2, BracketCoherent
  <1>4. ASSUME NEW b \in BeP!Bracket(e, m), NEW f \in Be!Database,
               f.trs = b.d.trs, f.cur <=> b.d.cur, NEW b2 \in BeP!Bracket(f, b.l)
        PROVE  Coherent(b2.d, b2.l)
    <2>1. Coherent(f, b.l)  BY <1>3, <1>4 DEF Coherent
    <2> QED  BY <1>3, <2>1, BracketCoherent
  <1> QED  BY <1>1, <1>2, <1>3, <1>4

\* What makes a server one that is open for k handles.
LEMMA OpenSrvIntro ==
    ASSUME NEW k, NEW d \in Be!Database, NEW m \in Sm, NEW s, s = [be |-> d, sm |-> m],
           d.dbh, d.listed, d.ref = k, Coherent(d, m), PurgeSafe(d)
    PROVE  s \in OpenSrv(k)
  BY SrvFields DEF OpenSrv

\* What is known of a server that is open for k handles.
LEMMA OpenSrvElim ==
    ASSUME NEW k, NEW s \in OpenSrv(k)
    PROVE  /\ s \in Srv /\ s.be \in Be!Database /\ s.sm \in Sm
           /\ s.be.dbh /\ s.be.listed /\ s.be.ref = k
           /\ Coherent(s.be, s.sm) /\ PurgeSafe(s.be)
  BY SrvParts DEF OpenSrv

\* No transaction call of a client can bring the layers apart.
LEMMA OpenSrvClosed == ASSUME NEW k PROVE ClP!LowerClosed(OpenSrv(k))
  <1>1. ASSUME NEW s \in OpenSrv(k), NEW q \in SrvBegin(s) PROVE q.l \in OpenSrv(k)
    <2>1. PICK x \in Be!DbBegin(s.be, s.sm) : q.l = [be |-> x.d, sm |-> x.l]
      BY ToSrvIs DEF SrvBegin
    <2>2. Coherent(x.d, x.l) /\ x.l \in Sm  BY OpenSrvElim, BeginCoherent
    <2>3. x.d \in Be!Database /\ BeP!SameOpen(x.d, s.be) /\ (x.d.mod <=> s.be.mod)
      BY OpenSrvElim, BeSame, BeP!BeginIs
    <2>4. x.d.dbh /\ x.d.listed /\ x.d.ref = k /\ PurgeSafe(x.d)
      BY <2>3, OpenSrvElim DEF BeP!SameOpen, PurgeSafe
    <2> QED  BY <2>1, <2>2, <2>3, <2>4, OpenSrvIntro
  <1>2. ASSUME NEW s \in OpenSrv(k), NEW q \in SrvCommit(s) PROVE q.l \in OpenSrv(k)
    <2>1. PICK x \in Be!DbCommit(s.be, s.sm) : q.l = [be |-> x.d, sm |-> x.l]
      BY ToSrvIs DEF SrvCommit
    <2>2. Coherent(x.d, x.l) /\ x.l \in Sm  BY OpenSrvElim, CommitCoherent
    <2>3. x.d \in Be!Database /\ BeP!SameOpen(x.d, s.be) /\ (x.d.mod <=> s.be.mod)
      BY OpenSrvElim, BeSame, BeP!CommitIs
    <2>4. x.d.dbh /\ x.d.listed /\ x.d.ref = k /\ PurgeSafe(x.d)
      BY <2>3, OpenSrvElim DEF BeP!SameOpen, PurgeSafe
    <2> QED  BY <2>1, <2>2, <2>3, <2>4, OpenSrvIntro
  <1>3. ASSUME NEW s \in OpenSrv(k), NEW q \in SrvAbort(s) PROVE q.l \in OpenSrv(k)
    <2>1. PICK x \in Be!DbAbort(s.be, s.sm) : q.l = [be |-> x.d, sm |-> x.l]
      BY ToSrvIs DEF SrvAbort
    <2>2. Coherent(x.d, x.l) /\ x.l \in Sm  BY OpenSrvElim, AbortCoherent
    <2>3. x.d \in Be!Database /\ BeP!SameOpen(x.d, s.be) /\ (x.d.mod => s.be.mod)
      BY OpenSrvElim, BeSame, BeP!AbortIs
    <2>4. x.d.dbh /\ x.d.listed /\ x.d.ref = k /\ PurgeSafe(x.d)
      BY <2>3, OpenSrvElim DEF BeP!SameOpen, PurgeSafe
    <2> QED  BY <2>1, <2>2, <2>3, <2>4, OpenSrvIntro
  <1>4. ASSUME NEW s \in OpenSrv(k), NEW q \in SrvEnd(s) PROVE q.l \in OpenSrv(k)
    BY <1>2, <1>3 DEF SrvEnd
  <1> QED  BY <1>1, <1>2, <1>3, <1>4 DEF ClP!LowerClosed

\* dbClose gives one reference back; the last one closes the database.
LEMMA SrvCloseIs ==
    ASSUME Reliable, NEW k, NEW s \in OpenSrv(k), NEW q \in SrvClose(s)
    PROVE  /\ q.st = "Success"
           /\ \/ k > 1 /\ q.l \in OpenSrv(k - 1)
              \/ ~(k > 1) /\ q.l \in ClosedSrv
  <1>1. PICK x \in Be!DbClose(s.be, s.sm) : q.st = x.st /\ q.l = [be |-> x.d, sm |-> x.l]
    BY ToSrvIs DEF SrvClose
  <1>2. /\ s.be \in Be!Database /\ s.sm \in Sm /\ s.be.ref = k
        /\ s.be.dbh /\ s.be.listed /\ Coherent(s.be, s.sm) /\ PurgeSafe(s.be)
    BY OpenSrvElim
  <1>3. /\ x.d \in Be!Database /\ (x.d.mod <=> s.be.mod) /\ x.d.ref = k - 1
        /\ x.d.trs = s.be.trs
    BY <1>2, BeSame, BeP!CloseIs
  <1>4. CASE k > 1
    <2>1. /\ x.st = "Success" /\ x.l = s.sm
          /\ (x.d.dbh <=> s.be.dbh) /\ (x.d.listed <=> s.be.listed) /\ (x.d.cur <=> s.be.cur)
      BY <1>2, <1>4, BeSame, BeP!CloseIs
    <2>2. Coherent(x.d, x.l) /\ PurgeSafe(x.d)
      BY <1>2, <1>3, <2>1 DEF Coherent, PurgeSafe
    <2>3. q.l \in OpenSrv(k - 1)  BY <1>1, <1>2, <1>3, <2>1, <2>2, OpenSrvIntro
    <2> QED  BY <1>1, <1>4, <2>1, <2>3
  <1>5. CASE ~(k > 1)
    <2>1. \E d1 \in Be!Database : \E e \in BeP!EndOnClose(d1, s.sm) : \E c \in SmClose(e.l) :
            /\ x.l = c.l
            /\ \/ x.st = "Success" /\ ~x.d.dbh
               \/ c.st # "Success"
      BY <1>2, <1>5, BeSame, BeP!CloseIs
    <2>2. PICK d1 \in Be!Database : \E e \in BeP!EndOnClose(d1, s.sm) : \E c \in SmClose(e.l) :
            /\ x.l = c.l
            /\ \/ x.st = "Success" /\ ~x.d.dbh
               \/ c.st # "Success"
      BY <2>1
    <2>3. PICK e \in BeP!EndOnClose(d1, s.sm) : \E c \in SmClose(e.l) :
            /\ x.l = c.l
            /\ \/ x.st = "Success" /\ ~x.d.dbh
               \/ c.st # "Success"
      BY <2>2
    <2>4. e.l = s.sm \/ \E p \in SmAbort(s.sm) : e.l = p.l
      BY BeSame, BeP!EndOnCloseIs
    <2>5. e.l \in Sm  BY <1>2, <2>4, SmAbortIs
    <2>6. x.l \in Sm /\ x.l.cnt = 0 /\ x.l.pend = {} /\ x.st = "Success" /\ ~x.d.dbh
      BY <2>3, <2>5, SmCloseOpenIs DEF Reliable
    <2>7. q.l \in ClosedSrv  BY <1>1, <1>3, <2>6, SrvFields DEF ClosedSrv
    <2> QED  BY <1>1, <1>5, <2>6, <2>7
  <1> QED  BY <1>4, <1>5

\* dbOpen adds one reference, or opens the database with the first one.
LEMMA SrvOpenCoherent ==
    ASSUME NEW s \in Srv, NEW o \in SrvOpen(s)
    PROVE  /\ \A k \in Nat : s \in OpenSrv(k) => o.st = "Success" /\ o.l \in OpenSrv(k + 1)
           /\ s \in ClosedSrv => \/ o.st = "Error" /\ o.l = s
                                 \/ o.st = "Success" /\ o.l \in OpenSrv(1)
  <1>1. ASSUME NEW k \in Nat, s \in OpenSrv(k)
        PROVE  o.st = "Success" /\ o.l \in OpenSrv(k + 1)
    <2> DEFINE d == [s.be EXCEPT !.ref = k + 1]
    <2>1. /\ s.be \in Be!Database /\ s.sm \in Sm /\ s.be.ref = k
          /\ s.be.dbh /\ s.be.listed /\ Coherent(s.be, s.sm) /\ PurgeSafe(s.be)
      BY <1>1, OpenSrvElim
    <2>2. o.st = "Success" /\ o.l = [s EXCEPT !.be.ref = @ + 1]
      BY <2>1, SrvOpenIs
    <2>3. o.l = [be |-> d, sm |-> s.sm]
      <3>1. s = [be |-> s.be, sm |-> s.sm]  BY DEF Srv
      <3> QED  BY <2>1, <2>2, <3>1
    <2>4. k + 1 \in Int  OBVIOUS
    <2>5. /\ d \in Be!Database /\ (d.dbh <=> s.be.dbh) /\ (d.listed <=> s.be.listed)
          /\ d.ref = k + 1 /\ (d.mod <=> s.be.mod) /\ d.trs = s.be.trs /\ (d.cur <=> s.be.cur)
      BY <2>1, <2>4, BeSame, BeP!SetRef
    <2> HIDE DEF d
    <2>6. Coherent(d, s.sm) /\ PurgeSafe(d)  BY <2>1, <2>5 DEF Coherent, PurgeSafe
    <2> QED  BY <2>1, <2>2, <2>3, <2>5, <2>6, OpenSrvIntro
  <1>2. ASSUME s \in ClosedSrv
        PROVE  \/ o.st = "Error" /\ o.l = s
               \/ o.st = "Success" /\ o.l \in OpenSrv(1)
    <2>1. ~s.be.dbh /\ s.sm \in Sm /\ s.sm.cnt = 0 /\ s.sm.pend = {}
      BY <1>2, SrvParts DEF ClosedSrv
    <2>2. Be!NewDatabase \in Be!Database /\ Coherent(Be!NewDatabase, s.sm)
      <3>1. Be!NewDatabase.trs = 0 /\ ~Be!NewDatabase.cur  BY DEF Be!NewDatabase
      <3> QED  BY <2>1, <3>1, NewDatabaseType DEF Coherent
    <2>3. ~Be!NewDatabase.sch /\ ~Be!NewDatabase.mod  BY DEF Be!NewDatabase
    <2>4. ASSUME NEW r \in Be!DbOpen(Be!NewDatabase, s.sm), r.st = "Success",
                 o.l = [be |-> r.d, sm |-> r.l]
          PROVE  o.l \in OpenSrv(1)
      <3>1. /\ r.d \in Be!Database /\ r.d.dbh /\ (r.d.mod <=> Be!NewDatabase.mod)
            /\ r.d.listed /\ r.d.ref = 1
        BY <2>2, <2>3, <2>4, BeSame, BeP!OpenFields
      <3>2. r.l \in Sm  BY <2>1, <2>2, SmClosed, BeSame, BeP!OpenClosed
      <3>3. Coherent(r.d, r.l)  BY <2>1, <2>2, OpenCoherent
      <3>4. PurgeSafe(r.d)  BY <2>3, <3>1 DEF PurgeSafe
      <3> QED  BY <2>4, <3>1, <3>2, <3>3, <3>4, OpenSrvIntro
    <2>5. \/ o.st = "Error" /\ o.l = s
          \/ /\ o.st = "Success"
             /\ \E r \in Be!DbOpen(Be!NewDatabase, s.sm) :
                  r.st = "Success" /\ o.l = [be |-> r.d, sm |-> r.l]
      <3>1. ~(s.be.dbh /\ s.be.listed)  BY <2>1
      <3> QED  BY <3>1, SrvOpenIs, ZenonT(30)
    <2> QED  BY <2>4, <2>5
  <1> QED  BY <1>1, <1>2

\* The number of open client handles.
LEMMA OpenHandlesFinite == IsFiniteSet(OpenHandles) /\ Cardinality(OpenHandles) \in Nat
  <1>1. IsFiniteSet(Handles)  BY ConstAssumption
  <1>2. OpenHandles \subseteq Handles  BY DEF OpenHandles
  <1>3. IsFiniteSet(OpenHandles)  BY <1>1, <1>2, FS_Subset
  <1> QED  BY <1>3, FS_CardinalityType

\* A step that changes the Database record of one handle.
LEMMA OpenHandlesStep ==
    ASSUME TypeOK, NEW h \in Handles, NEW d, db' = [db EXCEPT ![h] = d]
    PROVE  /\ (d.dbh <=> db[h].dbh) => OpenHandles' = OpenHandles
           /\ (d.dbh /\ ~db[h].dbh) =>
                 OpenHandles' = OpenHandles \cup {h} /\ h \notin OpenHandles
           /\ (~d.dbh /\ db[h].dbh) =>
                 OpenHandles' = OpenHandles \ {h} /\ h \in OpenHandles
  <1>1. db'[h] = d /\ \A g \in Handles : g # h => db'[g] = db[g]  BY DEF TypeOK
  <1> QED  BY <1>1 DEF OpenHandles

\* Initially no handle is open and the server is closed.
LEMMA ServerInvInit == Init => ServerInv
  <1> SUFFICES ASSUME Init PROVE ServerInv  OBVIOUS
  <1>1. TypeOK  BY TypeInit
  <1>2. ~Be!NewDatabase.dbh  BY DEF Be!NewDatabase
  <1>3. OpenHandles = {}  BY <1>2 DEF OpenHandles, Init
  <1>4. srv.be = Be!NewDatabase /\ srv.sm.cnt = 0 /\ srv.sm.pend = {}  BY DEF Init
  <1>5. srv \in ClosedSrv  BY <1>1, <1>2, <1>4 DEF ClosedSrv, TypeOK
  <1> QED  BY <1>1, <1>3, <1>5 DEF ServerInv

\* A handle that is open has the server's Database open.
LEMMA HandleOpen ==
    ASSUME ServerInv, NEW h \in Handles, db[h].dbh
    PROVE  h \in OpenHandles /\ srv \in OpenSrv(Cardinality(OpenHandles))
  BY DEF ServerInv, OpenHandles

\* Every step keeps the inductive invariant of the server.
LEMMA ServerInvNext ==
    ASSUME Reliable, ServerInv, Next
    PROVE  ServerInv'
  <1> DEFINE k == Cardinality(OpenHandles)
  <1>0. TypeOK /\ TypeOK'  BY TypeNext DEF ServerInv
  <1>a. srv \in Srv /\ (\A h \in Handles : db[h] \in Be!Database)  BY <1>0 DEF TypeOK
  <1>k. IsFiniteSet(OpenHandles) /\ k \in Nat  BY OpenHandlesFinite
  <1> HIDE DEF k
  <1>b. ASSUME OpenHandles' = OpenHandles, srv' \in OpenSrv(k), OpenHandles # {}
        PROVE  ServerInv'
    BY <1>0, <1>b DEF ServerInv, k
  <1>c. ASSUME NEW h \in OpenHandles, OpenHandles' = OpenHandles \ {h},
               NEW l2 \in OpenSrv(k), NEW c \in SrvClose(l2), srv' = c.l
        PROVE  ServerInv'
    <2>1. \/ k > 1 /\ c.l \in OpenSrv(k - 1)
          \/ ~(k > 1) /\ c.l \in ClosedSrv
      BY SrvCloseIs
    <2>2. IsFiniteSet(OpenHandles \ {h}) /\ Cardinality(OpenHandles \ {h}) = k - 1
      BY <1>k, FS_RemoveElement DEF k
    <2>3. OpenHandles \ {h} = {} <=> k - 1 = 0
      BY <2>2, FS_EmptySet
    <2>4. CASE k > 1
      <3>1. OpenHandles' # {} /\ srv' \in OpenSrv(Cardinality(OpenHandles'))
        BY <1>k, <1>c, <2>1, <2>2, <2>3, <2>4
      <3> QED  BY <1>0, <3>1 DEF ServerInv
    <2>5. CASE ~(k > 1)
      <3>0. k # 0  BY <1>k, FS_EmptySet DEF k
      <3>1. k - 1 = 0  BY <1>k, <2>5, <3>0
      <3>2. OpenHandles' = {} /\ srv' \in ClosedSrv
        BY <1>c, <2>1, <2>3, <2>5, <3>1
      <3> QED  BY <1>0, <3>2 DEF ServerInv
    <2> QED  BY <2>4, <2>5
  <1>1. ASSUME NEW h \in Handles, Open(h) PROVE ServerInv'
    <2>0. ~db[h].dbh  BY <1>1 DEF Open
    <2>1. PICK o \in SrvOpen(srv) :
            IF o.st = "Error" THEN srv' = o.l /\ UNCHANGED <<db, scope, fate, held>>
            ELSE \E r \in Cl!DbOpen(db[h], o.l) : db' = [db EXCEPT ![h] = r.d] /\ srv' = r.l
      BY <1>1 DEF Open
    <2>2. /\ OpenHandles # {} => o.st = "Success" /\ o.l \in OpenSrv(k + 1)
          /\ OpenHandles = {} => \/ o.st = "Error" /\ o.l = srv
                                 \/ o.st = "Success" /\ o.l \in OpenSrv(1)
      BY <1>a, <1>k, SrvOpenCoherent DEF ServerInv, k
    <2>3. OpenHandles = {} => k = 0  BY FS_EmptySet DEF k
    <2>4. CASE o.st = "Error"
      <3>1. srv' = srv /\ db' = db /\ OpenHandles = {}  BY <2>1, <2>2, <2>4
      <3>2. OpenHandles' = OpenHandles  BY <3>1 DEF OpenHandles
      <3> QED  BY <1>0, <3>1, <3>2 DEF ServerInv
    <2>5. CASE o.st # "Error"
      <3>1. PICK r \in Cl!DbOpen(db[h], o.l) : db' = [db EXCEPT ![h] = r.d] /\ srv' = r.l
        BY <2>1, <2>5
      <3>2. o.l \in OpenSrv(k + 1)  BY <2>2, <2>3, <2>5
      <3>3. r.l \in OpenSrv(k + 1)
        BY <1>a, <3>2, OpenSrvClosed, ClSame, ClP!OpenClosed
      <3>4. r.d.dbh  BY <1>a, ClSame, ClP!OpenFields
      <3>5. OpenHandles' = OpenHandles \cup {h} /\ h \notin OpenHandles
        BY <1>0, <2>0, <3>1, <3>4, OpenHandlesStep
      <3>6. Cardinality(OpenHandles \cup {h}) = k + 1
        BY <1>k, <3>5, FS_AddElement DEF k
      <3>7. OpenHandles' # {} /\ srv' \in OpenSrv(Cardinality(OpenHandles'))
        BY <3>1, <3>3, <3>5, <3>6
      <3> QED  BY <1>0, <3>7 DEF ServerInv
    <2> QED  BY <2>4, <2>5
  <1>2. ASSUME NEW h \in Handles, OpenShared(h) PROVE ServerInv'
    <2>1. db[h].ref + 1 \in Int  BY <1>a DEF Be!Database
    <2>2. db' = [db EXCEPT ![h] = [db[h] EXCEPT !.ref = db[h].ref + 1]] /\ srv' = srv
      BY <1>2 DEF OpenShared
    <2>3. [db[h] EXCEPT !.ref = db[h].ref + 1].dbh <=> db[h].dbh
      BY <1>a, <2>1, BeSame, BeP!SetRef
    <2>4. OpenHandles' = OpenHandles  BY <1>0, <2>2, <2>3, OpenHandlesStep
    <2> QED  BY <1>0, <2>2, <2>4 DEF ServerInv
  <1>3. ASSUME NEW h \in Handles, Close(h) PROVE ServerInv'
    <2>1. PICK r \in Cl!DbClose(db[h], srv) : db' = [db EXCEPT ![h] = r.d] /\ srv' = r.l
      BY <1>3 DEF Close
    <2>2. db[h].dbh  BY <1>3 DEF Close
    <2>3. h \in OpenHandles /\ srv \in OpenSrv(k)  BY <2>2, HandleOpen DEF k
    <2>4. \/ r.l = srv /\ (r.d.dbh <=> db[h].dbh)
          \/ \E l2 \in OpenSrv(k) : \E c \in SrvClose(l2) :
               r.l = c.l /\ (c.st = "Success" => ~r.d.dbh)
      BY <1>a, <2>3, OpenSrvClosed, ClSame, ClP!CloseClosed
    <2>5. CASE r.l = srv /\ (r.d.dbh <=> db[h].dbh)
      <3>1. OpenHandles' = OpenHandles  BY <1>0, <2>1, <2>5, OpenHandlesStep
      <3> QED  BY <1>b, <2>1, <2>3, <2>5, <3>1
    <2>6. ASSUME NEW l2 \in OpenSrv(k), NEW c \in SrvClose(l2),
                 r.l = c.l, c.st = "Success" => ~r.d.dbh
          PROVE  ServerInv'
      <3>1. c.st = "Success"  BY SrvCloseIs
      <3>2. OpenHandles' = OpenHandles \ {h}
        BY <1>0, <2>1, <2>2, <2>6, <3>1, OpenHandlesStep
      <3> QED  BY <1>c, <2>1, <2>3, <2>6, <3>2
    <2> QED  BY <2>4, <2>5, <2>6
  <1>4. ASSUME NEW h \in Handles, Begin(h) PROVE ServerInv'
    <2>1. PICK r \in Cl!DbBegin(db[h], srv) : db' = [db EXCEPT ![h] = r.d] /\ srv' = r.l
      BY <1>4 DEF Begin
    <2>2. h \in OpenHandles /\ srv \in OpenSrv(k)  BY <1>4, HandleOpen DEF Begin, Usable, k
    <2>3. r.l \in OpenSrv(k)  BY <1>a, <2>2, OpenSrvClosed, ClSame, ClP!BeginClosed
    <2>4. r.d.dbh <=> db[h].dbh  BY <1>a, ClSame, ClP!BeginIs DEF ClP!SameOpen
    <2>5. OpenHandles' = OpenHandles  BY <1>0, <2>1, <2>4, OpenHandlesStep
    <2> QED  BY <1>b, <2>1, <2>2, <2>3, <2>5
  <1>5. ASSUME NEW h \in Handles, Commit(h) PROVE ServerInv'
    <2>1. PICK r \in Cl!DbCommit(db[h], srv) : db' = [db EXCEPT ![h] = r.d] /\ srv' = r.l
      BY <1>5 DEF Commit
    <2>2. h \in OpenHandles /\ srv \in OpenSrv(k)  BY <1>5, HandleOpen DEF Commit, Usable, k
    <2>3. r.l \in OpenSrv(k)  BY <1>a, <2>2, OpenSrvClosed, ClSame, ClP!CommitClosed
    <2>4. r.d.dbh <=> db[h].dbh  BY <1>a, ClSame, ClP!CommitIs DEF ClP!SameOpen
    <2>5. OpenHandles' = OpenHandles  BY <1>0, <2>1, <2>4, OpenHandlesStep
    <2> QED  BY <1>b, <2>1, <2>2, <2>3, <2>5
  <1>6. ASSUME NEW h \in Handles, Abort(h) PROVE ServerInv'
    <2>1. PICK r \in Cl!DbAbort(db[h], srv) : db' = [db EXCEPT ![h] = r.d] /\ srv' = r.l
      BY <1>6 DEF Abort
    <2>2. h \in OpenHandles /\ srv \in OpenSrv(k)  BY <1>6, HandleOpen DEF Abort, Usable, k
    <2>3. r.l \in OpenSrv(k)  BY <1>a, <2>2, OpenSrvClosed, ClSame, ClP!AbortClosed
    <2>4. r.d.dbh <=> db[h].dbh  BY <1>a, ClSame, ClP!AbortIs DEF ClP!SameOpen
    <2>5. OpenHandles' = OpenHandles  BY <1>0, <2>1, <2>4, OpenHandlesStep
    <2> QED  BY <1>b, <2>1, <2>2, <2>3, <2>5
  <1>7. ASSUME NEW h \in Handles, Store(h) PROVE ServerInv'
    <2>1. PICK whole \in BOOLEAN :
            \/ /\ srv' = [srv EXCEPT !.sm.pend =
                            @ \cup {[h |-> h, n |-> scope[h], whole |-> whole]}]
               /\ srv.sm.cnt > 0
            \/ srv' = srv
      BY <1>7 DEF Store
    <2>2. \E x : db' = [db EXCEPT ![h] = [db[h] EXCEPT !.incoh = x]]
      <3>1. \E x : db' = [db EXCEPT ![h].incoh = x]  BY <1>7 DEF Store
      <3> QED  BY <3>1
    <2>3. \A x : [db[h] EXCEPT !.incoh = x].dbh <=> db[h].dbh  BY <1>a DEF Be!Database
    <2>4. OpenHandles' = OpenHandles  BY <1>0, <2>2, <2>3, OpenHandlesStep
    <2>5. h \in OpenHandles /\ srv \in OpenSrv(k)  BY <1>7, HandleOpen DEF Store, Usable, k
    <2>6. CASE srv' = srv  BY <1>b, <2>4, <2>5, <2>6
    <2>7. ASSUME srv' = [srv EXCEPT !.sm.pend =
                            @ \cup {[h |-> h, n |-> scope[h], whole |-> whole]}],
                 srv.sm.cnt > 0
          PROVE  ServerInv'
      <3> DEFINE P == srv.sm.pend \cup {[h |-> h, n |-> scope[h], whole |-> whole]}
      <3>1. [h |-> h, n |-> scope[h], whole |-> whole] \in Op  BY <1>0 DEF Op, TypeOK
      <3>2. P \subseteq Op  BY <1>a, <3>1, SrvParts DEF Sm
      <3>3. srv' \in Srv /\ srv'.be = srv.be /\ srv'.sm.cnt = srv.sm.cnt
        <4>1. srv' = [srv EXCEPT !.sm.pend = P]  BY <2>7
        <4> HIDE DEF P
        <4>2. srv' \in Srv  BY <1>0 DEF TypeOK
        <4>3. srv'.be = srv.be  BY <1>a, <4>1 DEF Srv
        <4>4. srv'.sm = [srv.sm EXCEPT !.pend = P]  BY <1>a, <4>1 DEF Srv
        <4>5. srv'.sm.cnt = srv.sm.cnt  BY <1>a, <4>4, SrvParts DEF Sm
        <4> QED  BY <4>2, <4>3, <4>5
      <3>4. srv'.sm.cnt # 0  BY <1>a, <2>7, <3>3, SrvParts DEF Sm
      <3>5. Coherent(srv'.be, srv'.sm)
        <4>1. Coherent(srv.be, srv.sm)  BY <2>5, OpenSrvElim
        <4> QED  BY <3>3, <3>4, <4>1 DEF Coherent
      <3>6. srv' \in OpenSrv(k)  BY <2>5, <3>3, <3>5, OpenSrvElim DEF OpenSrv
      <3> QED  BY <1>b, <2>4, <2>5, <3>6
    <2> QED  BY <2>1, <2>6, <2>7
  <1>8. ASSUME NEW h \in Handles, TouchSchema(h) PROVE ServerInv'
    <2>1. h \in OpenHandles /\ srv \in OpenSrv(k)
      BY <1>8, HandleOpen DEF TouchSchema, Usable, k
    <2>2. /\ srv' \in Srv /\ srv'.sm = srv.sm
          /\ (srv'.be.dbh <=> srv.be.dbh) /\ (srv'.be.listed <=> srv.be.listed)
          /\ srv'.be.ref = srv.be.ref
          /\ (srv'.be.cur <=> srv.be.cur) /\ srv'.be.trs = srv.be.trs
      BY <1>8, <1>a, ModType DEF TouchSchema
    <2>3. PurgeSafe(srv'.be)  BY <1>8 DEF TouchSchema, Reliable, PurgeSafe
    <2>4. Coherent(srv'.be, srv'.sm)  BY <2>1, <2>2, OpenSrvElim DEF Coherent
    <2>5. srv' \in OpenSrv(k)  BY <2>1, <2>2, <2>3, <2>4, OpenSrvElim DEF OpenSrv
    <2>6. db' = [db EXCEPT ![h] = [db[h] EXCEPT !.mod = TRUE]]  BY <1>8 DEF TouchSchema
    <2>7. [db[h] EXCEPT !.mod = TRUE].dbh <=> db[h].dbh  BY <1>a DEF Be!Database
    <2>8. OpenHandles' = OpenHandles  BY <1>0, <2>6, <2>7, OpenHandlesStep
    <2> QED  BY <1>b, <2>1, <2>5, <2>8
  <1>9. ASSUME ClientDies \/ Release \/ Killed \/ Gone PROVE ServerInv'
    <2>1. db' = db /\ srv' = srv  BY <1>9 DEF ClientDies, Release, Killed, Gone, vars
    <2>2. OpenHandles' = OpenHandles  BY <2>1 DEF OpenHandles
    <2> QED  BY <1>0, <2>1, <2>2 DEF ServerInv
  <1>10. ASSUME QuitStep PROVE ServerInv'
    <2>1. /\ db' = db
          /\ srv' = srv \/ (srv.be.dbh /\ \E r \in SrvAbort(srv) : srv' = r.l)
      BY <1>10 DEF QuitStep
    <2>2. OpenHandles' = OpenHandles  BY <2>1 DEF OpenHandles
    <2>3. CASE srv' = srv  BY <1>0, <2>2, <2>3 DEF ServerInv
    <2>4. CASE srv.be.dbh /\ \E r \in SrvAbort(srv) : srv' = r.l
      <3>1. OpenHandles # {}  BY <2>4 DEF ServerInv, ClosedSrv
      <3>2. srv \in OpenSrv(k)  BY <3>1 DEF ServerInv, k
      <3>3. srv' \in OpenSrv(k)  BY <2>4, <3>2, OpenSrvClosed DEF ClP!LowerClosed
      <3> QED  BY <1>b, <2>2, <3>1, <3>3
    <2> QED  BY <2>1, <2>3, <2>4
  <1>11. ASSUME NEW h \in Handles, CloseEntry(h) PROVE ServerInv'
    <2>1. PICK c \in SrvClose(srv) : srv' = c.l  BY <1>11 DEF CloseEntry
    <2>2. db[h].dbh /\ db' = [db EXCEPT ![h] = [db[h] EXCEPT !.dbh = FALSE]]
      BY <1>11 DEF CloseEntry
    <2>3. h \in OpenHandles /\ srv \in OpenSrv(k)  BY <2>2, HandleOpen DEF k
    <2>4. ~[db[h] EXCEPT !.dbh = FALSE].dbh  BY <1>a DEF Be!Database
    <2>5. OpenHandles' = OpenHandles \ {h}  BY <1>0, <2>2, <2>4, OpenHandlesStep
    <2> QED  BY <1>c, <2>1, <2>3, <2>5
  <1> QED
    BY <1>1, <1>2, <1>3, <1>4, <1>5, <1>6, <1>7, <1>8, <1>9, <1>10, <1>11 DEF Next

\* The inductive invariant of the server side: with no client handle open the
\* back-end Database is closed and idle; with k > 0 handles open it is open,
\* counts k references, and its level agrees with the storage manager.
THEOREM ServerInvariant == ASSUME Reliable PROVE Spec => []ServerInv
  <1>1. ASSUME ServerInv, UNCHANGED vars PROVE ServerInv'
    <2>1. TypeOK'  BY <1>1 DEF ServerInv, TypeOK, vars
    <2>2. srv' = srv /\ OpenHandles' = OpenHandles  BY <1>1 DEF vars, OpenHandles
    <2> QED  BY <1>1, <2>1, <2>2 DEF ServerInv
  <1>2. ServerInv /\ [Next]_vars => ServerInv'  BY <1>1, ServerInvNext
  <1> QED  BY ServerInvInit, <1>2, PTL DEF Spec

\* The back-end Database and the storage manager agree at every moment, for
\* every number of client handles and every interleaving of their calls: one
\* storage-manager transaction exactly while the server's trs_cnt > 0.
THEOREM ServerIsCoherent == ASSUME Reliable PROVE Spec => []ServerCoherent
  <1>1. ServerInv => ServerCoherent
    <2> SUFFICES ASSUME ServerInv PROVE ServerCoherent  OBVIOUS
    <2>1. CASE OpenHandles = {}
      <3>1. ~srv.be.dbh /\ srv.sm.cnt = 0 /\ srv.sm.pend = {}  BY <2>1 DEF ServerInv, ClosedSrv
      <3> QED  BY <3>1 DEF ServerCoherent
    <2>2. CASE OpenHandles # {}
      <3>1. srv.be.dbh /\ Coherent(srv.be, srv.sm)  BY <2>2, OpenSrvElim DEF ServerInv
      <3> QED  BY <3>1 DEF ServerCoherent, Coherent
    <2> QED  BY <2>1, <2>2
  <1> QED  BY <1>1, ServerInvariant, PTL

\* open_refcnt of the back-end Database is the number of open client handles,
\* so that the server closes a database with the last of its clients' handles.
THEOREM ServerCountsHandles == ASSUME Reliable PROVE Spec => []ServerRefCount
  <1>1. ServerInv => ServerRefCount
    <2> SUFFICES ASSUME ServerInv, srv.be.dbh PROVE srv.be.ref = Cardinality(OpenHandles)
      BY DEF ServerRefCount, OpenHandles
    <2>1. OpenHandles # {}  BY DEF ServerInv, ClosedSrv
    <2> QED  BY <2>1, OpenSrvElim DEF ServerInv
  <1> QED  BY <1>1, ServerInvariant, PTL

\* No client handle is open on a database that the server has closed.
THEOREM ServerStaysOpen == ASSUME Reliable PROVE Spec => []OpenOnServer
  <1>1. ServerInv => OpenOnServer  BY HandleOpen, OpenSrvElim DEF OpenOnServer
  <1> QED  BY <1>1, ServerInvariant, PTL
=============================================================================
