----------------------------- MODULE Transaction -----------------------------
(***************************************************************************)
(* Transactions of one client connection, from the client's Database       *)
(* handles down to the storage manager.                                    *)
(*                                                                         *)
(*   client process                 server process of this connection      *)
(*   db[h] : Database  --- RPC -->  be : Database (back end) --> sm        *)
(*                                                                         *)
(* class Database is used on BOTH sides, so module DatabaseClass is        *)
(* instantiated twice: Be over the storage manager, Cl over the server.    *)
(* The server runs one process per connection and opens a database once    *)
(* per connection: every client handle of the connection shares `be'       *)
(* (Database::open_realize).  A call of the client API is one action:      *)
(* client and server are single-threaded.                                  *)
(***************************************************************************)
EXTENDS Integers, FiniteSets

CONSTANTS
    Handles,        \* the client's Database objects on one database
    Faults,         \* the calls that may fail: a subset of FaultKinds
    CommitOnClose,  \* Database::setCommitOnClose of the client
    SchemaOps,      \* whether clients create classes
    MaxNest,        \* bound: nesting of transactionBegin on one handle
    MaxScopes,      \* bound: level-0 transactions begun on one handle
    MaxOpens,       \* bound: successful dbOpen calls on one handle
    MaxRef          \* bound: open_refcnt of a shared handle

FaultKinds == {"begin", "commit", "abort", "store", "load", "open", "close"}

ASSUME ConstAssumption ==
    /\ IsFiniteSet(Handles)
    /\ Faults \subseteq FaultKinds
    /\ CommitOnClose \in BOOLEAN
    /\ SchemaOps \in BOOLEAN
    /\ MaxNest \in Nat /\ MaxScopes \in Nat /\ MaxOpens \in Nat /\ MaxRef \in Nat

VARIABLES
    db,      \* [Handles -> Be!Database]: the client's handles
    srv,     \* [be |-> the back-end Database, sm |-> the storage manager]
    server,  \* the server process of the connection: one of ServerStates
    opens,   \* [Handles -> Nat]: dbOpen calls so far (for MaxOpens)
    scope,   \* [Handles -> Nat]: number of the last level-0 transaction begun
    fate,    \* history: [Handles \X Nat -> Fates], what the client was told
    held     \* history: handles owning a level of the server's transaction

vars == <<db, srv, server, opens, scope, fate, held>>

\* A stored operation: who did it, in which level-0 transaction, and whether
\* it was applied entirely (FALSE: the store failed after a part was written).
Op == [h : Handles, n : 0 .. MaxScopes, whole : BOOLEAN]

Fates == {"none", "open", "committed", "aborted"}

\* "closing": in connection_handler, closing what a lost client left open;
\* "quitting": in quit_handler.
ServerStates == {"serving", "closing", "quitting", "gone"}

-----------------------------------------------------------------------------
(* The storage manager (library eyedbsm, not in this repository).          *)

Sm == [cnt : Nat, pend : SUBSET Op, dur : SUBSET Op]

Fail(kind, m) == IF kind \in Faults THEN {[st |-> "Error", l |-> m]} ELSE {}

SmBegin(m) ==
    {[st |-> "Success", l |-> [m EXCEPT !.cnt = @ + 1]]} \cup Fail("begin", m)

SmCommit(m) ==
    IF m.cnt = 0 THEN {[st |-> "Error", l |-> m]}
    ELSE {[st |-> "Success",
           l  |-> IF m.cnt > 1 THEN [m EXCEPT !.cnt = @ - 1]
                  ELSE [cnt |-> 0, pend |-> {}, dur |-> m.dur \cup m.pend]]}
         \cup Fail("commit", m)

SmAbort(m) ==
    IF m.cnt = 0 THEN {[st |-> "Error", l |-> m]}
    ELSE {[st |-> "Success",
           l  |-> [cnt |-> m.cnt - 1, pend |-> {}, dur |-> m.dur]]}
         \cup Fail("abort", m)

SmOpen(m)  == {[st |-> "Success", l |-> m]} \cup Fail("open", m)

\* Closing drops the transaction of the handle, if it is still in one.
SmClose(m) ==
    {[st |-> "Success", l |-> [m EXCEPT !.cnt = 0, !.pend = {}]]} \cup Fail("close", m)

-----------------------------------------------------------------------------
(* The server: the RPC entry points call the back-end Database, whose lower *)
(* layer is the storage manager.                                            *)

Be == INSTANCE DatabaseClass WITH
        LBegin <- SmBegin, LCommit <- SmCommit, LAbort <- SmAbort,
        LEnd <- SmAbort,   \* the server never sets commit_on_close
        LClose <- SmClose, LoadFails <- "load" \in Faults

Srv == [be : Be!Database, sm : Sm]

ToSrv(outs) == {[st |-> r.st, l |-> [be |-> r.d, sm |-> r.l]] : r \in outs}

SrvBegin(s)  == ToSrv(Be!DbBegin(s.be, s.sm))
SrvCommit(s) == ToSrv(Be!DbCommit(s.be, s.sm))
SrvAbort(s)  == ToSrv(Be!DbAbort(s.be, s.sm))

\* Mutant: sharing an open back-end Database does not count.
SrvOpenUncounted(s) ==
    IF s.be.dbh /\ s.be.listed THEN {[st |-> "Success", l |-> s]}
    ELSE UNION {IF o.st = "Error" THEN {[st |-> "Error", l |-> s]}
                ELSE ToSrv(Be!DbOpen(Be!NewDatabase, o.l)) : o \in SmOpen(s.sm)}

\* IDB_dbOpen_make, open_realize: an open back-end Database is shared, else a
\* new one is opened.  One whose open failed stays in db_list, but it is never
\* in dbopen_list nor given to the client, so that nothing calls it again: its
\* outcome is the server as it was.
SrvOpen(s) ==
    IF s.be.dbh /\ s.be.listed
    THEN {[st |-> "Success", l |-> [s EXCEPT !.be.ref = @ + 1]]}
    ELSE UNION {IF o.st = "Error" THEN {[st |-> "Error", l |-> s]}
                ELSE {IF r.st = "Success" THEN [st |-> "Success", l |-> [be |-> r.d, sm |-> r.l]]
                              ELSE [st |-> "Error", l |-> s]
                      : r \in Be!DbOpen(Be!NewDatabase, o.l)}
                : o \in SmOpen(s.sm)}

\* Mutant: commit_on_close is read the wrong way round.
SrvEndSwapped(s) == IF CommitOnClose THEN SrvAbort(s) ELSE SrvCommit(s)

\* How close() on the client ends its transaction (commit_on_close).
SrvEnd(s) == IF CommitOnClose THEN SrvCommit(s) ELSE SrvAbort(s)

\* DBCLOSE_realize, IDB_dbClose_make.
SrvClose(s) == ToSrv(Be!DbClose(s.be, s.sm))

-----------------------------------------------------------------------------
(* The client's calls: the lower layer of a handle is the server.           *)

Cl == INSTANCE DatabaseClass WITH
        LBegin <- SrvBegin, LCommit <- SrvCommit, LAbort <- SrvAbort,
        LEnd <- SrvEnd, LClose <- SrvClose, LoadFails <- "load" \in Faults

Init ==
    /\ db = [h \in Handles |-> Be!NewDatabase]
    /\ srv = [be |-> Be!NewDatabase, sm |-> [cnt |-> 0, pend |-> {}, dur |-> {}]]
    /\ server = "serving"
    /\ opens = [h \in Handles |-> 0]
    /\ scope = [h \in Handles |-> 0]
    /\ fate = [x \in Handles \X (0 .. MaxScopes) |-> "none"]
    /\ held = {}

Tell(h, f) == fate' = [fate EXCEPT ![<<h, scope[h]>>] = f]

\* A handle that leaves open() in a transaction has begun a level-0 scope.
NewScope(h, d) ==
    IF d.trs > 0 /\ db[h].trs = 0
    THEN /\ scope' = [scope EXCEPT ![h] = @ + 1]
         /\ fate' = [fate EXCEPT ![<<h, scope[h] + 1>>] = "open"]
         /\ held' = held \cup {h}
    ELSE UNCHANGED <<scope, fate, held>>

\* Database::open(conn, flag) on this handle.
Open(h) ==
    /\ server = "serving" /\ ~db[h].dbh
    /\ opens[h] < MaxOpens /\ scope[h] < MaxScopes
    /\ opens' = [opens EXCEPT ![h] = @ + 1]
    /\ \E o \in SrvOpen(srv) :
         IF o.st = "Error" THEN srv' = o.l /\ UNCHANGED <<db, scope, fate, held>>
         ELSE \E r \in Cl!DbOpen(db[h], o.l) :
                /\ db' = [db EXCEPT ![h] = r.d]
                /\ srv' = r.l
                /\ NewScope(h, r.d)
    /\ UNCHANGED server

\* The static Database::open finds the handle in dbopen_list and shares it.
OpenShared(h) ==
    /\ server = "serving" /\ db[h].listed /\ db[h].ref < MaxRef
    /\ db' = [db EXCEPT ![h].ref = @ + 1]
    /\ UNCHANGED <<srv, server, opens, scope, fate, held>>

\* A handle is used after an open() that succeeded.
Usable(h) == db[h].dbh /\ db[h].sch

Begin(h) ==
    /\ server = "serving" /\ Usable(h)
    /\ db[h].trs < MaxNest /\ scope[h] < MaxScopes
    /\ \E r \in Cl!DbBegin(db[h], srv) :
         /\ db' = [db EXCEPT ![h] = r.d]
         /\ srv' = r.l
         /\ NewScope(h, r.d)
    /\ UNCHANGED <<server, opens>>

Commit(h) ==
    /\ server = "serving" /\ Usable(h)
    /\ \E r \in Cl!DbCommit(db[h], srv) :
         /\ db' = [db EXCEPT ![h] = r.d]
         /\ srv' = r.l
         /\ IF r.st = "Success" /\ db[h].trs = 1
            THEN Tell(h, "committed") /\ held' = held \ {h}
            ELSE UNCHANGED <<fate, held>>
    /\ UNCHANGED <<server, opens, scope>>

Abort(h) ==
    /\ server = "serving" /\ Usable(h)
    /\ \E r \in Cl!DbAbort(db[h], srv) :
         /\ db' = [db EXCEPT ![h] = r.d]
         /\ srv' = r.l
         /\ IF r.st = "Success" /\ db[h].trs = 1
            THEN Tell(h, "aborted") /\ held' = held \ {h}
            ELSE UNCHANGED <<fate, held>>
    /\ UNCHANGED <<server, opens, scope>>

\* Database::close.  The handle gives its level of the server's transaction
\* back whether or not the server could end it.
Close(h) ==
    /\ server = "serving" /\ db[h].dbh
    /\ \E r \in Cl!DbClose(db[h], srv) :
         /\ db' = [db EXCEPT ![h] = r.d]
         /\ srv' = r.l
         /\ IF r.d.ref <= 0 /\ db[h].cur
            THEN /\ IF r.d.cur THEN Tell(h, IF CommitOnClose THEN "committed" ELSE "aborted")
                               ELSE UNCHANGED fate
                 /\ held' = held \ {h}
            ELSE UNCHANGED <<fate, held>>
    /\ UNCHANGED <<server, opens, scope>>

\* Agregat::realize and remove: a failure after a partial write marks the
\* current transaction incoherent.
Store(h) ==
    /\ server = "serving" /\ Usable(h)
    /\ \E whole \in IF "store" \in Faults THEN BOOLEAN ELSE {TRUE} :
         IF srv.sm.cnt > 0
         THEN /\ srv' = [srv EXCEPT !.sm.pend =
                           @ \cup {[h |-> h, n |-> scope[h], whole |-> whole]}]
              /\ db' = [db EXCEPT ![h].incoh = @ \/ (db[h].cur /\ ~whole)]
         ELSE /\ db' = [db EXCEPT ![h].incoh = @ \/ db[h].cur]
              /\ UNCHANGED srv
    /\ UNCHANGED <<server, opens, scope, fate, held>>

\* Schema::addClass, on the client and, when the class is stored, in the server.
TouchSchema(h) ==
    /\ SchemaOps /\ server = "serving" /\ Usable(h) /\ srv.sm.cnt > 0
    /\ db' = [db EXCEPT ![h].mod = TRUE]
    /\ srv' = [srv EXCEPT !.be.mod = TRUE]
    /\ UNCHANGED <<server, opens, scope, fate, held>>

-----------------------------------------------------------------------------
(* The end of the connection.                                              *)

\* The client disconnects or dies: the RPC layer calls connection_handler, which
\* closes every entry of the client's table of open databases (an entry for each
\* handle that is open, whether or not it was usable).
ClientDies ==
    /\ server = "serving"
    /\ server' = "closing"
    /\ UNCHANGED <<db, srv, opens, scope, fate, held>>

\* rpcDB_close_do with close_realize on one entry, its status ignored.
CloseEntry(h) ==
    /\ server = "closing" /\ db[h].dbh
    /\ \E r \in SrvClose(srv) : srv' = r.l
    /\ db' = [db EXCEPT ![h].dbh = FALSE]
    /\ held' = held \ {h}
    /\ UNCHANGED <<server, opens, scope, fate>>

\* No entry is left: idbRelease, and the process exits by its quit handler.
Release ==
    /\ server = "closing" /\ \A h \in Handles : ~db[h].dbh
    /\ server' = "quitting"
    /\ UNCHANGED <<db, srv, opens, scope, fate, held>>

\* The server process is told to end (SIGTERM of `eyedbctl stop') or runs out of
\* memory (new_handler): its quit handler runs with the databases still open.
Killed ==
    /\ server \in {"serving", "closing"}
    /\ server' = "quitting"
    /\ UNCHANGED <<db, srv, opens, scope, fate, held>>

\* Mutant: one transactionAbort for each Database, and no loop.
QuitStepOnce ==
    /\ server = "quitting"
    /\ IF srv.be.dbh THEN \E r \in SrvAbort(srv) : srv' = r.l ELSE UNCHANGED srv
    /\ server' = "gone"
    /\ UNCHANGED <<db, opens, scope, fate, held>>

\* quit_handler: one turn of for(;;) { if (db->transactionAbort()) break; } on
\* the back-end Database, if it is (still) in db_list.
QuitStep ==
    /\ server = "quitting"
    /\ IF srv.be.dbh
       THEN \E r \in SrvAbort(srv) :
              srv' = r.l /\ server' = IF r.st = "Success" THEN "quitting" ELSE "gone"
       ELSE server' = "gone" /\ UNCHANGED srv
    /\ UNCHANGED <<db, opens, scope, fate, held>>

Gone == server = "gone" /\ UNCHANGED vars

Next ==
    \/ \E h \in Handles : \/ Open(h) \/ OpenShared(h) \/ Close(h)
                          \/ Begin(h) \/ Commit(h) \/ Abort(h)
                          \/ Store(h) \/ TouchSchema(h)
                          \/ CloseEntry(h)
    \/ ClientDies \/ Release \/ Killed \/ QuitStep \/ Gone

\* The server process runs its two handlers to the end.
Fairness == WF_vars((\E h \in Handles : CloseEntry(h)) \/ Release \/ QuitStep)

Spec == Init /\ [][Next]_vars /\ Fairness

-----------------------------------------------------------------------------
\* Every variable has its type; in particular trs_cnt and the storage
\* manager's level never become negative, on either side of the RPC layer.
TypeOK ==
    /\ db \in [Handles -> Be!Database]
    /\ srv \in Srv
    /\ server \in ServerStates
    /\ opens \in [Handles -> Nat]
    /\ scope \in [Handles -> 0 .. MaxScopes]
    /\ fate \in [Handles \X (0 .. MaxScopes) -> Fates]
    /\ held \subseteq Handles

\* The back-end Database, its transaction level and the storage manager agree:
\* one storage-manager transaction exactly while trs_cnt > 0, never two.
ServerCoherent ==
    /\ srv.be.dbh => /\ srv.be.cur <=> srv.be.trs > 0
                     /\ srv.sm.cnt = IF srv.be.trs > 0 THEN 1 ELSE 0
    /\ ~srv.be.dbh => srv.sm.cnt = 0
    /\ srv.sm.cnt = 0 => srv.sm.pend = {}

\* The server keeps the database open as long as one of its clients has it:
\* open_refcnt of the back end counts the open client handles.
ServerRefCount ==
    srv.be.dbh => srv.be.ref = Cardinality({h \in Handles : db[h].dbh})

\* No client handle is open on a database that the server has closed.
OpenOnServer == \A h \in Handles : db[h].dbh => srv.be.dbh

\* What the client believes is what it owns, and is never ended under it: an open
\* handle that is in a transaction (Database::isInTransaction) holds a level of the
\* server's, and as long as a handle holds one the storage manager is in a
\* transaction.
HeldInTransaction ==
    /\ \A h \in Handles : db[h].dbh /\ db[h].cur => h \in held
    /\ server = "serving" /\ held # {} => srv.sm.cnt > 0

\* Each handle in a transaction accounts for exactly one level of the back
\* end's trs_cnt, so the last one to leave ends the transaction.
ServerCountsScopes == server = "serving" => srv.be.trs = Cardinality(held)

Ops == srv.sm.pend \cup srv.sm.dur

\* Atomicity, abort: once a client's level-0 abort has succeeded, nothing of
\* that transaction is stored or can still be.
AbortedForgotten ==
    \A o \in Ops : fate[<<o.h, o.n>>] # "aborted"

\* Atomicity, commit: once a client's level-0 commit has succeeded, all of the
\* transaction is durable, none of it is still pending.
CommittedDurable ==
    \A o \in srv.sm.pend : fate[<<o.h, o.n>>] # "committed"

\* A transaction in which a store failed half-way is never made durable.
NoIncoherentCommit == \A o \in srv.sm.dur : o.whole

\* The server never makes anything durable on its own: the durable contents
\* change only in a step that tells some handle that its level-0 transaction is
\* committed.  The internal transactions of open() and abort() store nothing.
OnlyCommitStores ==
    [][srv'.sm.dur # srv.sm.dur =>
         \E h \in Handles : /\ fate[<<h, scope[h]>>] = "open"
                            /\ fate'[<<h, scope[h]>>] = "committed"]_vars

\* A server that loses its client, or is told to end, with any number of handles
\* in transactions ends, and leaves no transaction open in the storage manager:
\* connection_handler's closes, and the levels that quit_handler aborts one by
\* one (each handle in a transaction is a level of the one back-end Database),
\* reach level 0 whatever is left when the second takes over from the first.
QuitAborts ==
    server \in {"closing", "quitting"} ~> server = "gone" /\ srv.sm.cnt = 0
=============================================================================
