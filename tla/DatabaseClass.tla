---------------------------- MODULE DatabaseClass ----------------------------
(***************************************************************************)
(* class Database: open, close and the transaction calls.                  *)
(*                                                                         *)
(* The class is used on both sides of the RPC layer.  In the client its    *)
(* lower layer is the back-end Database of the server, in the server it is *)
(* the storage manager.  The lower layer is therefore a parameter: LBegin, *)
(* LCommit, ... are its calls.  A call that can fail is the SET of its     *)
(* outcomes; an outcome of a lower call is [st, l], its status and the     *)
(* lower layer it leaves, and an outcome of a call of this class is        *)
(* [st, d, l], with the Database record as well.                           *)
(***************************************************************************)
EXTENDS Integers

CONSTANTS
    LBegin(_), LCommit(_), LAbort(_),  \* transaction calls of the lower layer
    LEnd(_),                           \* what close() ends a transaction with
    LClose(_),                         \* dbClose of the lower layer
    LoadFails                          \* whether loading the schema may fail

\* The fields of class Database that transactions use.  `cur' stands for
\* curtrs # 0, `incoh' for curtrs->incoherency, `mod' for sch->isModify().
Database == [dbh : BOOLEAN, sch : BOOLEAN, listed : BOOLEAN, ref : Int,
             cur : BOOLEAN, incoh : BOOLEAN, mod : BOOLEAN, trs : Nat]

NewDatabase == [dbh |-> FALSE, sch |-> FALSE, listed |-> FALSE, ref |-> 0,
                cur |-> FALSE, incoh |-> FALSE, mod |-> FALSE, trs |-> 0]

Out(st, d, l) == [st |-> st, d |-> d, l |-> l]

\* The Transaction object is deleted and curtrs reset; a new one is created.
EndTrs(d) == [d EXCEPT !.cur = FALSE, !.incoh = FALSE]
NewTrs(d) == [d EXCEPT !.cur = TRUE, !.incoh = FALSE]

\* transactionBegin: only the outermost one reaches the lower layer.
DbBegin(d, l) ==
    IF d.trs > 0
    THEN {Out("Success", [d EXCEPT !.trs = @ + 1], l)}
    ELSE {IF q.st = "Success" THEN Out("Success", [NewTrs(d) EXCEPT !.trs = 1], q.l)
                              ELSE Out("Error", EndTrs(d), q.l) : q \in LBegin(l)}

\* Mutants: an inner commit ends the transaction; an off-by-one that never
\* ends it; no check for a current transaction; no check for incoherency.
DbCommitInner(d, l) ==
    IF ~d.cur \/ d.trs = 0 \/ d.incoh THEN {Out("Error", d, l)}
    ELSE {IF q.st = "Success" THEN Out("Success", [EndTrs(d) EXCEPT !.trs = 0], q.l)
                              ELSE Out("Error", d, q.l) : q \in LCommit(l)}

DbCommitNever(d, l) ==
    IF ~d.cur \/ d.trs = 0 THEN {Out("Error", d, l)}
    ELSE {Out("Success", IF d.trs > 1 THEN [d EXCEPT !.trs = @ - 1]
                         ELSE [EndTrs(d) EXCEPT !.trs = 0], l)}

DbCommitUnguarded(d, l) ==
    IF d.trs # 1 THEN {Out("Success", [d EXCEPT !.trs = @ - 1], l)}
    ELSE {IF q.st = "Success" THEN Out("Success", [EndTrs(d) EXCEPT !.trs = 0], q.l)
                              ELSE Out("Error", d, q.l) : q \in LCommit(l)}

TrsCommitIncoherent(d, l) == LCommit(l)

\* Transaction::commit refuses an incoherent transaction.
TrsCommit(d, l) == IF d.incoh THEN {[st |-> "Error", l |-> l]} ELSE LCommit(l)

\* transactionCommit: only the outermost one reaches the lower layer.
DbCommit(d, l) ==
    IF ~d.cur \/ d.trs = 0 THEN {Out("Error", d, l)}
    ELSE IF d.trs > 1 THEN {Out("Success", [d EXCEPT !.trs = @ - 1], l)}
    ELSE {IF q.st = "Success" THEN Out("Success", [EndTrs(d) EXCEPT !.trs = 0], q.l)
                              ELSE Out("Error", d, q.l) : q \in TrsCommit(d, l)}

\* Mutant: the purge forgets its commit.
SchemaPurgeOpen(d, l) == IF d.mod THEN {b.l : b \in LBegin(l)} ELSE {l}

\* The begin(); purge(); commit() of Transaction::abort, statuses ignored.
SchemaPurge(d, l) ==
    IF d.mod THEN UNION {{c.l : c \in LCommit(b.l)} : b \in LBegin(l)} ELSE {l}

\* Mutants: the last abort does not reach the lower layer; curtrs survives it.
DbAbortNever(d, l) ==
    IF ~d.cur \/ d.trs = 0 THEN {Out("Error", d, l)}
    ELSE {Out("Success", IF d.trs > 1 THEN [d EXCEPT !.trs = @ - 1]
                         ELSE [EndTrs(d) EXCEPT !.trs = 0], l)}

\* Transaction::abort.
TrsAbort(d, l) ==
    UNION {IF q.st = "Error" THEN {[st |-> "Error", l |-> q.l]}
           ELSE {[st |-> "Success", l |-> p] : p \in SchemaPurge(d, q.l)}
           : q \in LAbort(l)}

\* transactionAbort.
DbAbort(d, l) ==
    IF ~d.cur \/ d.trs = 0 THEN {Out("Error", d, l)}
    ELSE IF d.trs > 1 THEN {Out("Success", [d EXCEPT !.trs = @ - 1], l)}
    ELSE {IF q.st = "Success" THEN Out("Success", [EndTrs(d) EXCEPT !.trs = 0, !.mod = FALSE], q.l)
                              ELSE Out("Error", d, q.l) : q \in TrsAbort(d, l)}

\* The transactionBegin(); ... transactionCommit() brackets of open(): the
\* commit is called whatever the begin returned, and both statuses are ignored.
Bracket(d, l) ==
    UNION {{[began |-> b.st, d |-> c.d, l |-> c.l] : c \in DbCommit(b.d, b.l)}
           : b \in DbBegin(d, l)}

LoadSchema(began) ==
    IF began = "Error" THEN {"Error"}
    ELSE IF LoadFails THEN {"Success", "Error"} ELSE {"Success"}

\* The end of Database::open: a handle whose schema is loaded enters
\* dbopen_list, and looks the class "protection" up in a second bracket.
OpenEpilogue(b, loaded) ==
    IF loaded = "Success"
    THEN {Out("Success", b2.d, b2.l) :
            b2 \in Bracket([b.d EXCEPT !.sch = TRUE, !.listed = TRUE, !.ref = 1], b.l)}
    ELSE {Out("Error", b.d, b.l)}

\* Database::open once the lower layer has opened the database.
DbOpen(d, l) ==
    LET d0 == [d EXCEPT !.dbh = TRUE] IN
    IF d.sch THEN {Out("Success", d0, l)}
    ELSE UNION {UNION {OpenEpilogue(b, loaded) : loaded \in LoadSchema(b.began)}
                : b \in Bracket(d0, l)}

\* Mutant: close does not end the transaction.
EndOnCloseNever(d, l) == {Out("Success", d, l)}

\* Database::close ends the current transaction: curtrs is deleted only when
\* that FAILS; after a success curtrs, and in both cases trs_cnt, survive.
EndOnClose(d, l) ==
    IF ~d.cur THEN {Out("Success", d, l)}
    ELSE {Out(q.st, IF q.st = "Success" THEN d ELSE EndTrs(d), q.l) : q \in LEnd(l)}

\* Mutant: close does not look at open_refcnt.
DbCloseUncounted(d, l) ==
    UNION {{IF c.st = "Success"
            THEN Out("Success", [e.d EXCEPT !.dbh = FALSE, !.listed = FALSE], c.l)
            ELSE Out("Error", e.d, c.l) : c \in LClose(e.l)}
           : e \in EndOnClose([d EXCEPT !.ref = @ - 1], l)}

\* Database::close.
DbClose(d, l) ==
    LET d1 == [d EXCEPT !.ref = @ - 1] IN
    IF d1.ref > 0 THEN {Out("Success", d1, l)}
    ELSE UNION {{IF c.st = "Success"
                 THEN Out("Success", [e.d EXCEPT !.dbh = FALSE, !.listed = FALSE], c.l)
                 ELSE Out("Error", e.d, c.l) : c \in LClose(e.l)}
                : e \in EndOnClose(d1, l)}
=============================================================================
