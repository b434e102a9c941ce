------------------------------- MODULE Index -------------------------------
(***************************************************************************)
(* Attribute indexes and the unique and notnull constraints.                *)
(*                                                                         *)
(* A class has an integer attribute num and a string attribute str, both    *)
(* indexed.  A string of at most VarsSz bytes is stored in the object, a    *)
(* longer one in a data object of its own, which the client creates, writes *)
(* and deletes with calls of their own (VDdata...) before it sends the      *)
(* object: so one store updates the index of str in up to three calls, each *)
(* of which sees only its part of the change.                               *)
(*                                                                         *)
(* The calls are those of one client in one transaction.  The client edits  *)
(* one object at a time.  An error other than that of a constraint breaks   *)
(* the transaction, which can then only be aborted: here it stops.          *)
(***************************************************************************)
EXTENDS Naturals, Sequences, Bags

CONSTANTS
    Objs,
    Nums,       \* the values of num but null, which is 0
    Chars,      \* a string repeats one of these
    Lens,       \* the lengths of the strings
    VarsSz,     \* VARS_SZ: the longest string that is stored in the object
    Uniques,    \* the sets of attributes that may have a unique constraint
    NotNulls,   \* and those that may have a notnull constraint
    Careless,   \* what an application may do besides (see CarelessKinds)
    MaxData     \* bound: data objects of an object

\* "duplicate": update the string of an object to one that another object has.
\* "refused": store an object that is refused, and whose string is or was long and
\* has been changed.
\* "resize": set the dimension of the string of a stored object to zero.
CarelessKinds == {"duplicate", "refused", "resize"}

\* Attribute::idxNull and idxNotNull, the first byte of every key: the characters
\* '0' and '1', which a string may have too.
idxNull    == 48
idxNotNull == 49

ASSUME IndexAssumption ==
    /\ Nums \subseteq Nat \ {0} /\ Lens \subseteq Nat \ {0}
    /\ VarsSz \in Nat /\ MaxData \in Nat \ {0, 1}
    /\ 0 \notin Nums \cup Chars
    /\ Careless \subseteq CarelessKinds /\ "none" \notin Objs
    /\ Uniques \cup NotNulls \subseteq SUBSET {"num", "str"}

VARIABLES
    unique, notnull,    \* the constraints of the class
    db,                 \* the objects, the data objects and the index
    held,               \* the object the client has in hand
    want,               \* history: what was stored last in each object
    reply,              \* the status of the last store or remove
    broken              \* an error has broken the transaction

vars == <<unique, notnull, db, held, want, reply, broken>>

Empty    == << >>
Strings  == {[i \in 1..n |-> c] : n \in Lens, c \in Chars}
Long(s)  == Len(s) > VarsSz
NoData   == <<0>>
DataIds  == 1..MaxData

Fields == [num: Nums \cup {0}, str: Strings \cup {Empty}]
Blank  == [num |-> 0, str |-> Empty]

NotHeld == [o |-> "none", new |-> FALSE, num |-> 0, str |-> Empty, vd |-> 0,
            chg |-> FALSE, loaded |-> TRUE, ini |-> FALSE, mod |-> FALSE]

Init ==
    /\ unique \in Uniques /\ notnull \in NotNulls
    /\ db = [live |-> {},
             num  |-> [o \in Objs |-> 0],
             str  |-> [o \in Objs |-> Empty],    \* the size and the bytes in the object
             vd   |-> [o \in Objs |-> 0],        \* the oid of the data object
             ini  |-> [o \in Objs |-> FALSE],    \* the bytes in the object were set once
             data |-> [o \in Objs |-> [k \in DataIds |-> NoData]],
             idx  |-> EmptyBag]
    /\ held = NotHeld /\ want = [o \in Objs |-> Blank]
    /\ reply = "none" /\ broken = FALSE

-----------------------------------------------------------------------------
(* The index: a bag of entries, a key with an object.                       *)

NumKey(n)       == <<IF n = 0 THEN idxNull ELSE idxNotNull, n>>
StrKey(s, null) == <<IF null THEN idxNull ELSE idxNotNull>> \o s

\* Idx::searchAny
Found(idx, attr, key) == \E e \in BagToSet(idx) : e[1] = attr /\ e[2] = key

NumEntry(n, o)       == <<"num", NumKey(n), o>>
StrEntry(s, null, o) == <<"str", StrKey(s, null), o>>

\* AttrIdxContext::addIdxOP: an attribute queues at most one entry to remove and,
\* after it, at most one to insert.
Queue(del, ins) == [del |-> del, ins |-> ins]
NoOps == Queue({}, {})

\* The operations of one attribute; nothing is done once an entry was not found.
Perform(r, q) ==
    IF r.ok /\ q.del \subseteq BagToSet(r.idx)
    THEN [r EXCEPT !.idx = (@ (-) SetToBag(q.del)) (+) SetToBag(q.ins)]
    ELSE [r EXCEPT !.ok = FALSE]

\* AttrIdxContext::realizeIdxOP(True): those of the number, then those of the string.
RealizeIdxOP(idx, n, s) == Perform(Perform([ok |-> TRUE, idx |-> idx], n), s)

-----------------------------------------------------------------------------
(* Attribute::createIndexEntry, updateIndexEntry, removeIndexEntry: the     *)
(* constraints that refuse the change, and the operations to queue.         *)

CreateNum(d, o, n) ==
    [refused |-> \/ n = 0 /\ "num" \in notnull
                 \/ n # 0 /\ "num" \in unique /\ Found(d.idx, "num", NumKey(n)),
     ops |-> Queue({}, {NumEntry(n, o)})]

\* The number of an object that is written; tested: the constraint unique is.
UpdateNumIf(d, o, n, tested) ==
    [refused |-> \/ n = 0 /\ "num" \in notnull
                 \/ n # 0 /\ tested /\ "num" \in unique /\ Found(d.idx, "num", NumKey(n)),
     ops |-> IF n = d.num[o] THEN NoOps ELSE Queue({NumEntry(d.num[o], o)}, {NumEntry(n, o)})]

\* Mutants: unique is tested for the old value too, and never.
UpdateNumAlways(d, o, n) == UpdateNumIf(d, o, n, TRUE)
UpdateNumNever(d, o, n)  == UpdateNumIf(d, o, n, FALSE)

UpdateNum(d, o, n) == UpdateNumIf(d, o, n, n # d.num[o])

\* A string that is in the object, or in the data object just created.
CreateStr(d, o, s) ==
    [refused |-> \/ s = Empty /\ "str" \in notnull
                 \/ s # Empty /\ "str" \in unique /\ Found(d.idx, "str", StrKey(s, FALSE)),
     ops |-> Queue({}, {StrEntry(s, s = Empty, o)})]

\* The string of an object that is written; skipInsert and skipRemove: that part of
\* the change was made with the data object.  The bytes in the object are taken for
\* the string in the test of notnull, and the new size for that of the old string;
\* the key that is searched for unique has no first byte.
UpdateStrBut(d, o, h, skipInsert, skipRemove) ==
    LET old   == IF skipRemove THEN Empty ELSE d.str[o]
        nullS == ~skipRemove /\ (old = Empty \/ h.str = Empty)
        nullD == ~skipInsert /\ h.str = Empty
        same  == (skipInsert /\ skipRemove) \/ (nullS = nullD /\ old = h.str)
    IN  [refused |-> \/ "str" \in notnull /\ (h.str = Empty \/ ~h.ini)
                     \/ /\ "str" \in unique /\ ~same /\ ~skipInsert /\ ~nullD
                        /\ Found(d.idx, "str", h.str),
         ops |-> IF same THEN NoOps
                 ELSE Queue(IF skipRemove THEN {} ELSE {StrEntry(old, nullS, o)},
                            IF skipInsert THEN {} ELSE {StrEntry(h.str, nullD, o)})]

\* Mutant: a string of VARS_SZ bytes is taken for a long one.
UpdateStrBoundary(d, o, h) == UpdateStrBut(d, o, h, Len(h.str) >= VarsSz, d.vd[o] # 0)

\* sizesCompute: the new size tells whether the string is in the object, the oid in
\* the stored object whether the old one was.
UpdateStr(d, o, h) == UpdateStrBut(d, o, h, Long(h.str), d.vd[o] # 0)

\* The entries of an object that is deleted.
RemoveNum(d, o) == Queue({NumEntry(d.num[o], o)}, {})
RemoveStr(d, o) == IF d.vd[o] # 0 THEN NoOps
                   ELSE Queue({StrEntry(d.str[o], d.str[o] = Empty, o)}, {})

-----------------------------------------------------------------------------
(* The calls: a status, the database after, and the client's object after.  *)

Result(status, d, h) == [res |-> status, d |-> d, h |-> h]

Fresh(d, o, h) == {k \in DataIds : d.data[o][k] = NoData /\ k \notin {d.vd[o], h.vd}}

\* IDB_VDdataCreate, and setVarDimOid and setSizeChanged of the client.  The data
\* object stays if the index refuses the string.
VDdataCreate(d, o, h) ==
    LET k  == CHOOSE k \in Fresh(d, o, h) : TRUE
        d1 == [d EXCEPT !.data[o][k] = h.str]
        c  == CreateStr(d, o, h.str)
    IN  IF c.refused THEN Result("refused", d1, [h EXCEPT !.vd = 0])
        ELSE Result("ok", [d1 EXCEPT !.idx = RealizeIdxOP(d.idx, NoOps, c.ops).idx],
                    [h EXCEPT !.vd = k, !.chg = FALSE])

\* IDB_VDdataWrite: v is what the data object holds after.
VDdataPut(d, o, h, v) ==
    LET old == d.data[o][h.vd]
        a   == RealizeIdxOP(d.idx, NoOps, Queue({StrEntry(old, FALSE, o)},
                                                {StrEntry(h.str, FALSE, o)}))
    IN  IF old = NoData THEN Result("error", d, h)
        ELSE IF old = h.str THEN Result("ok", d, h)
        ELSE IF "str" \in unique /\ Found(d.idx, "str", h.str) THEN Result("refused", d, h)
        ELSE Result(IF a.ok THEN "ok" ELSE "error",
                    [d EXCEPT !.idx = a.idx, !.data[o][h.vd] = v], h)

\* Mutant: the data object is not written.
VDdataWriteIndexOnly(d, o, h) == VDdataPut(d, o, h, d.data[o][h.vd])

VDdataWrite(d, o, h) == VDdataPut(d, o, h, h.str)

\* Mutant: the data object is kept.
VDdataDeleteNothing(d, o, h) ==
    LET a == RealizeIdxOP(d.idx, NoOps, Queue({StrEntry(d.data[o][h.vd], FALSE, o)}, {}))
    IN  Result("ok", [d EXCEPT !.idx = a.idx], [h EXCEPT !.vd = 0])

\* IDB_VDdataDelete, and setVarDimOid of the client.
VDdataDelete(d, o, h) ==
    LET old == d.data[o][h.vd]
        a   == RealizeIdxOP(d.idx, NoOps, Queue({StrEntry(old, FALSE, o)}, {}))
    IN  IF old = NoData THEN Result("error", d, h)
        ELSE Result(IF a.ok THEN "ok" ELSE "error",
                    [d EXCEPT !.idx = a.idx, !.data[o][h.vd] = NoData], [h EXCEPT !.vd = 0])

\* The string was not in a data object, or its size has changed.
Recreate(d, o, h) ==
    LET r == IF h.vd # 0 THEN VDdataDelete(d, o, h) ELSE Result("ok", d, h)
    IN  IF r.res # "ok" THEN r
        ELSE IF Long(h.str) THEN VDdataCreate(r.d, o, r.h)
        ELSE Result("ok", r.d, [r.h EXCEPT !.chg = FALSE])

\* AttrVarDim::realize and AttrVD::update_realize
UpdateVD(d, o, h) ==
    IF ~h.loaded THEN Result("ok", d, h)
    ELSE IF h.str = Empty /\ "str" \in notnull THEN Result("refused", d, h)
    ELSE IF h.vd = 0 /\ h.str = Empty THEN Result("ok", d, h)
    ELSE IF h.chg \/ h.vd = 0 THEN Recreate(d, o, h)
    ELSE IF Long(h.str) THEN VDdataWrite(d, o, h)
    ELSE Result("ok", d, h)

\* IDB_instanceCreate, IDB_instanceWrite
Put(d, o, h) == [d EXCEPT !.live = @ \cup {o}, !.num[o] = h.num, !.str[o] = h.str,
                          !.vd[o] = h.vd, !.ini[o] = h.ini]
\* IDB_instanceDelete
Drop(d, o) == [d EXCEPT !.live = @ \ {o}, !.num[o] = 0, !.str[o] = Empty,
                        !.vd[o] = 0, !.ini[o] = FALSE]

\* Mutant: an object that the index refuses is not deleted again.
AgregatCreateKeeps(d, o, h) ==
    LET n  == CreateNum(d, o, h.num)
        s  == IF Long(h.str) THEN [refused |-> FALSE, ops |-> NoOps] ELSE CreateStr(d, o, h.str)
        d1 == Put(d, o, h)
    IN  IF n.refused \/ s.refused THEN Result("refused", d1, h)
        ELSE Result("ok", [d1 EXCEPT !.idx = RealizeIdxOP(d.idx, n.ops, s.ops).idx], h)

\* IDB_agregatCreate.  An object that the index refuses is deleted again by
\* IDB_agregatDelete or, as the entries it removes were never inserted, by
\* IDB_instanceDelete.
AgregatCreate(d, o, h) ==
    LET n  == CreateNum(d, o, h.num)
        s  == IF Long(h.str) THEN [refused |-> FALSE, ops |-> NoOps] ELSE CreateStr(d, o, h.str)
        d1 == Put(d, o, h)
    IN  IF n.refused \/ s.refused
        THEN Result("refused",
                    Drop([d1 EXCEPT !.idx = RealizeIdxOP(d.idx, RemoveNum(d1, o),
                                                         RemoveStr(d1, o)).idx], o), h)
        ELSE Result("ok", [d1 EXCEPT !.idx = RealizeIdxOP(d.idx, n.ops, s.ops).idx], h)

\* IDB_agregatWrite
AgregatWrite(d, o, h) ==
    LET n == UpdateNum(d, o, h.num)
        s == UpdateStr(d, o, h)
        a == RealizeIdxOP(d.idx, n.ops, s.ops)
    IN  IF n.refused \/ s.refused THEN Result("refused", d, h)
        ELSE IF ~a.ok THEN Result("error", [d EXCEPT !.idx = a.idx], h)
        ELSE Result("ok", [Put(d, o, h) EXCEPT !.idx = a.idx], [h EXCEPT !.mod = FALSE])

\* Agregat::realize
Realize(d, o, h) ==
    LET r == UpdateVD(d, o, h)
    IN  IF r.res # "ok" THEN r
        ELSE IF h.new THEN AgregatCreate(r.d, o, r.h)
        ELSE AgregatWrite(r.d, o, r.h)

\* IDB_agregatDelete
AgregatDelete(d, o, h) ==
    LET a == RealizeIdxOP(d.idx, RemoveNum(d, o), RemoveStr(d, o))
    IN  Result(IF a.ok THEN "ok" ELSE "error", Drop([d EXCEPT !.idx = a.idx], o), h)

\* Agregat::remove, AttrVD::remove_realize
RemoveObject(d, o, h) ==
    LET r == IF h.vd # 0 THEN VDdataDelete(d, o, h) ELSE Result("ok", d, h)
    IN  IF r.res # "ok" THEN r ELSE AgregatDelete(r.d, o, r.h)

-----------------------------------------------------------------------------
Schema == UNCHANGED <<unique, notnull>>
Edited == reply' = "none" /\ Schema /\ UNCHANGED <<db, want, broken>>

\* A string as it is read: the bytes in the object or those of its data object.
Read(d, o) == IF Long(d.str[o]) THEN IF d.vd[o] = 0 THEN NoData ELSE d.data[o][d.vd[o]]
              ELSE d.str[o]

\* A new object of the client.  An oid is not given out again while an index
\* entry or a data object has it.
New(o) ==
    /\ ~broken /\ o \notin db.live
    /\ \A e \in BagToSet(db.idx) : e[3] # o
    /\ \A k \in DataIds : db.data[o][k] = NoData
    /\ held' = [NotHeld EXCEPT !.o = o, !.new = TRUE, !.mod = TRUE]
    /\ Edited

\* Database::loadObject
Load(o) ==
    /\ ~broken /\ o \in db.live /\ Read(db, o) # NoData
    /\ held' = [NotHeld EXCEPT !.o = o, !.num = db.num[o], !.str = Read(db, o),
                               !.vd = db.vd[o], !.ini = db.ini[o]]
    /\ Edited

SetNum(n) ==
    /\ held.o # "none" /\ n # held.num
    /\ held' = [held EXCEPT !.num = n, !.mod = TRUE]
    /\ Edited

\* The generated accessor: AttrVarDim::setSize if the size changes, then setValue.
SetStr(s) ==
    /\ held.o # "none" /\ held.loaded /\ s # held.str
    /\ held' = [held EXCEPT !.str = s, !.mod = TRUE,
                            !.chg = @ \/ Len(s) # Len(held.str),
                            !.ini = @ \/ ~Long(s)]
    /\ Edited

\* AttrVarDim::setSize to zero alone: the flag that the size has changed makes the
\* string look as if it was not loaded.
SetSize ==
    /\ held.o # "none" /\ held.loaded /\ held.str # Empty
    /\ held.new \/ "resize" \in Careless
    /\ held' = [held EXCEPT !.str = Empty, !.mod = TRUE, !.chg = TRUE, !.loaded = FALSE]
    /\ Edited

\* Another live object has the string.
Taken(d, o, s) == s # Empty /\ \E u \in d.live \ {o} : Read(d, u) = s

\* The string in hand is not the stored one, or its size was set since.
Altered(d, h) == h.chg \/ h.str # Read(d, h.o)

Store ==
    /\ ~broken /\ held.o # "none" /\ held.mod
    /\ LET o == held.o
           r == Realize(db, o, held)
       IN  /\ Long(held.str) => Fresh(db, o, held) # {}
           /\ "str" \in unique /\ ~held.new /\ Taken(db, o, held.str) => "duplicate" \in Careless
           /\ r.res = "refused" /\ (Long(held.str) \/ held.vd # 0) /\ Altered(db, held)
                 => "refused" \in Careless
           /\ db' = r.d /\ reply' = r.res /\ broken' = (r.res = "error")
           /\ held' = IF r.res = "ok" \/ (r.res = "refused" /\ ~held.new)
                      THEN [r.h EXCEPT !.new = FALSE, !.mod = r.res # "ok"] ELSE NotHeld
           /\ want' = IF r.res = "ok" THEN [want EXCEPT ![o] = [num |-> held.num, str |-> held.str]]
                      ELSE want
    /\ Schema

RemoveHeld ==
    /\ ~broken /\ held.o # "none" /\ ~held.new
    /\ LET r == RemoveObject(db, held.o, held)
       IN  /\ db' = r.d /\ reply' = r.res /\ broken' = (r.res = "error")
           /\ want' = IF r.res = "ok" THEN [want EXCEPT ![held.o] = Blank] ELSE want
    /\ held' = NotHeld /\ Schema

Next ==
    \/ \E o \in Objs : New(o) \/ Load(o)
    \/ \E n \in Nums \cup {0} : SetNum(n)
    \/ \E s \in Strings : SetStr(s)
    \/ SetSize \/ Store \/ RemoveHeld

Spec == Init /\ [][Next]_vars

-----------------------------------------------------------------------------
\* Every variable has its type.
TypeOK ==
    /\ unique \subseteq {"num", "str"} /\ notnull \subseteq {"num", "str"}
    /\ db.live \subseteq Objs
    /\ \A o \in Objs : /\ [num |-> db.num[o], str |-> db.str[o]] \in Fields
                       /\ db.vd[o] \in DataIds \cup {0}
                       /\ want[o] \in Fields
                       /\ \A k \in DataIds : db.data[o][k] \in Strings \cup {NoData}
    /\ IsABag(db.idx)
    /\ reply \in {"none", "ok", "refused", "error"} /\ broken = (reply = "error")

\* The index is exact: every live object has one entry for each attribute, with
\* the key of its stored value, and there is no other entry; so that no store or
\* remove ever lacks the entry it has to take out, which would break the transaction.
IndexExact ==
    /\ reply # "error"
    /\ db.idx = SetToBag({NumEntry(db.num[o], o) : o \in db.live} \cup
                         {StrEntry(Read(db, o), Read(db, o) = Empty, o) : o \in db.live})

\* What was stored is what is read, wherever the string is kept.
StoredExact ==
    ~broken => \A o \in db.live : [num |-> db.num[o], str |-> Read(db, o)] = want[o]

\* A data object belongs to a live object that refers to it, whose string is long:
\* none is lost, and none is left behind; and the client knows its oid.
DataOwned ==
    /\ TypeOK
    /\ \A o \in db.live : db.vd[o] # 0 <=> Long(db.str[o])
    /\ held.o \in db.live /\ ~held.mod => held.vd = db.vd[held.o]
    /\ ~broken => \A o \in Objs, k \in DataIds :
                     (db.data[o][k] # NoData) <=> (o \in db.live /\ db.vd[o] = k)

\* The manual's constraints: no two objects have the same value of a unique
\* attribute, and no object lacks a notnull one.
ConstraintsHold ==
    \A o \in db.live :
        /\ "num" \in notnull => db.num[o] # 0
        /\ "str" \in notnull => Read(db, o) # Empty
        /\ \A u \in db.live \ {o} :
              /\ "num" \in unique /\ db.num[o] # 0 => db.num[u] # db.num[o]
              /\ "str" \in unique /\ Read(db, o) # Empty => Read(db, u) # Read(db, o)

\* A store that a constraint refuses has changed nothing.
RefusedUnchanged == [][reply' = "refused" => db' = db]_vars

\* The key of a live object, that of h itself too, is the string of h: '1' and then
\* the string of that object, or '0' alone if it has none.
KeyTaken(d, h) == \E u \in d.live : StrKey(Read(d, u), Read(d, u) = Empty) = h.str

\* A store is refused for what the object in hand and the live objects have, never
\* for a stale entry.  The reasons are those of the constraints, and two that are
\* not: updateIndexEntry and IDB_VDdataWrite search a new string without the first
\* byte of a key, so that "1abc" is refused because of "abc", and updateIndexEntry
\* looks for a notnull string in the object, where a long one never was.
RefusalExplained ==
    [][reply' = "refused" =>
          \/ "num" \in notnull /\ held.num = 0
          \/ "str" \in notnull /\ held.str = Empty
          \/ "num" \in unique /\ \E u \in db.live \ {held.o} : held.num # 0 /\ db.num[u] = held.num
          \/ "str" \in unique /\ held.new /\ Taken(db, held.o, held.str)
          \/ "str" \in unique /\ ~held.new /\ KeyTaken(db, held)
          \/ "str" \in notnull /\ ~held.new /\ Long(held.str) /\ ~held.ini]_vars
=============================================================================
