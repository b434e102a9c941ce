---------------------------- MODULE Relationship ----------------------------
(***************************************************************************)
(* Relationships (inverse attributes), the object calls of the server that  *)
(* maintain them, and the client's per-transaction object cache.            *)
(*                                                                         *)
(* The client sends objectCreate, objectWrite or objectDelete for an        *)
(* object, or objectWrite for its collection.  The server updates the       *)
(* attribute at the other end (Attribute_inv.cc), notes every attribute it  *)
(* changes in a list (InvOidContext) and returns the list; the client       *)
(* patches the objects of its cache with it.  A call that fails makes the   *)
(* transaction incoherent: commit() refuses it.                             *)
(*                                                                         *)
(* An object has one attribute, that refers to one object or to a literal   *)
(* collection of them; a collection is known by the object it belongs to.   *)
(***************************************************************************)
EXTENDS Naturals, FiniteSets

CONSTANTS
    A, B,       \* the objects of the two classes
    Null,       \* the null oid
    Rels,       \* the relations: a subset of {"1_1", "1_N", "N_N"}
    Faults,     \* what may fail (see FaultKinds)
    Careless,   \* what an application may do besides (see CarelessKinds)
    MaxHeld     \* bound: objects in the client's cache

\* "gone": store a reference to an object removed since it was set.
\* "early": store an object loaded before the server made its collection.
\* "refused": create an object that refers to another and violates notnull.
\* "move": insert in a collection an object of another one.
\* "shared": N:N, suppress from a collection an object that others hold too, or
\*     remove an object whose collection has such an element.
\* "collection": store a collection by itself, and commit if that fails.
\* "retry": commit again after a commit has failed.
CarelessKinds == {"gone", "early", "refused", "move", "shared", "collection", "retry"}

\* A storage write, a trigger, a notnull constraint, the end of a commit; "ignored"
\* is a storage write that fails while a collection is deleted.
FaultKinds == {"write", "trigger", "constraint", "commit", "ignored"}

ASSUME RelationshipAssumption ==
    /\ A \cap B = {} /\ Null \notin A \cup B
    /\ Rels \subseteq {"1_1", "1_N", "N_N"}
    /\ Faults \subseteq FaultKinds
    /\ Careless \subseteq CarelessKinds

VARIABLES
    rel,        \* the relation of this schema
    db,         \* the objects as the transaction sees them
    saved,      \* the committed objects
    open,       \* a transaction is open
    incoh,      \* Transaction::incoherency
    tired,      \* a commit has failed in this transaction
    held,       \* the client's cached objects: their attribute, and their edits
    ctx,        \* inv_list is set between two calls
    created,    \* mark_created of the back-end Database
    deleted     \* mark_deleted

vars == <<rel, db, saved, open, incoh, tired, held, ctx, created, deleted>>

Objs == A \cup B
Partners(o) == IF o \in A THEN B ELSE A
OneSide(o)  == rel = "1_1" \/ (rel = "1_N" /\ o \in B)

NotHeld == [in |-> FALSE, val |-> Null, edit |-> "no"]

NoObject == [st   |-> [o \in Objs |-> "none"],
             one  |-> [o \in Objs |-> Null],
             has  |-> [o \in Objs |-> FALSE],
             many |-> [o \in Objs |-> {}]]

Init ==
    /\ rel \in Rels
    /\ db = NoObject /\ saved = NoObject
    /\ open = FALSE /\ incoh = FALSE /\ tired = FALSE /\ ctx = FALSE
    /\ held = [o \in Objs |-> NotHeld]
    /\ created = {} /\ deleted = {}

\* The oid held in the attribute: an object's, or "whether the collection is there".
Attr(d, o) == IF OneSide(o) THEN d.one[o] ELSE d.has[o]

-----------------------------------------------------------------------------
(* Attribute_inv.cc: the changes at the other end.  o is the object that is *)
(* created, updated or removed; v its new, or last, reference.              *)

\* inverse_write_oid
PutOne(d, o, v) == [d EXCEPT !.one[o] = v]
NullIn(d, S)    == [d EXCEPT !.one = [o \in Objs |-> IF o \in S THEN Null ELSE @[o]]]

\* Mutant: the new collection's oid is not written in o.
IntoUnlinked(d, o, x) == [d EXCEPT !.many[o] = @ \cup {x}]

\* inverse_create_collection and the insertion in the collection of o.
Into(d, o, x) == [d EXCEPT !.has[o] = TRUE, !.many[o] = @ \cup {x}]
OutOf(d, o, x) == [d EXCEPT !.many[o] = @ \ {x}]

\* inverse_1_1, invObjCreate: what v referred to has no partner any more.
Create_1_1(d, o, v) ==
    IF v = Null THEN d ELSE PutOne(NullIn(d, {d.one[v]} \ {Null, o}), v, o)

\* Mutant: the object that v referred to keeps its reference.
Update_1_1_KeepsCurrent(d, o, v) ==
    LET d1 == NullIn(d, {u \in {d.one[o]} \ {Null, v} : d.one[u] = o})
    IN  IF v = Null THEN d1 ELSE PutOne(d1, v, o)

\* inverse_1_1, invObjUpdate: the old partner, and the old partner of the new
\* one, refer to nothing any more.
Update_1_1(d, o, v) ==
    LET old == {u \in {d.one[o]} \ {Null, v} : d.one[u] = o}
        d1  == NullIn(d, old)
    IN  IF v = Null THEN d1
        ELSE PutOne(NullIn(d1, {d1.one[v]} \ {Null, o}), v, o)

Remove_1_1(d, o, v) == IF v = Null THEN d ELSE NullIn(d, {v})

\* inverse_1_N: o moves from the collection of its old owner to that of the new.
Create_1_N(d, o, v) == IF v = Null THEN d ELSE Into(d, v, o)
Update_1_N(d, o, v) ==
    LET old == d.one[o]
    IN  Create_1_N(IF old \notin {Null, v} THEN OutOf(d, old, o) ELSE d, o, v)
Remove_1_N(d, o, v) == IF v = Null THEN d ELSE OutOf(d, v, o)

\* inverse_N_1: with no collection any more, the old elements have no owner; the
\* elements of a collection get o, and the attribute of their old owner is null.
Update_N_1(d, o, c) ==
    IF ~c THEN IF d.has[o] THEN NullIn(d, d.many[o]) ELSE d
    ELSE LET taken == {e \in d.many[o] : d.one[e] # o}
             lost  == {d.one[e] : e \in taken} \ {Null}
         IN  [d EXCEPT !.one  = [u \in Objs |-> IF u \in taken THEN o ELSE @[u]],
                       !.has  = [u \in Objs |-> @[u] /\ u \notin lost],
                       !.many = [u \in Objs |-> IF u \in lost THEN {} ELSE @[u]]]
Remove_N_1(d, o) == NullIn(d, d.many[o])

\* Mutant: an unchanged collection is taken for an old one.
Update_N_N_Always(d, o, c) ==
    IF d.has[o] THEN [d EXCEPT !.many = [u \in Objs |-> IF u = o THEN {} ELSE @[u] \ {o}]]
    ELSE d

\* inverse_N_N
Update_N_N(d, o, c) ==
    CASE d.has[o] = c -> d
      [] c /\ ~d.has[o] ->
           [d EXCEPT !.has  = [u \in Objs |-> @[u] \/ u \in d.many[o]],
                     !.many = [u \in Objs |-> IF u \in d.many[o] THEN @[u] \cup {o} ELSE @[u]]]
      [] ~c /\ d.has[o] ->
           [d EXCEPT !.many = [u \in Objs |-> IF u = o THEN {} ELSE
                                              IF u \in d.many[o] THEN @[u] \ {o} ELSE @[u]]]
Remove_N_N(d, o) ==
    [d EXCEPT !.many = [u \in Objs |-> IF u = o THEN {} ELSE
                                       IF u \in d.many[o] THEN @[u] \ {o} ELSE @[u]]]

\* inverse_coll_perform_N_1: x enters the collection of o; all the elements of
\* the collection it was in lose their owner and leave it.
Insert_N_1(d, o, x) ==
    LET old == d.one[x] IN
    IF old \in {Null, o} THEN PutOne(d, x, o)
    ELSE PutOne([NullIn(d, d.many[old]) EXCEPT !.many[old] = {}], x, o)
Suppress_N_1(d, o, x) == NullIn(d, {x})

\* inverse_coll_perform_N_N: x leaves the collection of o, and those of all the
\* other objects of its own collection, which forgets o only.
Insert_N_N(d, o, x) == Into(d, x, o)
Suppress_N_N(d, o, x) ==
    IF ~d.has[x] THEN d
    ELSE [d EXCEPT !.many = [u \in Objs |-> IF u = x THEN @[u] \ {o} ELSE
                               IF u \in d.many[x] \ {o} THEN @[u] \ {x} ELSE @[u]]]

\* Attribute::inverse_realize and Attribute::inverse_coll_perform.
CreateInverse(d, o, v) ==
    CASE rel = "1_1" -> Create_1_1(d, o, v)
      [] rel = "1_N" /\ o \in B -> Create_1_N(d, o, v)
      [] OTHER -> d        \* an object is created without a collection
UpdateInverse(d, o, v) ==
    CASE rel = "1_1" -> Update_1_1(d, o, v)
      [] rel = "1_N" /\ o \in B -> Update_1_N(d, o, v)
      [] rel = "1_N" /\ o \in A -> Update_N_1(d, o, v)
      [] rel = "N_N" -> Update_N_N(d, o, v)
RemoveInverse(d, o, v) ==
    CASE rel = "1_1" -> Remove_1_1(d, o, v)
      [] rel = "1_N" /\ o \in B -> Remove_1_N(d, o, v)
      [] rel = "1_N" /\ o \in A -> Remove_N_1(d, o)
      [] rel = "N_N" -> Remove_N_N(d, o)
InsertInverse(d, o, x)   == IF rel = "1_N" THEN Insert_N_1(d, o, x) ELSE Insert_N_N(d, o, x)
SuppressInverse(d, o, x) == IF rel = "1_N" THEN Suppress_N_1(d, o, x) ELSE Suppress_N_N(d, o, x)

\* IDB_instanceWrite: the object itself.
PutAttr(d, o, v) ==
    IF OneSide(o) THEN PutOne(d, o, v)
    ELSE [d EXCEPT !.has[o] = v, !.many[o] = IF v THEN @ ELSE {}]

\* IDB_collectionDelete: every element is suppressed from the collection of o, as
\* inverse_coll_perform does it.
DeleteColl(d, o) ==
    IF rel = "1_N" THEN [NullIn(d, d.many[o]) EXCEPT !.many[o] = {}]
    ELSE [d EXCEPT !.many = [u \in Objs |->
             CASE u = o -> {}
               [] u \in d.many[o] -> @[u] \ {o}
               [] OTHER -> @[u] \ {x \in d.many[o] : u \in d.many[x]}]]

\* IDB_instanceDelete: an object of this transaction is deleted, the others are
\* flagged and keep their data.
Without(d, o, st) == [d EXCEPT !.st[o] = st, !.one[o] = Null, !.has[o] = FALSE, !.many[o] = {}]
DeleteInstance(d, o) == IF o \in created THEN Without(d, o, "none")
                        ELSE [d EXCEPT !.st[o] = "removed"]

\* A call stopped by a failure has written some of the objects it was to write.
Mixed(d, d2, S) ==
    [st   |-> [o \in Objs |-> IF o \in S THEN d2.st[o]   ELSE d.st[o]],
     one  |-> [o \in Objs |-> IF o \in S THEN d2.one[o]  ELSE d.one[o]],
     has  |-> [o \in Objs |-> IF o \in S THEN d2.has[o]  ELSE d.has[o]],
     many |-> [o \in Objs |-> IF o \in S THEN d2.many[o] ELSE d.many[o]]]
Differ(d, d2) == {u \in Objs : <<d.st[u], d.one[u], d.has[u], d.many[u]>> #
                               <<d2.st[u], d2.one[u], d2.has[u], d2.many[u]>>}
Half(d, d2) == {Mixed(d, d2, S) : S \in SUBSET Differ(d, d2)}

-----------------------------------------------------------------------------
(* How a call ends on the client.                                           *)

\* object_epilogue: the reply names the attributes written at the other end
\* (at least those of W); it is empty when inv_list was already set.  Only the
\* IDR is patched: a collection object the client has keeps its own oid.
Patched(d2, W) ==
    [u \in Objs |->
        IF held[u].in /\ ~ctx /\ OneSide(u) /\ (d2.one[u] # db.one[u] \/ u \in W)
        THEN [held[u] EXCEPT !.val = d2.one[u]] ELSE held[u]]

Idle   == UNCHANGED <<rel, saved, open, tired>>
Usable == open /\ ~incoh /\ (tired => "retry" \in Careless)

\* Agregat::realize and Agregat::remove after an error: setIncoherency and
\* uncacheObject.
Broken(o) == /\ incoh' = TRUE /\ held' = [held EXCEPT ![o] = NotHeld]
             /\ UNCHANGED <<created, deleted>>

\* A storage error in the middle of the call.
WriteFails(o, d2) == "write" \in Faults /\ db' \in Half(db, d2) /\ Broken(o) /\ UNCHANGED ctx

\* A trigger that refuses, before or after the call: TRIGGER_MANAGE returns past
\* releaseContext, and inv_list stays set in the server.
TriggerFails(o, d2) == "trigger" \in Faults /\ db' \in {db, d2} /\ Broken(o) /\ ctx' = TRUE

-----------------------------------------------------------------------------
Begin == /\ ~open /\ open' = TRUE
         /\ UNCHANGED <<rel, db, saved, incoh, tired, held, ctx, created, deleted>>

\* Database::loadObject, through the transaction cache.
Load(o) ==
    /\ Usable /\ db.st[o] = "live" /\ ~held[o].in
    /\ Cardinality({u \in Objs : held[u].in}) < MaxHeld
    /\ held' = [held EXCEPT ![o] = [in |-> TRUE, val |-> Attr(db, o), edit |-> "no"]]
    /\ Idle /\ UNCHANGED <<db, incoh, ctx, created, deleted>>

\* The application changes another attribute of o, or its reference.
Edit(o) ==
    /\ Usable /\ held[o].in
    /\ \/ held[o].edit = "no" /\ held' = [held EXCEPT ![o].edit = "other"]
       \/ /\ OneSide(o)
          /\ \E v \in {u \in Partners(o) : db.st[u] = "live"} \cup {Null} :
                held' = [held EXCEPT ![o].val = v, ![o].edit = "ref"]
    /\ Idle /\ UNCHANGED <<db, incoh, ctx, created, deleted>>

\* The oids that the server writes again whether they change or not.
Rewritten(v) == IF rel = "1_1" THEN {v} \ {Null} ELSE {}

\* Mutant: the objects of the cache are not patched.
StoreNoPatch(o) ==
    /\ Usable /\ held[o].in /\ held[o].edit # "no"
    /\ LET v  == held[o].val
           d2 == PutAttr(UpdateInverse(db, o, v), o, v)
       IN  /\ OneSide(o) /\ v # Null => db.st[v] = "live"
           /\ db' = d2 /\ held' = [held EXCEPT ![o].edit = "no"]
    /\ Idle /\ UNCHANGED <<incoh, ctx, created, deleted>>

\* Agregat::realize of an object of the database: IDB_objectWrite.  A reference
\* to an object that is no more fails.
Store(o) ==
    /\ Usable /\ held[o].in /\ held[o].edit # "no"
    /\ LET v    == held[o].val
           dead == OneSide(o) /\ v # Null /\ db.st[v] \in {"none", "shrunk"}
           d2   == PutAttr(UpdateInverse(db, o, v), o, v)
       IN  /\ OneSide(o) /\ v # Null /\ db.st[v] = "removed" => "gone" \in Careless
           /\ ~OneSide(o) /\ v # db.has[o] => "early" \in Careless
           /\ \/ /\ ~dead
                 /\ db' = d2 /\ held' = [Patched(d2, Rewritten(v)) EXCEPT ![o].edit = "no"]
                 /\ UNCHANGED <<incoh, ctx, created, deleted>>
              \/ dead /\ db' = db /\ Broken(o) /\ UNCHANGED ctx
              \/ ~dead /\ (WriteFails(o, d2) \/ TriggerFails(o, d2))
    /\ Idle

\* Agregat::realize of a new object: oidMake, then IDB_objectCreate.  An index
\* that refuses it deletes it again, inverse attributes included, and the error
\* leaves the transaction usable.
Create(o, v) ==
    /\ Usable /\ db.st[o] = "none" /\ (v # Null => OneSide(o) /\ db.st[v] = "live")
    /\ LET d1 == [db EXCEPT !.st[o] = "live", !.one[o] = v]
           d2 == CreateInverse(d1, o, v)
       IN  \/ /\ Cardinality({u \in Objs : held[u].in}) < MaxHeld
              /\ db' = d2 /\ created' = created \cup {o}
              /\ held' = [Patched(d2, Rewritten(v)) EXCEPT
                             ![o] = [in |-> TRUE, val |-> Attr(d2, o), edit |-> "no"]]
              /\ UNCHANGED <<incoh, ctx, deleted>>
           \/ WriteFails(o, d2) \/ TriggerFails(o, d2)
           \/ /\ "constraint" \in Faults
              /\ rel = "1_1" /\ v # Null => "refused" \in Careless
              /\ db' = Without(RemoveInverse(d1, o, v), o, "none")
              /\ UNCHANGED <<incoh, held, ctx, created, deleted>>
    /\ Idle

\* Mutant: the deleted object is not marked.
RemoveNoMark(o) ==
    /\ Usable /\ db.st[o] = "live"
    /\ db' = DeleteInstance(RemoveInverse(db, o, Attr(db, o)), o)
    /\ held' = [held EXCEPT ![o] = NotHeld]
    /\ Idle /\ UNCHANGED <<incoh, ctx, created, deleted>>

\* Agregat::remove.  The collection that the client knows of is removed by a call
\* of its own, which ignores the errors of the inverse attributes; then
\* IDB_objectDelete, for which a removed collection has no elements.
Remove(o) ==
    /\ Usable /\ db.st[o] = "live"
    /\ LET known == ~OneSide(o) /\ (IF held[o].in THEN held[o].val ELSE db.has[o])
           shared == rel = "N_N" /\ \E x \in db.many[o] : db.many[x] # {o}
           d1 == IF known THEN DeleteColl(db, o) ELSE RemoveInverse(db, o, Attr(db, o))
           d2 == DeleteInstance(d1, o)
       IN  /\ known /\ shared => "shared" \in Careless
           /\ \/ /\ db' \in {d2} \cup (IF known /\ "ignored" \in Faults
                                       THEN {DeleteInstance(d, o) : d \in Half(db, d1)} ELSE {})
                 /\ held' = [Patched(d2, {}) EXCEPT ![o] = NotHeld]
                 /\ created' = created \ {o}
                 /\ deleted' = IF o \in created THEN deleted ELSE deleted \cup {o}
                 /\ UNCHANGED <<incoh, ctx>>
              \/ WriteFails(o, d2) \/ TriggerFails(o, d2)
    /\ Idle

\* A collection is written: by its owner's store, which breaks the transaction if
\* it fails, or by itself, which does not.  Collections have no triggers.
CollWrite(o, d2, W) ==
    \/ /\ db' = d2 /\ held' = [Patched(d2, W) EXCEPT ![o].val = TRUE]
       /\ UNCHANGED <<incoh, ctx, created, deleted>>
    \/ WriteFails(o, d2)
    \/ /\ "collection" \in Careless /\ "write" \in Faults
       /\ db' \in Half(db, d2) /\ UNCHANGED <<incoh, held, ctx, created, deleted>>

\* IDB_collectionWrite: the index of the collection first, then the inverse
\* attribute of the element.
CollInsert(o, x) ==
    /\ Usable /\ held[o].in /\ ~OneSide(o) /\ held[o].val = db.has[o]
    /\ db.st[x] = "live" /\ x \notin db.many[o]
    /\ rel = "1_N" /\ db.one[x] # Null /\ db.many[db.one[x]] # {x} => "move" \in Careless
    /\ CollWrite(o, InsertInverse(Into(db, o, x), o, x), IF rel = "1_N" THEN {x} ELSE {})
    /\ Idle
CollSuppress(o, x) ==
    /\ Usable /\ held[o].in /\ ~OneSide(o) /\ held[o].val = db.has[o]
    /\ x \in db.many[o]
    /\ rel = "N_N" /\ db.many[x] # {o} => "shared" \in Careless
    /\ CollWrite(o, SuppressInverse(OutOf(db, o, x), o, x), IF rel = "1_N" THEN {x} ELSE {})
    /\ Idle

\* IDB_objectDeletedManage(commit): the marked objects are reduced to a header,
\* and the marks are emptied even if that fails.
Header == [NoObject EXCEPT !.st = [o \in Objs |-> "shrunk"]]
Shrink(d, S) == Mixed(d, Header, S)

\* Mutant: the incoherency of the transaction is not tested.
CommitIncoherent ==
    /\ open /\ created' = {} /\ deleted' = {}
    /\ db' = Shrink(db, deleted) /\ saved' = db'
    /\ open' = FALSE /\ tired' = FALSE /\ held' = [o \in Objs |-> NotHeld]
    /\ UNCHANGED <<rel, incoh, ctx>>

Commit ==
    /\ Usable
    /\ created' = {} /\ deleted' = {}
    /\ \/ /\ db' = Shrink(db, deleted) /\ saved' = db'
          /\ open' = FALSE /\ tired' = FALSE /\ held' = [o \in Objs |-> NotHeld]
       \/ /\ "commit" \in Faults
          /\ \E S \in SUBSET deleted : db' = Shrink(db, S)
          /\ tired' = TRUE /\ UNCHANGED <<saved, open, held>>
    /\ UNCHANGED <<rel, incoh, ctx>>

Abort ==
    /\ open /\ open' = FALSE
    /\ db' = saved /\ incoh' = FALSE /\ tired' = FALSE
    /\ held' = [o \in Objs |-> NotHeld] /\ created' = {} /\ deleted' = {}
    /\ UNCHANGED <<rel, saved, ctx>>

Next ==
    \/ Begin \/ Commit \/ Abort
    \/ \E o \in Objs : Load(o) \/ Edit(o) \/ Store(o) \/ Remove(o)
    \/ \E o \in Objs, v \in Objs \cup {Null} : v \in Partners(o) \cup {Null} /\ Create(o, v)
    \/ \E o \in Objs : \E x \in Partners(o) : CollInsert(o, x) \/ CollSuppress(o, x)

Spec == Init /\ [][Next]_vars

-----------------------------------------------------------------------------
Data == [st: [Objs -> {"none", "live", "removed", "shrunk"}], one: [Objs -> Objs \cup {Null}],
         has: [Objs -> BOOLEAN], many: [Objs -> SUBSET Objs]]

\* The state has its type; a collection has elements only if its owner refers to
\* it, and only a transaction has marks, cached objects or uncommitted changes.
TypeOK ==
    /\ rel \in Rels /\ db \in Data /\ saved \in Data
    /\ {open, incoh, tired, ctx} \subseteq BOOLEAN
    /\ \A o \in Objs : db.many[o] # {} => db.has[o]
    /\ \A o \in Objs : held[o].in => db.st[o] = "live" /\ open
    /\ created \subseteq Objs /\ deleted \subseteq Objs
    /\ ~open => db = saved /\ created = {} /\ deleted = {} /\ ~incoh /\ ~tired

Points(d, o, u) == d.st[o] = "live" /\ (IF OneSide(o) THEN d.one[o] = u ELSE u \in d.many[o])
Pairs(d) == {p \in A \X B : Points(d, p[1], p[2])}
Symmetric(d) == \A a \in A, b \in B : Points(d, a, b) <=> Points(d, b, a)

\* The manual's referential integrity: the two ends of a relationship agree, and
\* no live object refers to a removed one, in what is committed and in what a
\* transaction that has not failed sees.
RelIntegrity == Symmetric(saved) /\ (~incoh => Symmetric(db))

\* Whatever the server does to the other ends, the client's cached objects hold
\* the reference of the database unless the application changed it.
CacheFresh ==
    ~incoh /\ ~ctx => \A o \in Objs :
        held[o].in /\ OneSide(o) /\ held[o].edit # "ref" => held[o].val = db.one[o]

\* To store an object whose relationship was not edited changes no link.
StoreKeepsLinks ==
    [][\A o \in Objs : held[o].edit = "other" /\ held'[o].in /\ held'[o].edit = "no" /\ ~ctx
                          => Pairs(db') = Pairs(db)]_vars

\* A committed removal has given the object's space back: no committed object is
\* only flagged.
RemovedShrunk == \A o \in Objs : saved.st[o] # "removed"

\* The pairs of live objects behave as the abstract relation: a call makes or
\* breaks one link, or forgets one object, or breaks the transaction.
R == INSTANCE AbstractRelation WITH pairs <- IF incoh THEN {} ELSE Pairs(db),
                                    saved <- Pairs(saved), broken <- incoh
RelationSpec == R!Spec
=============================================================================
