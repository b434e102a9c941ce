------------------------------ MODULE Realize ------------------------------
(***************************************************************************)
(* The client's recursive store and remove of a graph of objects            *)
(* (Object::store, Agregat::realize, AttrIndirect::realize, Agregat::remove,*)
(* AttrIndirect::remove).                                                   *)
(*                                                                         *)
(* An object has a plain value and attributes that refer to other objects,  *)
(* by a pointer in memory and by an oid in the part that is written.  A     *)
(* call goes down the pointers of the attributes its RecMode names; the     *)
(* stack holds the activations of realize or remove.  An object and its oid *)
(* have the same name.                                                      *)
(***************************************************************************)
EXTENDS Naturals, Sequences, FiniteSets

CONSTANTS
    Obj, Null,
    NAttr,       \* the attributes are 1..NAttr
    Faults,      \* what may fail: {"write", "constraint"}
    Modes,       \* the RecModes used: sets of attributes to go down
    Graphs,      \* the pointers that the application may start with
    MaxEdits,    \* bound: changes by the application
    MaxCalls     \* bound: calls to store and remove

ASSUME RealizeAssumption ==
    /\ Null \notin Obj /\ IsFiniteSet(Obj)
    /\ NAttr \in Nat \ {0} /\ MaxEdits \in Nat /\ MaxCalls \in Nat
    /\ Faults \subseteq {"write", "constraint"} /\ Modes \subseteq SUBSET (1..NAttr)
    /\ Graphs \subseteq [Obj -> [1..NAttr -> Obj \cup {Null}]]

Attrs == 1..NAttr

VARIABLES
    obj,        \* the objects: oid made or not, pointers, oids, value, flags
    db,         \* what the server has of each
    op,         \* the call under way: "store", "remove" or "none"
    mode,       \* its RecMode: the attributes it goes down
    realized,   \* realizedMap, used if useMap
    stack,      \* the activations: object, attribute, newly created or not
    ret,        \* what the last activation returned: "ok", "err", "refused" or "none"
    broken,     \* Transaction::incoherency
    refused,    \* a constraint has refused an object
    last,       \* the last call, until the application changes an object
    visits,     \* how often the call under way has stored each object
    edits, calls

vars == <<obj, db, op, mode, realized, stack, ret, broken, refused, last, visits, edits, calls>>

NoCall  == [op |-> "none", root |-> Null, mode |-> {}, clean |-> FALSE, ok |-> FALSE]
Nothing == [st |-> "none", val |-> 0, ref |-> [a \in Attrs |-> Null]]

\* New objects, with pointers between them.
Init ==
    /\ \E g \in Graphs :
          obj = [o \in Obj |-> [oid |-> FALSE, ptr |-> g[o], ref |-> [a \in Attrs |-> Null],
                                val |-> 0, modify |-> \E a \in Attrs : g[o][a] # Null,
                                realizing |-> FALSE, removed |-> FALSE]]
    /\ db = [o \in Obj |-> Nothing]
    /\ op = "none" /\ mode = {} /\ realized = {} /\ stack = <<>> /\ ret = "none"
    /\ broken = FALSE /\ refused = FALSE /\ last = NoCall
    /\ visits = [o \in Obj |-> 0] /\ edits = 0 /\ calls = 0

\* isAgregRecurs: the first attribute of o, from i on, that a call with mode m goes
\* down; NAttr + 1 after the last.
Down(o, i, m) ==
    CHOOSE a \in i..(NAttr + 1) :
        /\ a \in Attrs => a \in m /\ obj[o].ptr[a] # Null
        /\ \A b \in i..(a - 1) : b \notin m \/ obj[o].ptr[b] = Null

Top   == stack[Len(stack)]
Below == SubSeq(stack, 1, Len(stack) - 1)

-----------------------------------------------------------------------------
(* The application.                                                         *)

MayEdit == op = "none" /\ ~broken /\ edits < MaxEdits /\ edits' = edits + 1 /\ last' = NoCall

\* A change of the plain value.
SetVal(o) ==
    /\ MayEdit
    /\ obj' = [obj EXCEPT ![o].val = 1 - @, ![o].modify = TRUE]
    /\ UNCHANGED <<db, op, mode, realized, stack, ret, broken, refused, visits, calls>>

\* AttrIndirect::setValue: the oid follows the pointer only if the target has
\* one; a null pointer leaves the oid.
SetValue(o, a, t) ==
    /\ MayEdit /\ t # obj[o].ptr[a]
    /\ obj' = [obj EXCEPT ![o].ptr[a] = t, ![o].modify = TRUE,
                          ![o].ref[a] = IF t # Null /\ obj[t].oid THEN t ELSE @]
    /\ UNCHANGED <<db, op, mode, realized, stack, ret, broken, refused, visits, calls>>

-----------------------------------------------------------------------------
(* Agregat::realize.                                                        *)

\* An activation of realize on t ends with an error r: setIncoherency unless a
\* constraint refused the object.  In all cases the flag is cleared and the object
\* is in realizedMap.
Fails(r, t, s) ==
    /\ ret' = r /\ stack' = s /\ broken' = (broken \/ r = "err")
    /\ refused' = (refused \/ r = "refused")
    /\ obj' = [obj EXCEPT ![t].realizing = FALSE]
    /\ realized' = realized \cup {t}

\* Mutant: the test of realizedMap is dropped.
RealizeNoMap(t, s, m) ==
    IF obj[t].realizing
    THEN ret' = "ok" /\ stack' = s /\ UNCHANGED <<obj, db, broken, refused, realized, visits>>
    ELSE /\ ret' = "none" /\ stack' = Append(s, [o |-> t, i |-> Down(t, 1, m), new |-> ~obj[t].oid])
         /\ obj' = [obj EXCEPT ![t].oid = TRUE, ![t].realizing = TRUE]
         /\ db' = [db EXCEPT ![t].st = IF obj[t].oid THEN @ ELSE "reserved"]
         /\ visits' = [visits EXCEPT ![t] = @ + 1]
         /\ UNCHANGED <<broken, refused, realized>>

\* The call of realize on t, down to its attributes.  It returns at once if t is
\* being stored, or was stored by this call (and then leaves the flag set); a new
\* object gets its oid here, before what it refers to is stored.
Realize(t, s, m) ==
    \/ /\ obj[t].realizing
       /\ ret' = "ok" /\ stack' = s /\ UNCHANGED <<obj, db, broken, refused, realized, visits>>
    \/ /\ ~obj[t].realizing /\ t \in realized
       /\ ret' = "ok" /\ stack' = s /\ obj' = [obj EXCEPT ![t].realizing = TRUE]
       /\ UNCHANGED <<db, broken, refused, realized, visits>>
    \/ /\ ~obj[t].realizing /\ t \notin realized
       /\ ret' = "none" /\ stack' = Append(s, [o |-> t, i |-> Down(t, 1, m), new |-> ~obj[t].oid])
       /\ obj' = [obj EXCEPT ![t].oid = TRUE, ![t].realizing = TRUE]
       /\ db' = [db EXCEPT ![t].st = IF obj[t].oid THEN @ ELSE "reserved"]
       /\ visits' = [visits EXCEPT ![t] = @ + 1]
       /\ UNCHANGED <<broken, refused, realized>>
    \/ /\ ~obj[t].realizing /\ t \notin realized /\ ~obj[t].oid     \* oidMake fails
       /\ "write" \in Faults /\ Fails("err", t, s) /\ UNCHANGED <<db, visits>>

\* Object::store: beginRealize starts with an empty map (NoRecurs does not use it,
\* and meets no object twice).
Store(o, m) ==
    /\ op = "none" /\ ~broken /\ calls < MaxCalls /\ calls' = calls + 1
    /\ op' = "store" /\ mode' = m
    /\ last' = [op |-> "store", root |-> o, mode |-> m, ok |-> FALSE,
                clean |-> ~refused /\ \A u \in Obj : ~obj[u].realizing]
    /\ Realize(o, <<>>, m)
    /\ UNCHANGED edits

\* Mutant: a new object is not written if its attributes did not change.
WriteModifiedOnly ==
    /\ op = "store" /\ Len(stack) > 0 /\ ret = "none" /\ Top.i > NAttr
    /\ db' = IF obj[Top.o].modify
             THEN [db EXCEPT ![Top.o] = [st |-> "written", val |-> obj[Top.o].val,
                                         ref |-> obj[Top.o].ref]]
             ELSE db
    /\ obj' = [obj EXCEPT ![Top.o].modify = FALSE, ![Top.o].realizing = FALSE]
    /\ ret' = "ok" /\ stack' = Below /\ realized' = realized \cup {Top.o}
    /\ UNCHANGED <<op, mode, broken, refused, last, visits, edits, calls>>

\* The end of Agregat::realize: objectCreate for a new object, objectWrite for a
\* modified one.  The server deletes a new object that a constraint refuses; to
\* write an object it does not have fails.
Write ==
    /\ op = "store" /\ Len(stack) > 0 /\ ret = "none" /\ Top.i > NAttr
    /\ LET f == Top
           o == obj[f.o]
           calling == f.new \/ o.modify
       IN  \/ /\ calling => db[f.o].st # "none"
              /\ db' = IF calling THEN [db EXCEPT ![f.o] = [st |-> "written", val |-> o.val, ref |-> o.ref]]
                       ELSE db
              /\ obj' = [obj EXCEPT ![f.o].modify = IF calling THEN FALSE ELSE @,
                                    ![f.o].realizing = FALSE]
              /\ ret' = "ok" /\ stack' = Below /\ realized' = realized \cup {f.o}
              /\ UNCHANGED <<broken, refused>>
           \/ /\ calling /\ (db[f.o].st = "none" \/ "write" \in Faults)
              /\ Fails("err", f.o, Below) /\ UNCHANGED db
           \/ /\ calling /\ db[f.o].st # "none" /\ "constraint" \in Faults
              /\ Fails("refused", f.o, Below)
              /\ db' = IF f.new THEN [db EXCEPT ![f.o] = Nothing] ELSE db
    /\ UNCHANGED <<op, mode, last, visits, edits, calls>>

-----------------------------------------------------------------------------
(* Agregat::remove.  The flag Removing is set while an activation is there.  *)

Removing(t) == \E k \in DOMAIN stack : stack[k].o = t

\* The call on t, down to its attributes.  The caller takes "not created" for a
\* success.
RemoveCall(t, s, m) ==
    /\ IF obj[t].oid /\ ~Removing(t)
       THEN ret' = "none" /\ stack' = Append(s, [o |-> t, i |-> Down(t, 1, m), new |-> FALSE])
       ELSE ret' = "ok" /\ stack' = s
    /\ UNCHANGED <<obj, db, broken, refused, realized, visits>>

Remove(o, m) ==
    /\ op = "none" /\ ~broken /\ calls < MaxCalls /\ calls' = calls + 1
    /\ obj[o].oid
    /\ op' = "remove" /\ mode' = m
    /\ last' = [op |-> "remove", root |-> o, mode |-> m, ok |-> FALSE, clean |-> TRUE]
    /\ RemoveCall(o, <<>>, m)
    /\ UNCHANGED edits

\* Mutant: the status of objectDelete is not returned.
DeleteStatusLost ==
    /\ op = "remove" /\ Len(stack) > 0 /\ ret = "none" /\ Top.i > NAttr
    /\ LET o == Top.o
       IN  \/ db' = [db EXCEPT ![o] = Nothing] /\ obj' = [obj EXCEPT ![o].removed = TRUE]
           \/ "write" \in Faults /\ UNCHANGED <<db, obj>>
    /\ ret' = "ok" /\ stack' = Below
    /\ UNCHANGED <<op, mode, broken, refused, realized, last, visits, edits, calls>>

\* Object::remove_r: an object removed before makes the call fail.
Delete ==
    /\ op = "remove" /\ Len(stack) > 0 /\ ret = "none" /\ Top.i > NAttr
    /\ LET o == Top.o
       IN  \/ /\ ~obj[o].removed /\ db[o].st # "none"
              /\ db' = [db EXCEPT ![o] = Nothing] /\ obj' = [obj EXCEPT ![o].removed = TRUE]
              /\ ret' = "ok" /\ UNCHANGED broken
           \/ /\ obj[o].removed \/ db[o].st = "none" \/ "write" \in Faults
              /\ ret' = "err" /\ broken' = TRUE /\ UNCHANGED <<db, obj>>
    /\ stack' = Below
    /\ UNCHANGED <<op, mode, refused, realized, last, visits, edits, calls>>

-----------------------------------------------------------------------------
(* AttrIndirect::realize and AttrIndirect::remove: one attribute of the      *)
(* object at the top of the stack.                                          *)

AtAttr == Len(stack) > 0 /\ Top.i <= NAttr
Advance == stack' = Append(Below, [Top EXCEPT !.i = Down(Top.o, @ + 1, mode)])

GoDown ==
    /\ AtAttr /\ ret = "none"
    /\ \/ op = "store"  /\ Realize(obj[Top.o].ptr[Top.i], stack, mode)
       \/ op = "remove" /\ RemoveCall(obj[Top.o].ptr[Top.i], stack, mode)
    /\ UNCHANGED <<op, mode, last, edits, calls>>

\* Mutant: the oid of the object that was just stored is not copied.
SetItemOidNever ==
    /\ AtAttr /\ ret = "ok" /\ Advance /\ ret' = "none"
    /\ UNCHANGED <<obj, db, op, mode, realized, broken, refused, last, visits, edits, calls>>

\* Mutant: the loop does not go on to the next attribute.
SetItemOidStays ==
    /\ AtAttr /\ ret = "ok" /\ ret' = "none"
    /\ UNCHANGED <<obj, stack, db, op, mode, realized, broken, refused, last, visits, edits, calls>>

\* Agregat::setItemOid after the call has returned: the target's oid, or the null
\* one when it was removed.
SetItemOid ==
    /\ AtAttr /\ ret = "ok"
    /\ LET t == IF op = "store" THEN obj[Top.o].ptr[Top.i] ELSE Null
       IN  obj' = [obj EXCEPT ![Top.o].ref[Top.i] = t,
                              ![Top.o].modify = @ \/ obj[Top.o].ref[Top.i] # t]
    /\ Advance /\ ret' = "none"
    /\ UNCHANGED <<db, op, mode, realized, broken, refused, last, visits, edits, calls>>

\* The error goes up: every activation ends with it.
Unwind ==
    /\ Len(stack) > 0 /\ ret \in {"err", "refused"}
    /\ \/ op = "store" /\ Fails(ret, Top.o, Below)
       \/ /\ op = "remove" /\ stack' = Below /\ broken' = TRUE
          /\ UNCHANGED <<obj, ret, refused, realized>>
    /\ UNCHANGED <<db, op, mode, last, visits, edits, calls>>

\* endRealize; the result of the call.
Return ==
    /\ op # "none" /\ stack = <<>> /\ ret # "none"
    /\ last' = [last EXCEPT !.ok = (ret = "ok")]
    /\ op' = "none" /\ mode' = {} /\ ret' = "none" /\ realized' = {}
    /\ visits' = [u \in Obj |-> 0]
    /\ UNCHANGED <<obj, db, stack, broken, refused, edits, calls>>

Step == GoDown \/ SetItemOid \/ Unwind \/ Write \/ Delete \/ Return

Next ==
    \/ \E o \in Obj : SetVal(o)
    \/ \E o \in Obj, a \in Attrs, t \in Obj \cup {Null} : SetValue(o, a, t)
    \/ \E o \in Obj, m \in Modes : Store(o, m) \/ Remove(o, m)
    \/ Step

Spec == Init /\ [][Next]_vars /\ WF_vars(Step)

-----------------------------------------------------------------------------
Objects == [oid: BOOLEAN, ptr: [Attrs -> Obj \cup {Null}], ref: [Attrs -> Obj \cup {Null}],
            val: {0, 1}, modify: BOOLEAN, realizing: BOOLEAN, removed: BOOLEAN]

\* Every variable has its type.
TypeOK ==
    /\ obj \in [Obj -> Objects]
    /\ \A o \in Obj : db[o].st \in {"none", "reserved", "written"}
    /\ op \in {"none", "store", "remove"} /\ mode \subseteq Attrs /\ realized \subseteq Obj
    /\ ret \in {"none", "ok", "err", "refused"} /\ {broken, refused} \subseteq BOOLEAN

\* What a call with mode m from o goes down to, through objects that have an oid:
\* what is in every set of objects with o that it does not lead out of.
Closed(S, m) ==
    \A u \in S, a \in m : obj[u].oid /\ obj[u].ptr[a] # Null => obj[u].ptr[a] \in S

Reach(o, m) == {u \in Obj : \A S \in SUBSET Obj : o \in S /\ Closed(S, m) => u \in S}

Synchronized(o, m) ==
    /\ db[o] = [st |-> "written", val |-> obj[o].val, ref |-> obj[o].ref]
    /\ \A a \in m : obj[o].ptr[a] # Null => obj[o].ref[a] = obj[o].ptr[a]

Stores == last.op = "store" /\ last.ok

\* A store that succeeds, if no earlier one has left a flag set or been refused by
\* a constraint, has written every object it goes down to, cycles and shared
\* objects included, with the oids of the objects that its pointers refer to.  What
\* was removed before is not written again (and the store does not say so).
StoreComplete ==
    Stores /\ last.clean =>
        \A o \in Reach(last.root, last.mode) : obj[o].removed \/ Synchronized(o, last.mode)

\* The manual's promise without that condition: store() synchronizes the object
\* with the database.
StoreSynchronizes ==
    Stores => \A o \in Reach(last.root, last.mode) : Synchronized(o, last.mode)

\* Between calls of a transaction that can be committed, if no constraint has
\* refused an object: no object has only its oid, and no stored reference leads to
\* an object that was not stored, unless that was removed.
RefsStored ==
    op = "none" /\ ~broken /\ ~refused =>
        \A o \in Obj : /\ db[o].st # "reserved"
                       /\ \A a \in Attrs : LET t == db[o].ref[a]
                                           IN  t # Null /\ ~obj[t].removed => db[t].st = "written"

\* A call stores an object once, however many paths lead to it, and an activation
\* is never started on an object that has one: the recursion is bounded by the
\* number of objects.
VisitedOnce ==
    /\ TypeOK
    /\ \A o \in Obj : visits[o] <= 1
    /\ \A j, k \in DOMAIN stack : stack[j].o = stack[k].o => j = k
    /\ \A k \in DOMAIN stack : op = "store" => obj[stack[k].o].realizing

\* A recursive remove that succeeds has removed all it goes down to.
RemoveComplete ==
    last.op = "remove" /\ last.ok =>
        \A o \in Reach(last.root, last.mode) : obj[o].oid => obj[o].removed /\ db[o].st = "none"

\* Every call returns, whatever the graph.
CallReturns == op # "none" ~> op = "none"
=============================================================================
