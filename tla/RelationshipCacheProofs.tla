---------------------- MODULE RelationshipCacheProofs ----------------------
(***************************************************************************)
(* More proofs about module Relationship, for any number of objects: the    *)
(* committed removals are complete, the client's copies are fresh, a store  *)
(* that edits no reference changes no link, and the pairs of live objects   *)
(* behave as AbstractRelation says.  Each has the weakest assumption on     *)
(* Faults and Careless that its proof needs.                                *)
(***************************************************************************)
EXTENDS RelationshipProofs

-----------------------------------------------------------------------------
(* What a call that does not break the transaction leaves.                  *)

\* On the client: a copy of another object is untouched and its attribute too,
\* or it has the new attribute; the copy of o, if there is one, has that of o.
Reply(o) ==
    /\ rel' = rel /\ ctx' = ctx
    /\ \A u \in Objs \ {o} :
          /\ held'[u].in = held[u].in /\ held'[u].edit = held[u].edit
          /\ held[u].in /\ ~ctx /\ OneSide(u) =>
                \/ held'[u].val = held[u].val /\ db'.one[u] = db.one[u]
                \/ held'[u].val = db'.one[u]
    /\ held'[o].in /\ ~ctx /\ OneSide(o) => held'[o].val = db'.one[o]

\* On the server: no other object is flagged, and o is marked if it is.
Flags(o) ==
    /\ saved' = saved /\ open' = open /\ tired' = tired
    /\ \A u \in Objs \ {o} : db'.st[u] = db.st[u]
    /\ deleted \subseteq deleted'
    /\ db'.st[o] = "removed" => o \in deleted'

\* A call on o that wrote e, with the reply that object_epilogue makes of it.
LEMMA PatchReply ==
    ASSUME TypeInv, Idle, NEW o \in Objs, NEW e, Formed(e), NEW W, db' = e, ctx' = ctx,
           \A u \in Objs \ {o} : held'[u] = Patched(e, W)[u],
           held'[o].in /\ ~ctx /\ OneSide(o) => held'[o].val = e.one[o]
    PROVE  Reply(o)
  <1> DEFINE h == Patched(e, W)
  <1>1. HeldOK
    BY DEF TypeInv
  <1>2. \A u \in Objs : /\ h[u].in = held[u].in /\ h[u].edit = held[u].edit
                        /\ h[u].val = IF held[u].in /\ ~ctx /\ OneSide(u)
                                           /\ (e.one[u] # db.one[u] \/ u \in W)
                                      THEN e.one[u] ELSE held[u].val
    BY <1>1, PatchedIs
  <1>3. \A u \in Objs \ {o} : held'[u] = h[u]
    OBVIOUS
  <1> HIDE DEF h
  <1> QED  BY <1>2, <1>3 DEF Reply, Idle

\* A stored object has the reference that was stored.
LEMMA StoredOne ==
    ASSUME TypeInv, NEW o \in Objs, held[o].in, OneSide(o),
           held[o].val # Null => db.st[held[o].val] # "none"
    PROVE  Stored(o).one[o] = held[o].val
  <1>1. held[o].val \in AttrType(o) /\ Formed(db) /\ rel \in Rels
    BY DEF TypeInv, HeldOK, HeldAt
  <1> DEFINE f == UpdateInverse(db, o, held[o].val)
  <1>2. Formed(f)
    BY <1>1, UpdateFormed
  <1>3. held[o].val \in Oids
    BY <1>1, PartnersAre DEF AttrType, Oids
  <1> HIDE DEF f
  <1>4. f \in Data
    BY <1>2 DEF Formed
  <1>5. PutAttr(f, o, held[o].val).one[o] = held[o].val
    BY <1>3, <1>4, PutOneIs DEF PutAttr
  <1> QED  BY <1>5 DEF Stored, f

\* A store that succeeds writes Stored(o) and replies.
LEMMA StoreReply ==
    ASSUME TypeInv, NEW o \in Objs, Store(o)
    PROVE  incoh' \/ (~incoh' /\ Reply(o) /\ Flags(o) /\ db' = Stored(o))
  <1>0. held[o].in /\ open /\ Idle /\ db.st[o] = "live" /\ ~incoh /\ HeldOK
    BY DEF Store, Usable, TypeInv, HeldOK, HeldAt
  <1> DEFINE v == held[o].val
             dead == OneSide(o) /\ v # Null /\ db.st[v] \in {"none", "shrunk"}
  <1>2. CASE /\ ~dead /\ db' = Stored(o)
             /\ held' = [Patched(Stored(o), Rewritten(v)) EXCEPT ![o].edit = "no"]
             /\ UNCHANGED <<incoh, ctx, created, deleted>>
    <2>1. Formed(Stored(o)) /\ Stored(o).st = db.st
      BY <1>0, <1>2, StoredFormed
    <2>2. OneSide(o) => Stored(o).one[o] = v
      BY <1>0, <1>2, StoredOne
    <2> DEFINE e == Stored(o)
               h == Patched(e, Rewritten(v))
    <2>3. /\ h \in [Objs -> Copy]
          /\ h[o].in
          /\ h[o].val = v \/ h[o].val = e.one[o]
      BY <1>0, <2>1, PatchedIs
    <2>4. held' = [h EXCEPT ![o].edit = "no"]
      BY <1>2
    <2> HIDE DEF h
    <2>5. /\ \A u \in Objs \ {o} : held'[u] = h[u]
          /\ held'[o].val = h[o].val
      BY <2>3, <2>4 DEF Copy
    <2>6. Reply(o)
      BY <1>0, <1>2, <2>1, <2>2, <2>3, <2>5, PatchReply DEF h
    <2> QED  BY <1>0, <1>2, <2>1, <2>6 DEF Flags, Idle
  <1>3. CASE Broken(o)
    BY <1>3 DEF Broken
  <1>4. CASE WriteFails(o, Stored(o)) \/ TriggerFails(o, Stored(o))
    BY <1>4, FailEffect
  <1> QED  BY <1>2, <1>3, <1>4 DEF Store, Stored

\* An object that an index refuses leaves the references of the others alone,
\* unless the relation is 1:1 and it referred to one of them.
LEMMA RefusedOne ==
    ASSUME NEW d, Formed(d), rel \in Rels, NEW o \in Objs, NEW v \in Partners(o) \cup {Null},
           d.st[o] = "none", v # Null => OneSide(o), rel = "1_1" => v = Null
    PROVE  LET e == Without(RemoveInverse(NewObject(d, o, v), o, v), o, "none")
           IN  /\ \A u \in Objs : e.st[u] = d.st[u]
               /\ \A u \in Objs \ {o} : OneSide(u) => e.one[u] = d.one[u]
  <1>1. v \in Oids /\ d \in Data /\ d.many[o] = {}
    BY PartnersAre DEF Oids, Formed, FormedAt
  <1> DEFINE f == NewObject(d, o, v)
  <1>2. /\ f.has = d.has /\ f.many = d.many
        /\ \A u \in Objs : /\ f.st[u] = IF u = o THEN "live" ELSE d.st[u]
                           /\ f.one[u] = IF u = o THEN v ELSE d.one[u]
    BY <1>1, NewObjectIs
  <1>d. f \in Data
    BY <1>1, NewObjectIs
  <1> HIDE DEF f
  <1> DEFINE g == RemoveInverse(f, o, v)
  <1>3. g \in Data /\ g.st = f.st /\ \A u \in Objs \ {o} : OneSide(u) => g.one[u] = f.one[u]
    <2>1. CASE rel = "1_1"
      <3>1. g = f
        BY <2>1 DEF RemoveInverse, Remove_1_1
      <3> QED  BY <1>d, <3>1
    <2>2. CASE rel = "1_N" /\ o \in B
      <3>1. g = IF v = Null THEN f ELSE OutOf(f, v, o)
        BY <2>2, RelationshipAssumption DEF RemoveInverse, Remove_1_N
      <3>2. v # Null => v \in Objs
        BY PartnersAre
      <3> QED  BY <1>d, <3>1, <3>2 DEF OutOf, Data
    <2>3. CASE rel = "1_N" /\ o \in A
      <3>1. g = NullIn(f, {})
        BY <1>1, <1>2, <2>3, RelationshipAssumption DEF RemoveInverse, Remove_N_1
      <3> QED  BY <1>d, <3>1, NullInIs
    <2>4. CASE rel = "N_N"
      <3>1. g = Remove_N_N(f, o)
        BY <2>4 DEF RemoveInverse
      <3> QED  BY <1>d, <3>1 DEF Remove_N_N, Data
    <2> QED  BY <2>1, <2>2, <2>3, <2>4, RelIs DEF Objs
  <1>g. g \in Data
    BY <1>3
  <1> HIDE DEF g
  <1> DEFINE e == Without(g, o, "none")
  <1>4. /\ \A u \in Objs \ {o} : e.st[u] = g.st[u] /\ e.one[u] = g.one[u]
        /\ e.st[o] = "none"
    BY <1>g, WithoutIs
  <1> HIDE DEF e
  <1>5. /\ \A u \in Objs : e.st[u] = d.st[u]
        /\ \A u \in Objs \ {o} : OneSide(u) => e.one[u] = d.one[u]
    BY <1>2, <1>3, <1>4
  <1> QED  BY <1>5 DEF e, g, f

\* Every failure is reported: it breaks the transaction, or has changed nothing
\* that a copy of the client depends on.
Reported == /\ "ignored" \notin Faults
            /\ {"refused", "collection"} \cap Careless = {}

\* A creation that succeeds, or that an index refuses.
LEMMA CreateReply ==
    ASSUME TypeInv, NEW o \in Objs, NEW v \in Partners(o) \cup {Null}, Create(o, v)
    PROVE  incoh' \/ (~incoh' /\ Flags(o) /\ (Reported => Reply(o)))
  <1> DEFINE d1 == NewObject(db, o, v)
             d2 == CreateInverse(d1, o, v)
             d3 == Without(RemoveInverse(d1, o, v), o, "none")
  <1>0. /\ open /\ Idle /\ db.st[o] = "none" /\ Formed(db) /\ rel \in Rels /\ ~incoh
        /\ v # Null => OneSide(o) /\ db.st[v] = "live"
        /\ HeldOK
    BY DEF Create, Usable, TypeInv
  <1>p. Partners(o) \subseteq Objs /\ o \notin Partners(o)
    BY PartnersAre
  <1>1. /\ Formed(d1) /\ d1.st[o] = "live" /\ \A u \in Objs \ {o} : d1.st[u] = db.st[u]
    BY <1>0, <1>p DEF Formed, FormedAt, Data, NewObject
  <1>v. v # Null => OneSide(o) /\ d1.st[v] = "live"
    BY <1>0, <1>1, <1>p
  <1>2. Formed(d2) /\ d2.st = d1.st
    <2> HIDE DEF d1
    <2> QED  BY <1>0, <1>1, <1>v, CreateFormed
  <1>3. CASE /\ db' = d2
             /\ held' = [Patched(d2, Rewritten(v)) EXCEPT
                            ![o] = [in |-> TRUE, val |-> Attr(d2, o), edit |-> "no"]]
             /\ UNCHANGED <<incoh, ctx, deleted>>
    <2> HIDE DEF d1, d2
    <2> DEFINE h == Patched(d2, Rewritten(v))
    <2>1. h \in [Objs -> Copy]
      BY <1>0, <1>2, PatchedIs
    <2>2. held' = [h EXCEPT ![o] = [in |-> TRUE, val |-> Attr(d2, o), edit |-> "no"]]
      BY <1>3
    <2> HIDE DEF h
    <2>3. /\ \A u \in Objs \ {o} : held'[u] = h[u]
          /\ held'[o].val = Attr(d2, o)
      BY <2>1, <2>2
    <2>4. Reply(o)
      BY <1>0, <1>2, <1>3, <2>3, PatchReply DEF h, Attr
    <2> QED  BY <1>0, <1>1, <1>2, <1>3, <2>4 DEF Flags, Idle
  <1>4. CASE WriteFails(o, d2) \/ TriggerFails(o, d2)
    BY <1>4, FailEffect
  <1>5. CASE /\ db' = d3 /\ UNCHANGED <<incoh, held, ctx, created, deleted>>
             /\ rel = "1_1" /\ v # Null => "refused" \in Careless
    <2>1. Flags(o)
      <3> DEFINE f == RemoveInverse(d1, o, v)
      <3>1. Formed(f) /\ f.st = d1.st
        <4> HIDE DEF d1
        <4> QED  BY <1>0, <1>1, RemoveFormed
      <3>2. f \in Data
        BY <3>1 DEF Formed
      <3>3. d3 = Without(f, o, "none")
        OBVIOUS
      <3> HIDE DEF f, d1, d3
      <3>4. d3.st[o] = "none" /\ \A u \in Objs \ {o} : d3.st[u] = db.st[u]
        BY <1>1, <3>1, <3>2, <3>3, WithoutIs
      <3> QED  BY <1>0, <1>5, <3>4 DEF Flags, Idle
    <2>2. ASSUME Reported PROVE Reply(o)
      <3>1. rel = "1_1" => v = Null
        BY <1>5, <2>2 DEF Reported
      <3>2. \A u \in Objs \ {o} : OneSide(u) => d3.one[u] = db.one[u]
        BY <1>0, <3>1, RefusedOne
      <3>3. ~held[o].in
        BY <1>0 DEF HeldOK, HeldAt
      <3> HIDE DEF d1, d3
      <3> QED  BY <1>0, <1>5, <3>2, <3>3 DEF Reply, Idle
    <2> QED  BY <1>0, <1>5, <2>1, <2>2
  <1> QED  BY <1>3, <1>4, <1>5 DEF Create, NewObject

\* A removal that succeeds drops the copy.
LEMMA RemoveReply ==
    ASSUME TypeInv, NEW o \in Objs, Remove(o)
    PROVE  incoh' \/ (~incoh' /\ Flags(o) /\ (Reported => Reply(o)) /\ ~held'[o].in)
  <1>0. open /\ Idle /\ db.st[o] = "live" /\ Formed(db) /\ HeldOK /\ ~incoh
    BY DEF Remove, Usable, TypeInv
  <1> DEFINE d1 == Unlinked(o)
             d2 == DeleteInstance(d1, o)
  <1>1. Formed(d1) /\ d1.st = db.st
    BY UnlinkedFormed
  <1> HIDE DEF d1
  <1>2. ASSUME NEW f \in Half(db, d1) \cup {d1}
        PROVE  /\ Formed(DeleteInstance(f, o))
               /\ \A u \in Objs \ {o} : DeleteInstance(f, o).st[u] = db.st[u]
               /\ o \in created => DeleteInstance(f, o).st[o] = "none"
    <2>1. Formed(f) /\ f \in Data /\ \A u \in Objs : f.st[u] = db.st[u]
      BY <1>0, <1>1, HalfIs DEF Formed
    <2> QED  BY <2>1, DeleteInstanceFormed, DeleteInstanceIs
  <1>3. CASE /\ db' \in {DeleteInstance(f, o) : f \in Half(db, d1) \cup {d1}}
             /\ Reported => db' = d2
             /\ held' = [Patched(d2, {}) EXCEPT ![o] = NotHeld]
             /\ deleted' = IF o \in created THEN deleted ELSE deleted \cup {o}
             /\ UNCHANGED <<incoh, ctx>>
    <2>1. /\ \A u \in Objs \ {o} : db'.st[u] = db.st[u]
          /\ o \in created => db'.st[o] = "none"
      BY <1>2, <1>3
    <2>2. Flags(o)
      BY <1>0, <1>3, <2>1 DEF Flags, Idle
    <2>3. Formed(d2)
      BY <1>2
    <2> DEFINE h == Patched(d2, {})
    <2>4. h \in [Objs -> Copy]
      BY <1>0, <2>3, PatchedIs
    <2>5. held' = [h EXCEPT ![o] = NotHeld]
      BY <1>3
    <2> HIDE DEF h, d2
    <2>6. ~held'[o].in /\ \A u \in Objs \ {o} : held'[u] = h[u]
      BY <2>4, <2>5 DEF NotHeld
    <2>7. Reported => Reply(o)
      BY <1>0, <1>3, <2>3, <2>6, PatchReply DEF h
    <2> QED  BY <1>0, <1>3, <2>2, <2>6, <2>7
  <1>4. CASE WriteFails(o, d2) \/ TriggerFails(o, d2)
    BY <1>4, FailEffect
  <1> QED  BY <1>3, <1>4 DEF Remove, d1, Unlinked, Known, Reported

\* A collection written leaves the edits of its owner's copy alone.
LEMMA CollWriteReply ==
    ASSUME TypeInv, open, Idle, ~incoh, NEW o \in Objs, held[o].in, ~OneSide(o),
           NEW e, Formed(e), e.st = db.st, NEW W, CollWrite(o, e, W)
    PROVE  incoh' \/ (~incoh' /\ Flags(o) /\ (Reported => Reply(o))
                      /\ held'[o].edit = held[o].edit)
  <1>0. Formed(db) /\ HeldOK /\ db.st[o] = "live"
    BY DEF TypeInv, HeldOK, HeldAt
  <1>1. CASE /\ db' = e /\ held' = [Patched(e, W) EXCEPT ![o].val = TRUE]
             /\ UNCHANGED <<incoh, ctx, created, deleted>>
    <2> DEFINE h == Patched(e, W)
    <2>2. h \in [Objs -> Copy]
      BY <1>0, PatchedIs
    <2>3. held' = [h EXCEPT ![o].val = TRUE]
      BY <1>1
    <2> HIDE DEF h
    <2>4. \A u \in Objs \ {o} : held'[u] = h[u]
      BY <2>2, <2>3
    <2>5. Reply(o)
      BY <1>1, <2>4, PatchReply DEF h
    <2>6. held'[o].edit = held[o].edit
      <3>1. h[o].edit = held[o].edit
        BY <1>0, PatchedIs DEF h
      <3> QED  BY <2>2, <2>3, <3>1 DEF Copy
    <2> QED  BY <1>0, <1>1, <2>5, <2>6 DEF Flags, Idle
  <1>2. CASE WriteFails(o, e)
    BY <1>2, FailEffect
  <1>3. CASE /\ db' \in Half(db, e) /\ UNCHANGED <<incoh, held, ctx, created, deleted>>
             /\ "collection" \in Careless
    <2>1. \A u \in Objs : db'.st[u] = db.st[u]
      BY <1>0, <1>3, HalfIs
    <2> QED  BY <1>0, <1>3, <2>1 DEF Flags, Idle, Reported
  <1> QED  BY <1>1, <1>2, <1>3 DEF CollWrite

\* The insertion and the suppression write the collection.
LEMMA CollReply ==
    ASSUME TypeInv, NEW o \in Objs, NEW x \in Partners(o), CollInsert(o, x) \/ CollSuppress(o, x)
    PROVE  incoh' \/ (~incoh' /\ Flags(o) /\ (Reported => Reply(o))
                      /\ held'[o].edit = held[o].edit)
  <1>0. open /\ Idle /\ held[o].in /\ ~OneSide(o) /\ ~incoh /\ Formed(db) /\ rel \in Rels
    BY DEF CollInsert, CollSuppress, Usable, TypeInv
  <1>1. CASE CollInsert(o, x)
    <2>1. db.st[o] = "live" /\ db.st[x] = "live"
      BY <1>1 DEF CollInsert, TypeInv, HeldOK, HeldAt
    <2> DEFINE e == InsertInverse(Into(db, o, x), o, x)
    <2>2. Formed(e) /\ e.st = db.st
      BY <1>0, <2>1, InsertFormed
    <2>3. CollWrite(o, e, IF rel = "1_N" THEN {x} ELSE {})
      BY <1>1 DEF CollInsert
    <2> HIDE DEF e
    <2> QED  BY <1>0, <2>2, <2>3, CollWriteReply
  <1>2. CASE CollSuppress(o, x)
    <2> DEFINE e == SuppressInverse(OutOf(db, o, x), o, x)
    <2>2. Formed(e) /\ e.st = db.st
      BY <1>0, SuppressFormed
    <2>3. CollWrite(o, e, IF rel = "1_N" THEN {x} ELSE {})
      BY <1>2 DEF CollSuppress
    <2> HIDE DEF e
    <2> QED  BY <1>0, <2>2, <2>3, CollWriteReply
  <1> QED  BY <1>1, <1>2

-----------------------------------------------------------------------------
(* The committed removals.                                                  *)

\* The inductive form of RemovedShrunk: in a transaction whose calls and commits
\* have succeeded so far, an object that is flagged is marked, so that the commit
\* will reduce it to its header.
Reaped ==
    \A u \in Objs : /\ saved.st[u] # "removed"
                    /\ open /\ ~incoh /\ ~tired /\ db.st[u] = "removed" => u \in deleted

\* A call that succeeds keeps Reaped.
LEMMA FlagsReaped ==
    ASSUME Reaped, ~incoh, open, NEW o \in Objs, Flags(o)
    PROVE  Reaped'
  BY DEF Reaped, Flags

\* Every step keeps Reaped; the commit that fails half way ends it.
LEMMA ReapedStep ==
    ASSUME "retry" \notin Careless, TypeInv, Reaped, [Next]_vars
    PROVE  Reaped'
  <1>b. ASSUME incoh', saved' = saved PROVE Reaped'
    BY <1>b DEF Reaped
  <1>1. ASSUME NEW o \in Objs, Store(o) \/ Remove(o)
        PROVE  Reaped'
    <2>1. saved' = saved /\ ~incoh /\ open
      BY <1>1 DEF Store, Remove, Usable, Idle
    <2>2. incoh' \/ Flags(o)
      BY <1>1, StoreReply, RemoveReply
    <2> QED  BY <1>b, <2>1, <2>2, FlagsReaped
  <1>2. ASSUME NEW o \in Objs, NEW v \in Partners(o) \cup {Null}, Create(o, v)
        PROVE  Reaped'
    <2>1. saved' = saved /\ ~incoh /\ open
      BY <1>2 DEF Create, Usable, Idle
    <2>2. incoh' \/ Flags(o)
      BY <1>2, CreateReply
    <2> QED  BY <1>b, <2>1, <2>2, FlagsReaped
  <1>3. ASSUME NEW o \in Objs, NEW x \in Partners(o), CollInsert(o, x) \/ CollSuppress(o, x)
        PROVE  Reaped'
    <2>1. saved' = saved /\ ~incoh /\ open
      BY <1>3 DEF CollInsert, CollSuppress, Usable, Idle
    <2>2. incoh' \/ Flags(o)
      BY <1>3, CollReply
    <2> QED  BY <1>b, <2>1, <2>2, FlagsReaped
  <1>4. CASE Commit
    <2>1. open /\ ~incoh /\ ~tired /\ Formed(db)
      BY <1>4 DEF Commit, Usable, TypeInv
    <2>2. CASE db' = Shrink(db, deleted) /\ saved' = db' /\ open' = FALSE
      <3>1. \A u \in Objs : db'.st[u] = IF u \in deleted THEN "shrunk" ELSE db.st[u]
        BY <2>1, <2>2, ShrinkIs
      <3> QED  BY <2>1, <2>2, <3>1 DEF Reaped
    <2>3. CASE tired' = TRUE /\ UNCHANGED saved
      BY <2>3 DEF Reaped
    <2> QED  BY <1>4, <2>2, <2>3 DEF Commit
  <1>5. CASE Begin
    <2>1. db' = saved /\ saved' = saved
      BY <1>5 DEF Begin, TypeInv
    <2> QED  BY <2>1 DEF Reaped
  <1>6. CASE Abort
    BY <1>6 DEF Abort, Reaped
  <1>7. ASSUME NEW o \in Objs, Load(o) \/ Edit(o)
        PROVE  Reaped'
    BY <1>7 DEF Load, Edit, Idle, Reaped
  <1>8. CASE UNCHANGED vars
    BY <1>8 DEF vars, Reaped
  <1> QED  BY <1>1, <1>2, <1>3, <1>4, <1>5, <1>6, <1>7, <1>8 DEF Next

\* Committed removals are complete, for any number of objects: if the application
\* does not commit again after a commit has failed, no committed object is only
\* flagged as removed, whatever else fails and whatever else it does.
THEOREM Shrunk ==
    ASSUME "retry" \notin Careless
    PROVE  Spec => []RemovedShrunk
  <1>1. Init => TypeInv /\ Reaped
    BY InitType DEF Init, Reaped, NoObject
  <1>2. TypeInv /\ Reaped /\ [Next]_vars => (TypeInv /\ Reaped)'
    BY NextType, ReapedStep
  <1>3. Reaped => RemovedShrunk
    BY DEF Reaped, RemovedShrunk
  <1> QED  BY <1>1, <1>2, <1>3, PTL DEF Spec

-----------------------------------------------------------------------------
(* The client's copies.                                                     *)

\* A call that succeeds keeps the copies fresh.
LEMMA ReplyFresh ==
    ASSUME CacheFresh, ~incoh, NEW o \in Objs, Reply(o)
    PROVE  CacheFresh'
  <1>1. \A u \in Objs : OneSide(u)' = OneSide(u)
    BY DEF Reply, OneSide
  <1> QED  BY <1>1 DEF Reply, CacheFresh

\* Every step keeps the copies fresh.
LEMMA FreshStep ==
    ASSUME Reported, TypeInv, CacheFresh, [Next]_vars
    PROVE  CacheFresh'
  <1>b. incoh' => CacheFresh'
    BY DEF CacheFresh
  <1>r. \A u \in Objs : OneSide(u)' = OneSide(u)
    BY RelConstant DEF OneSide
  <1>1. ASSUME NEW o \in Objs, Store(o) \/ Remove(o)
        PROVE  CacheFresh'
    <2>1. ~incoh
      BY <1>1 DEF Store, Remove, Usable
    <2>2. incoh' \/ Reply(o)
      BY <1>1, StoreReply, RemoveReply
    <2> QED  BY <1>b, <2>1, <2>2, ReplyFresh
  <1>2. ASSUME NEW o \in Objs, NEW v \in Partners(o) \cup {Null}, Create(o, v)
        PROVE  CacheFresh'
    <2>1. ~incoh
      BY <1>2 DEF Create, Usable
    <2>2. incoh' \/ Reply(o)
      BY <1>2, CreateReply
    <2> QED  BY <1>b, <2>1, <2>2, ReplyFresh
  <1>3. ASSUME NEW o \in Objs, NEW x \in Partners(o), CollInsert(o, x) \/ CollSuppress(o, x)
        PROVE  CacheFresh'
    <2>1. ~incoh
      BY <1>3 DEF CollInsert, CollSuppress, Usable
    <2>2. incoh' \/ Reply(o)
      BY <1>3, CollReply
    <2> QED  BY <1>b, <2>1, <2>2, ReplyFresh
  <1>h. held \in [Objs -> Copy]
    BY DEF TypeInv, HeldOK
  <1>4. ASSUME NEW o \in Objs, Load(o)
        PROVE  CacheFresh'
    <2>1. held' = [held EXCEPT ![o] = [in |-> TRUE, val |-> Attr(db, o), edit |-> "no"]]
      BY <1>4 DEF Load
    <2>2. held'[o].val = Attr(db, o) /\ \A u \in Objs \ {o} : held'[u] = held[u]
      BY <1>h, <2>1
    <2>3. db' = db /\ incoh' = incoh /\ ctx' = ctx
      BY <1>4 DEF Load
    <2> QED  BY <1>r, <2>2, <2>3 DEF Attr, CacheFresh
  <1>5. ASSUME NEW o \in Objs, Edit(o)
        PROVE  CacheFresh'
    <2>1. db' = db /\ incoh' = incoh /\ ctx' = ctx
      BY <1>5 DEF Edit
    <2>2. CASE held[o].edit = "no" /\ held' = [held EXCEPT ![o].edit = "other"]
      <3>1. held'[o].in = held[o].in /\ held'[o].val = held[o].val
        BY <1>h, <2>2 DEF Copy
      <3>2. \A u \in Objs \ {o} : held'[u] = held[u]
        BY <1>h, <2>2
      <3> QED  BY <1>r, <2>1, <2>2, <3>1, <3>2 DEF CacheFresh
    <2>3. ASSUME NEW v, held' = [held EXCEPT ![o].val = v, ![o].edit = "ref"]
          PROVE  CacheFresh'
      <3>1. held'[o].edit = "ref"
        BY <1>h, <2>3 DEF Copy
      <3>2. \A u \in Objs \ {o} : held'[u] = held[u]
        BY <1>h, <2>3
      <3> QED  BY <1>r, <2>1, <3>1, <3>2 DEF CacheFresh
    <2> QED  BY <1>5, <2>2, <2>3 DEF Edit
  <1>6. CASE Commit
    <2>1. CASE held' = [u \in Objs |-> NotHeld]
      BY <2>1 DEF CacheFresh, NotHeld
    <2>2. ASSUME NEW S \in SUBSET deleted, db' = Shrink(db, S), UNCHANGED held
          PROVE  CacheFresh'
      <3>1. \A u \in Objs : held[u].in => u \notin S
        BY DEF TypeInv, HeldOK, HeldAt
      <3>2. Formed(db) /\ incoh' = incoh /\ ctx' = ctx
        BY <1>6 DEF TypeInv, Commit
      <3>3. \A u \in Objs : u \notin S => db'.one[u] = db.one[u]
        BY <2>2, <3>2, ShrinkIs
      <3> QED  BY <1>r, <2>2, <3>1, <3>2, <3>3 DEF CacheFresh
    <2> QED  BY <1>6, <2>1, <2>2 DEF Commit
  <1>7. CASE Abort
    BY <1>7 DEF Abort, CacheFresh, NotHeld
  <1>8. CASE Begin \/ UNCHANGED vars
    BY <1>8, <1>r DEF Begin, vars, CacheFresh
  <1> QED  BY <1>1, <1>2, <1>3, <1>4, <1>5, <1>6, <1>7, <1>8 DEF Next

\* The client's cache, for any number of objects and of cached copies: if every
\* failure is reported, an unedited copy has the reference of the database after
\* each call, whichever other ends the server changed, until a trigger has left
\* inv_list set in the server.
THEOREM Fresh ==
    ASSUME Reported
    PROVE  Spec => []CacheFresh
  <1>1. Init => TypeInv /\ CacheFresh
    BY InitType DEF Init, CacheFresh, NotHeld
  <1>2. TypeInv /\ CacheFresh /\ [Next]_vars => (TypeInv /\ CacheFresh)'
    BY NextType, FreshStep
  <1> QED  BY <1>1, <1>2, PTL DEF Spec

-----------------------------------------------------------------------------
(* A store that edits no reference.                                         *)

\* A call that breaks the transaction drops one copy and edits none.
LEMMA FailEdit ==
    ASSUME TypeInv, NEW o \in Objs, Broken(o), NEW u \in Objs, held'[u].in
    PROVE  held'[u] = held[u]
  BY DEF Broken, NotHeld, TypeInv, HeldOK

\* The calls other than the store of u itself leave no copy of u that was edited
\* unedited: only a store of u makes its edits "no" again.
LEMMA OnlyStoreCleans ==
    ASSUME Reported, TypeInv, [Next]_vars, NEW u \in Objs, held[u].edit = "other",
           held'[u].in, held'[u].edit = "no"
    PROVE  Store(u) /\ ~incoh'
  <1>0. held \in [Objs -> Copy] /\ held[u].in /\ db.st[u] = "live" /\ held[u] # NotHeld
    BY DEF TypeInv, HeldOK, HeldAt, NotHeld
  <1>b. ASSUME NEW o \in Objs, Broken(o) PROVE FALSE
    BY <1>b, FailEdit
  <1>c. ASSUME NEW o \in Objs, NEW e, WriteFails(o, e) \/ TriggerFails(o, e) PROVE FALSE
    BY <1>b, <1>c DEF WriteFails, TriggerFails
  <1>r. ASSUME NEW o \in Objs, Reply(o), o # u PROVE FALSE
    BY <1>r DEF Reply
  <1>1. ASSUME NEW o \in Objs, Store(o)
        PROVE  o = u /\ ~incoh'
    <2>1. ~incoh'
      BY <1>1, <1>b, <1>c DEF Store, Usable
    <2>2. Reply(o)
      BY <1>1, <2>1, StoreReply
    <2> QED  BY <1>r, <2>1, <2>2
  <1>2. ASSUME NEW o \in Objs, Remove(o)
        PROVE  FALSE
    <2>1. ~incoh'
      BY <1>2, <1>c DEF Remove, Usable
    <2> QED  BY <1>2, <1>r, <2>1, RemoveReply
  <1>3. ASSUME NEW o \in Objs, NEW v \in Partners(o) \cup {Null}, Create(o, v)
        PROVE  FALSE
    <2>1. ~incoh' /\ o # u
      BY <1>0, <1>3, <1>c DEF Create, Usable
    <2> QED  BY <1>3, <1>r, <2>1, CreateReply
  <1>4. ASSUME NEW o \in Objs, NEW x \in Partners(o), CollInsert(o, x) \/ CollSuppress(o, x)
        PROVE  FALSE
    <2>1. ~incoh'
      BY <1>4, <1>c DEF CollInsert, CollSuppress, CollWrite, Usable
    <2> QED  BY <1>4, <1>r, <2>1, CollReply
  <1>5. ASSUME NEW o \in Objs, Load(o)
        PROVE  FALSE
    <2>1. o # u
      BY <1>0, <1>5 DEF Load
    <2> QED  BY <1>0, <1>5, <2>1 DEF Load
  <1>6. ASSUME NEW o \in Objs, Edit(o)
        PROVE  FALSE
    BY <1>0, <1>6 DEF Edit, Copy
  <1>7. CASE Commit \/ Abort \/ Begin \/ UNCHANGED vars
    BY <1>0, <1>7 DEF Commit, Abort, Begin, vars, NotHeld
  <1> QED  BY <1>1, <1>2, <1>3, <1>4, <1>5, <1>6, <1>7 DEF Next

\* A link made again is the link that was there.
LEMMA LinksAgain ==
    ASSUME NEW d, NEW e, Symmetric(d), NEW o \in Objs, NEW v \in Partners(o), OneSide(o),
           Points(d, o, v), Links(d, e, o, v)
    PROVE  SameLinks(d, e)
  <1>1. \A p \in Objs : \A q \in Partners(p) : Points(d, p, q) => Points(d, q, p)
    BY SymmetricIs
  <1>2. v \in Objs /\ o \in Partners(v)
    BY PartnersAre
  <1>3. Points(d, v, o)
    BY <1>1
  <1>4. ASSUME NEW p \in Objs, NEW q \in Partners(p)
        PROVE  Points(e, p, q) <=> Points(d, p, q)
    <2>1. Points(e, p, q) <=> \/ (p = o /\ q = v) \/ (p = v /\ q = o)
                              \/ /\ Points(d, p, q)
                                 /\ OneSide(p) => p # o /\ p # v
                                 /\ OneSide(q) => q # o /\ q # v
      BY DEF Links
    <2>2. Points(d, p, q) => Points(d, q, p)
      BY <1>1
    <2>3. ASSUME Points(d, p, q) PROVE Points(e, p, q)
      <3>1. OneSide(p) /\ p = o => q = v
        BY <2>3 DEF Points
      <3>2. OneSide(p) /\ p = v => q = o
        BY <1>3, <2>3 DEF Points
      <3>3. OneSide(q) /\ q = o => p = v
        BY <2>2, <2>3 DEF Points
      <3>4. OneSide(q) /\ q = v => p = o
        BY <1>3, <2>2, <2>3 DEF Points
      <3> QED  BY <2>1, <2>3, <3>1, <3>2, <3>3, <3>4
    <2> QED  BY <1>3, <2>1, <2>3
  <1> QED  BY <1>4 DEF SameLinks

\* The same links are the same pairs.
LEMMA SamePairs ==
    ASSUME NEW d, NEW e, SameLinks(d, e)
    PROVE  Pairs(e) = Pairs(d)
  <1>1. \A p \in A \X B : p[1] \in Objs /\ p[2] \in Partners(p[1])
    BY DEF Objs, Partners
  <1>2. \A p \in A \X B : Points(e, p[1], p[2]) <=> Points(d, p[1], p[2])
    BY <1>1 DEF SameLinks
  <1> QED  BY <1>2 DEF Pairs

\* The store of an object whose reference was not edited: what it writes is what the
\* database has.
LEMMA PlainStore ==
    ASSUME Orderly, "early" \notin Careless, TypeInv, RelIntegrity, CacheFresh,
           NEW o \in Objs, Store(o), ~incoh', held[o].edit = "other", ~ctx
    PROVE  SameLinks(db, db')
  <1> DEFINE v == held[o].val
  <1>0. /\ held[o].in /\ db.st[o] = "live" /\ v \in AttrType(o) /\ Formed(db) /\ rel \in Rels
        /\ ~incoh /\ Symmetric(db)
    BY DEF Store, Usable, TypeInv, HeldOK, HeldAt, RelIntegrity
  <1>1. db' = Stored(o)
    BY StoreReply
  <1>2. OneSide(o) => v = db.one[o]
    BY <1>0 DEF CacheFresh
  <1>3. ~OneSide(o) => v = db.has[o]
    BY DEF Store
  <1>p. OneSide(o) /\ v # Null => v \in Partners(o) /\ o # Null
    BY <1>0, PartnersAre DEF AttrType
  <1>4. OneSide(o) /\ v # Null => Points(db, o, v) /\ Points(db, v, o)
    <2>1. OneSide(o) /\ v # Null => Points(db, o, v)
      BY <1>0, <1>2 DEF Points
    <2> QED  BY <1>0, <1>p, <2>1, SymmetricIs
  <1>5. OneSide(o) /\ v # Null => db.st[v] = "live"
    BY <1>4 DEF Points
  <1>6. /\ OneSide(o) /\ v # Null => Links(db, db', o, v)
        /\ OneSide(o) /\ v = Null => Forgets(db, db', o)
        /\ ~OneSide(o) /\ v => SameLinks(db, db')
        /\ ~OneSide(o) /\ ~v => Forgets(db, db', o)
    BY <1>0, <1>1, <1>5, StoreLinks DEF Stored
  <1>7. CASE OneSide(o) /\ v # Null
    BY <1>0, <1>4, <1>6, <1>7, <1>p, LinksAgain
  <1>8. CASE OneSide(o) /\ v = Null
    BY <1>0, <1>2, <1>6, <1>8, ForgetsNothing
  <1>9. CASE ~OneSide(o)
    <2>1. ~v => db.many[o] = {}
      BY <1>0, <1>3, <1>9 DEF Formed, FormedAt
    <2>2. v \in BOOLEAN
      BY <1>0, <1>9 DEF AttrType
    <2>3. CASE v
      BY <1>6, <1>9, <2>3
    <2>4. CASE ~v
      BY <1>0, <1>6, <1>9, <2>1, <2>4, ForgetsNothing
    <2> QED  BY <2>3, <2>4
  <1> QED  BY <1>7, <1>8, <1>9

\* A store writes no stale reference, for any number of objects: if the
\* application is orderly and stores no object loaded before the server made its
\* collection, the store of an object whose reference it did not edit makes and
\* breaks no link, whatever was done to the other ends since the object was loaded.
THEOREM PlainStores ==
    ASSUME Orderly, "early" \notin Careless
    PROVE  Spec => StoreKeepsLinks
  <1> DEFINE Inv == TypeInv /\ RelIntegrity /\ CacheFresh
             Step == \A o \in Objs : held[o].edit = "other" /\ held'[o].in /\ held'[o].edit = "no" /\ ~ctx
                          => Pairs(db') = Pairs(db)
  <1>0. Reported
    BY DEF Reported, Orderly
  <1>1. Spec => []Inv
    BY <1>0, TypeInvariant, Integrity, Fresh, PTL
  <1>2. ASSUME Inv, [Next]_vars PROVE [Step]_vars
    BY <1>0, <1>2, OnlyStoreCleans, PlainStore, SamePairs
  <1> QED  BY <1>1, <1>2, PTL DEF Spec, StoreKeepsLinks

-----------------------------------------------------------------------------
(* The pairs of live objects behave as the abstract relation.               *)

\* The pairs, by their elements.
LEMMA PairsAre ==
    ASSUME NEW d
    PROVE  /\ Pairs(d) \subseteq A \X B
           /\ \A a \in A, b \in B : <<a, b>> \in Pairs(d) <=> Points(d, a, b)
  BY DEF Pairs

\* Two sets of pairs with the same elements.
LEMMA EqualPairs ==
    ASSUME NEW X \in SUBSET (A \X B), NEW Y \in SUBSET (A \X B),
           \A a \in A, b \in B : <<a, b>> \in X <=> <<a, b>> \in Y
    PROVE  X = Y
  OBVIOUS

\* The two objects of a pair, and which of them has one partner only.
LEMMA ClassesAre ==
    ASSUME rel \in {"1_1", "1_N", "N_N"}
    PROVE  /\ \A a \in A, b \in B : /\ a # b /\ a \in Objs /\ b \in Objs /\ b \in Partners(a)
                                    /\ a \in Partners(b)
           /\ \A a \in A : OneSide(a) <=> rel = "1_1"
           /\ \A b \in B : OneSide(b) <=> rel # "N_N"
  BY RelationshipAssumption DEF Objs, Partners, OneSide

\* AbstractRelation's Forget.
LEMMA ForgetPairs ==
    ASSUME NEW d, NEW e, NEW o \in Objs, Forgets(d, e, o)
    PROVE  Pairs(e) = {p \in Pairs(d) : p[1] # o /\ p[2] # o}
  <1> DEFINE Y == {p \in Pairs(d) : p[1] # o /\ p[2] # o}
  <1>1. ASSUME NEW a \in A, NEW b \in B
        PROVE  <<a, b>> \in Pairs(e) <=> <<a, b>> \in Y
    <2>1. a \in Objs /\ b \in Partners(a)
      BY DEF Objs, Partners
    <2>2. Points(e, a, b) <=> Points(d, a, b) /\ a # o /\ b # o
      BY <2>1 DEF Forgets
    <2> QED  BY <2>2, PairsAre
  <1>2. Pairs(e) \in SUBSET (A \X B) /\ Y \in SUBSET (A \X B)
    BY PairsAre
  <1> HIDE DEF Y
  <1>3. Pairs(e) = Y
    BY <1>1, <1>2, EqualPairs
  <1> QED  BY <1>3 DEF Y

\* AbstractRelation's Unlink.
LEMMA UnlinkPairs ==
    ASSUME NEW d, NEW e, NEW o \in Objs, NEW v \in Partners(o), Unlinks(d, e, o, v)
    PROVE  \E a \in A, b \in B : Pairs(e) = Pairs(d) \ {<<a, b>>}
  <1>1. PICK a \in A, b \in B : {a, b} = {o, v}
    BY DEF Objs, Partners
  <1>2. ASSUME NEW p \in A, NEW q \in B
        PROVE  <<p, q>> \in Pairs(e) <=> <<p, q>> \in Pairs(d) \ {<<a, b>>}
    <2>1. p \in Objs /\ q \in Partners(p) /\ p # b /\ q # a
      BY RelationshipAssumption DEF Objs, Partners
    <2>2. Points(e, p, q) <=> Points(d, p, q) /\ ~(p = o /\ q = v) /\ ~(p = v /\ q = o)
      BY <2>1 DEF Unlinks
    <2>3. Points(e, p, q) <=> Points(d, p, q) /\ ~(p = a /\ q = b)
      BY <1>1, <2>1, <2>2
    <2> QED  BY <2>3, PairsAre
  <1>3. Pairs(e) = Pairs(d) \ {<<a, b>>}
    BY <1>2, PairsAre, EqualPairs
  <1> QED  BY <1>3

\* AbstractRelation's Link, with the links that the new one excludes.
LEMMA LinkPairs ==
    ASSUME rel \in Rels, NEW d, NEW e, NEW o \in Objs, NEW v \in Partners(o), Links(d, e, o, v)
    PROVE  \E a \in A, b \in B :
              Pairs(e) = (Pairs(d) \ {p \in Pairs(d) : \/ p[2] = b /\ rel # "N_N"
                                                       \/ p[1] = a /\ rel = "1_1"})
                         \cup {<<a, b>>}
  <1>0. rel \in {"1_1", "1_N", "N_N"}
    BY RelIs
  <1>1. PICK a \in A, b \in B : {a, b} = {o, v}
    BY DEF Objs, Partners
  <1> DEFINE X == {p \in Pairs(d) : \/ p[2] = b /\ rel # "N_N"
                                    \/ p[1] = a /\ rel = "1_1"}
             Y == (Pairs(d) \ X) \cup {<<a, b>>}
  <1>2. ASSUME NEW p \in A, NEW q \in B
        PROVE  <<p, q>> \in Pairs(e) <=> <<p, q>> \in Y
    <2>1. p \in Objs /\ q \in Partners(p) /\ p # b /\ q # a
      BY <1>0, ClassesAre
    <2>2. Points(e, p, q) <=> \/ (p = o /\ q = v) \/ (p = v /\ q = o)
                              \/ /\ Points(d, p, q)
                                 /\ OneSide(p) => p # o /\ p # v
                                 /\ OneSide(q) => q # o /\ q # v
      BY <2>1 DEF Links
    <2>3. (OneSide(p) <=> rel = "1_1") /\ (OneSide(q) <=> rel # "N_N")
      BY <1>0, ClassesAre
    <2>4. Points(e, p, q) <=> \/ (p = a /\ q = b)
                              \/ /\ Points(d, p, q)
                                 /\ rel = "1_1" => p # a
                                 /\ rel # "N_N" => q # b
      BY <1>1, <2>1, <2>2, <2>3
    <2>5. <<p, q>> \in Pairs(d) <=> Points(d, p, q)
      BY PairsAre
    <2>6. <<p, q>> \in X <=> Points(d, p, q) /\ ((q = b /\ rel # "N_N") \/ (p = a /\ rel = "1_1"))
      BY <2>5
    <2>7. <<p, q>> \in Pairs(e) <=> Points(e, p, q)
      BY PairsAre
    <2> QED  BY <2>4, <2>5, <2>6, <2>7
  <1>3. Pairs(e) \in SUBSET (A \X B) /\ Y \in SUBSET (A \X B)
    BY PairsAre
  <1> HIDE DEF Y
  <1>4. Pairs(e) = Y
    BY <1>2, <1>3, EqualPairs
  <1> QED  BY <1>4 DEF Y

\* A call is one step of the abstract relation, or none.
LEMMA EffectRefines ==
    ASSUME TypeInv, TypeInv', ~incoh, rel' = rel, saved' = saved, NEW o \in Objs, Effect(o)
    PROVE  [R!Next]_(R!relvars)
  <1>0. rel \in Rels /\ incoh' \in BOOLEAN /\ incoh = FALSE
    BY DEF TypeInv
  <1>p. Pairs(saved)' = Pairs(saved) /\ Pairs(db)' = Pairs(db')
    BY DEF Pairs, Points, OneSide
  <1>1. CASE incoh'
    BY <1>0, <1>1, <1>p DEF R!Next, R!Break
  <1>2. CASE ~incoh'
    <2>0. incoh' = FALSE
      BY <1>0, <1>2
    <2>1. CASE SameLinks(db, db')
      <3>1. Pairs(db') = Pairs(db)
        BY <2>1, SamePairs
      <3> QED  BY <1>0, <1>p, <2>0, <3>1 DEF R!relvars
    <2>2. CASE Forgets(db, db', o)
      <3>1. Pairs(db') = {p \in Pairs(db) : p[1] # o /\ p[2] # o}
        BY <2>2, ForgetPairs
      <3>2. R!Change
        BY <1>0, <1>p, <2>0, <3>1 DEF R!Change, R!Changed, R!Forget, Objs
      <3> QED  BY <3>2 DEF R!Next
    <2>3. ASSUME NEW v \in Partners(o), Unlinks(db, db', o, v)
          PROVE  R!Next
      <3>1. PICK a \in A, b \in B : Pairs(db') = Pairs(db) \ {<<a, b>>}
        BY <2>3, UnlinkPairs
      <3>2. Pairs(db)' = R!Unlink(Pairs(db), a, b)
        BY <1>p, <3>1 DEF R!Unlink
      <3> QED  BY <1>0, <1>p, <2>0, <3>2 DEF R!Change, R!Changed, R!Next
    <2>4. ASSUME NEW v \in Partners(o), Links(db, db', o, v)
          PROVE  R!Next
      <3>1. PICK a \in A, b \in B :
               Pairs(db') = (Pairs(db) \ {p \in Pairs(db) : \/ p[2] = b /\ rel # "N_N"
                                                            \/ p[1] = a /\ rel = "1_1"})
                            \cup {<<a, b>>}
        BY <1>0, <2>4, LinkPairs
      <3>2. Pairs(db)' = R!Link(Pairs(db), a, b)
        BY <1>p, <3>1 DEF R!Link, R!Excluded
      <3> QED  BY <1>0, <1>p, <2>0, <3>2 DEF R!Change, R!Changed, R!Next
    <2> QED  BY <1>2, <2>1, <2>2, <2>3, <2>4 DEF Effect
  <1> QED  BY <1>1, <1>2

\* Every step of Relationship is a step of AbstractRelation or none.
LEMMA RefinementStep ==
    ASSUME Orderly, "move" \notin Careless, TypeInv, RelIntegrity, [Next]_vars
    PROVE  [R!Next]_(R!relvars)
  <1>r. rel' = rel /\ TypeInv'
    BY RelConstant, NextType
  <1>0. ~incoh => Symmetric(db)
    BY DEF RelIntegrity
  <1>1. ASSUME NEW o \in Objs, Load(o) \/ Edit(o)
        PROVE  UNCHANGED R!relvars
    <2>1. rel' = rel /\ db' = db /\ saved' = saved /\ incoh' = incoh
      BY <1>1 DEF Load, Edit, Idle
    <2> QED  BY <2>1 DEF R!relvars, Pairs, Points, OneSide
  <1>2. ASSUME NEW o \in Objs, Store(o) \/ Remove(o)
        PROVE  [R!Next]_(R!relvars)
    <2>1. saved' = saved /\ ~incoh
      BY <1>2 DEF Store, Remove, Usable, Idle
    <2>2. Effect(o)
      BY <1>0, <1>2, <2>1, StoreEffect, RemoveEffect
    <2> QED  BY <1>r, <2>1, <2>2, EffectRefines
  <1>3. ASSUME NEW o \in Objs, NEW v \in Partners(o) \cup {Null}, Create(o, v)
        PROVE  [R!Next]_(R!relvars)
    <2>1. saved' = saved /\ ~incoh
      BY <1>3 DEF Create, Usable, Idle
    <2>2. Effect(o)
      BY <1>0, <1>3, <2>1, CreateEffect
    <2> QED  BY <1>r, <2>1, <2>2, EffectRefines
  <1>4. ASSUME NEW o \in Objs, NEW x \in Partners(o), CollInsert(o, x) \/ CollSuppress(o, x)
        PROVE  [R!Next]_(R!relvars)
    <2>1. saved' = saved /\ ~incoh
      BY <1>4 DEF CollInsert, CollSuppress, Usable, Idle
    <2>2. Effect(o)
      BY <1>0, <1>4, <2>1, CollInsertEffect, CollSuppressEffect
    <2> QED  BY <1>r, <2>1, <2>2, EffectRefines
  <1>5. CASE Commit
    <2>1. incoh = FALSE /\ incoh' = FALSE
      BY <1>5 DEF Commit, Usable, TypeInv
    <2>2. \A S \in SUBSET deleted : Pairs(Shrink(db, S)) = Pairs(db)
      BY ShrinkLinks, SamePairs
    <2>3. CASE db' = Shrink(db, deleted) /\ saved' = db'
      <3>1. Pairs(db') = Pairs(db) /\ Pairs(saved') = Pairs(db)
        BY <2>2, <2>3
      <3>2. Pairs(db)' = Pairs(db) /\ Pairs(saved)' = Pairs(db)
        BY <1>r, <3>1 DEF Pairs, Points, OneSide
      <3> QED  BY <1>r, <2>1, <3>2 DEF R!Next, R!Commit
    <2>4. CASE (\E S \in SUBSET deleted : db' = Shrink(db, S)) /\ UNCHANGED saved
      <3>1. Pairs(db') = Pairs(db)
        BY <2>2, <2>4
      <3>2. Pairs(db)' = Pairs(db) /\ Pairs(saved)' = Pairs(saved)
        BY <1>r, <2>4, <3>1 DEF Pairs, Points, OneSide
      <3> QED  BY <1>r, <2>1, <3>2 DEF R!relvars
    <2> QED  BY <1>5, <2>3, <2>4 DEF Commit
  <1>6. CASE Abort
    <2>1. Pairs(db)' = Pairs(saved) /\ Pairs(saved)' = Pairs(saved) /\ incoh' = FALSE
      BY <1>6 DEF Abort, Pairs, Points, OneSide
    <2> QED  BY <1>r, <2>1 DEF R!Next, R!Abort
  <1>7. CASE Begin \/ UNCHANGED vars
    BY <1>7 DEF Begin, vars, R!relvars, Pairs, Points, OneSide
  <1> QED  BY <1>1, <1>2, <1>3, <1>4, <1>5, <1>6, <1>7 DEF Next

\* The manual's relationship, for any number of objects: if the application is
\* orderly and moves no object from one collection to another by an insertion,
\* every call of the server is seen as one link made, one link broken, one object
\* forgotten or a transaction broken, and only a commit changes what is saved.
THEOREM Refinement ==
    ASSUME Orderly, "move" \notin Careless
    PROVE  Spec => RelationSpec
  <1>1. Init => R!Init
    <2> SUFFICES ASSUME Init PROVE R!Init
      OBVIOUS
    <2>1. rel \in {"1_1", "1_N", "N_N"}
      BY RelIs DEF Init
    <2>2. \A p \in A \X B : ~Points(NoObject, p[1], p[2])
      BY DEF Points, NoObject, Objs
    <2>3. Pairs(NoObject) = {}
      BY <2>2 DEF Pairs
    <2> QED  BY <2>1, <2>3 DEF Init, R!Init
  <1>2. TypeInv /\ RelIntegrity /\ [Next]_vars => [R!Next]_(R!relvars)
    BY RefinementStep
  <1>3. Spec => [](TypeInv /\ RelIntegrity)
    BY TypeInvariant, Integrity, PTL
  <1> QED  BY <1>1, <1>2, <1>3, PTL DEF Spec, RelationSpec, R!Spec

=============================================================================
