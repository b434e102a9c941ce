------------------------- MODULE RelationshipProofs -------------------------
(***************************************************************************)
(* Proofs about module Relationship, for any number of objects: the type    *)
(* invariant, whatever fails and whatever the application does; then, if    *)
(* the application is orderly, that the two ends of a relationship agree.   *)
(* Module RelationshipCacheProofs goes on from here.                        *)
(*                                                                         *)
(* An operator of Attribute_inv.cc has a lemma that says, object by object, *)
(* what it returns; the proofs of the actions use these lemmas and never    *)
(* the operators' definitions.                                              *)
(***************************************************************************)
EXTENDS Relationship, TLAPS

Oids == Objs \cup {Null}

\* A database whose attributes hold objects of the right class: what a call of
\* the server, complete or not, always leaves.
FormedAt(d, o) ==
    /\ d.one[o] \in Partners(o) \cup {Null}
    /\ d.many[o] \subseteq Partners(o)
    /\ d.many[o] # {} => d.has[o]
    /\ d.st[o] = "none" => ~d.has[o]
Formed(d) == d \in Data /\ \A o \in Objs : FormedAt(d, o)

-----------------------------------------------------------------------------
(* The elementary writes.                                                   *)

\* The partners of an object are of the other class, and it is one of theirs.
LEMMA PartnersAre ==
    ASSUME NEW o \in Objs
    PROVE  /\ o # Null /\ Partners(o) \subseteq Objs /\ Null \notin Partners(o)
           /\ o \notin Partners(o)
           /\ \A u \in Partners(o) : u \in Objs /\ u # Null /\ u # o /\ o \in Partners(u)
           /\ \A u \in Objs, w \in Partners(o) : u \in Partners(w) <=> u \notin Partners(o)
  BY RelationshipAssumption DEF Objs, Partners

\* inverse_write_oid writes one attribute.
LEMMA PutOneIs ==
    ASSUME NEW d \in Data, NEW o \in Objs, NEW v \in Oids
    PROVE  LET e == PutOne(d, o, v)
           IN  /\ e \in Data /\ e.st = d.st /\ e.has = d.has /\ e.many = d.many
               /\ \A u \in Objs : e.one[u] = IF u = o THEN v ELSE d.one[u]
  BY DEF PutOne, Data, Oids

\* The same for the null oid in several objects.
LEMMA NullInIs ==
    ASSUME NEW d \in Data, NEW S
    PROVE  LET e == NullIn(d, S)
           IN  /\ e \in Data /\ e.st = d.st /\ e.has = d.has /\ e.many = d.many
               /\ \A u \in Objs : e.one[u] = IF u \in S THEN Null ELSE d.one[u]
  BY DEF NullIn, Data

\* A call that stops in the middle leaves each object as it was or as it would be.
LEMMA MixedIs ==
    ASSUME NEW d \in Data, NEW e \in Data, NEW S
    PROVE  LET m == Mixed(d, e, S)
           IN  /\ m \in Data
               /\ \A u \in Objs :
                     /\ m.st[u]   = IF u \in S THEN e.st[u]   ELSE d.st[u]
                     /\ m.one[u]  = IF u \in S THEN e.one[u]  ELSE d.one[u]
                     /\ m.has[u]  = IF u \in S THEN e.has[u]  ELSE d.has[u]
                     /\ m.many[u] = IF u \in S THEN e.many[u] ELSE d.many[u]
  BY DEF Mixed, Data

\* So a call that stops in the middle leaves a well formed database.
LEMMA MixedFormed ==
    ASSUME NEW d, NEW e, Formed(d), Formed(e), NEW S
    PROVE  Formed(Mixed(d, e, S))
  BY DEF Mixed, Data, Formed, FormedAt

\* IDB_instanceDelete.
LEMMA DeleteInstanceIs ==
    ASSUME NEW d \in Data, NEW o \in Objs
    PROVE  LET e == DeleteInstance(d, o)
           IN  /\ e \in Data
               /\ \A u \in Objs \ {o} : /\ e.st[u] = d.st[u] /\ e.one[u] = d.one[u]
                                        /\ e.has[u] = d.has[u] /\ e.many[u] = d.many[u]
               /\ e.st[o] = IF o \in created THEN "none" ELSE "removed"
               /\ o \in created => e.one[o] = Null /\ ~e.has[o] /\ e.many[o] = {}
               /\ o \notin created => /\ e.one[o] = d.one[o] /\ e.has[o] = d.has[o]
                                      /\ e.many[o] = d.many[o]
  BY DEF DeleteInstance, Without, Data

\* The deletion of an object created by this transaction.
LEMMA WithoutIs ==
    ASSUME NEW d \in Data, NEW o \in Objs
    PROVE  LET e == Without(d, o, "none")
           IN  /\ e \in Data
               /\ \A u \in Objs \ {o} : /\ e.st[u] = d.st[u] /\ e.one[u] = d.one[u]
                                        /\ e.has[u] = d.has[u] /\ e.many[u] = d.many[u]
               /\ e.st[o] = "none" /\ e.one[o] = Null /\ ~e.has[o] /\ e.many[o] = {}
  BY DEF Without, Data

-----------------------------------------------------------------------------
(* Attribute_inv.cc: what each of the changes at the other end writes.      *)

\* The null oid is the oid of no object.
LEMMA ObjsNotNull == \A u \in Objs : u # Null
  BY RelationshipAssumption DEF Objs

\* inverse_1_1: creation, update and removal.
LEMMA Create_1_1Is ==
    ASSUME NEW d \in Data, NEW o \in Objs, NEW v \in Oids
    PROVE  LET e == Create_1_1(d, o, v)
           IN  /\ e \in Data /\ e.st = d.st /\ e.has = d.has /\ e.many = d.many
               /\ \A u \in Objs : e.one[u] = IF u = v THEN o
                                             ELSE IF v # Null /\ u = d.one[v] /\ u # o THEN Null
                                             ELSE d.one[u]
  BY ObjsNotNull DEF Create_1_1, PutOne, NullIn, Data, Oids

\* inverse_1_1, invObjUpdate.
LEMMA Update_1_1Is ==
    ASSUME NEW d \in Data, NEW o \in Objs, NEW v \in Oids
    PROVE  LET e == Update_1_1(d, o, v)
           IN  /\ e \in Data /\ e.st = d.st /\ e.has = d.has /\ e.many = d.many
               /\ \A u \in Objs : e.one[u] =
                     IF u = v THEN o
                     ELSE IF \/ u = d.one[o] /\ d.one[u] = o
                             \/ v # Null /\ u = d.one[v] /\ u # o THEN Null
                     ELSE d.one[u]
  BY ObjsNotNull DEF Update_1_1, PutOne, NullIn, Data, Oids

\* inverse_1_1, invObjRemove.
LEMMA Remove_1_1Is ==
    ASSUME NEW d \in Data, NEW o \in Objs, NEW v \in Oids
    PROVE  LET e == Remove_1_1(d, o, v)
           IN  /\ e \in Data /\ e.st = d.st /\ e.has = d.has /\ e.many = d.many
               /\ \A u \in Objs : e.one[u] = IF u = v THEN Null ELSE d.one[u]
  BY ObjsNotNull DEF Remove_1_1, NullIn, Data, Oids

\* inverse_N_1: update and removal of an object of the many side.
LEMMA Update_N_1Is ==
    ASSUME NEW d \in Data, NEW o \in Objs, NEW c \in BOOLEAN
    PROVE  LET e == Update_N_1(d, o, c)
           IN  /\ e \in Data /\ e.st = d.st
               /\ ~c => /\ e.has = d.has /\ e.many = d.many
                        /\ \A u \in Objs : e.one[u] = IF d.has[o] /\ u \in d.many[o] THEN Null
                                                      ELSE d.one[u]
               /\ c => \A u \in Objs :
                     /\ e.one[u] = IF u \in d.many[o] THEN o ELSE d.one[u]
                     /\ IF \E w \in d.many[o] : d.one[w] = u /\ u # o
                        THEN ~e.has[u] /\ e.many[u] = {}
                        ELSE e.has[u] = d.has[u] /\ e.many[u] = d.many[u]
  <1> DEFINE e == Update_N_1(d, o, c)
  <1>1. CASE ~c
    BY <1>1 DEF Update_N_1, NullIn, Data
  <1>2. CASE c
    <2> DEFINE taken == {w \in d.many[o] : d.one[w] # o}
               lost == {d.one[w] : w \in taken} \ {Null}
               f == [d EXCEPT !.one  = [u \in Objs |-> IF u \in taken THEN o ELSE @[u]],
                              !.has  = [u \in Objs |-> @[u] /\ u \notin lost],
                              !.many = [u \in Objs |-> IF u \in lost THEN {} ELSE @[u]]]
    <2>1. e = f
      BY <1>2 DEF Update_N_1
    <2>2. \A u \in Objs : /\ u \in lost <=> \E w \in d.many[o] : d.one[w] = u /\ u # o
                          /\ (IF u \in taken THEN o ELSE d.one[u])
                             = (IF u \in d.many[o] THEN o ELSE d.one[u])
      BY ObjsNotNull DEF Data
    <2> HIDE DEF taken, lost
    <2>3. /\ f \in Data /\ f.st = d.st
          /\ \A u \in Objs : /\ f.one[u] = IF u \in taken THEN o ELSE d.one[u]
                             /\ f.has[u] = (d.has[u] /\ u \notin lost)
                             /\ f.many[u] = IF u \in lost THEN {} ELSE d.many[u]
      BY DEF Data
    <2> HIDE DEF f, e
    <2>4. ASSUME NEW u \in Objs
          PROVE  /\ e.one[u] = IF u \in d.many[o] THEN o ELSE d.one[u]
                 /\ IF \E w \in d.many[o] : d.one[w] = u /\ u # o
                    THEN ~e.has[u] /\ e.many[u] = {}
                    ELSE e.has[u] = d.has[u] /\ e.many[u] = d.many[u]
      BY <2>1, <2>2, <2>3 DEF Data
    <2> QED  BY <1>2, <2>1, <2>3, <2>4 DEF e
  <1> QED  BY <1>1, <1>2

\* inverse_N_1, invObjRemove.
LEMMA Remove_N_1Is ==
    ASSUME NEW d \in Data, NEW o \in Objs
    PROVE  LET e == Remove_N_1(d, o)
           IN  /\ e \in Data /\ e.st = d.st /\ e.has = d.has /\ e.many = d.many
               /\ \A u \in Objs : e.one[u] = IF u \in d.many[o] THEN Null ELSE d.one[u]
  BY ObjsNotNull DEF Remove_N_1, NullIn, Data, Oids

\* inverse_coll_perform_N_1.
LEMMA Insert_N_1Is ==
    ASSUME NEW d \in Data, NEW o \in Objs, NEW x \in Objs
    PROVE  LET e == Insert_N_1(d, o, x)
           IN  /\ e \in Data /\ e.st = d.st /\ e.has = d.has
               /\ d.one[x] \in {Null, o} =>
                     /\ e.many = d.many
                     /\ \A u \in Objs : e.one[u] = IF u = x THEN o ELSE d.one[u]
               /\ d.one[x] \notin {Null, o} => \A u \in Objs :
                     /\ e.many[u] = IF u = d.one[x] THEN {} ELSE d.many[u]
                     /\ e.one[u] = IF u = x THEN o ELSE
                                   IF u \in d.many[d.one[x]] THEN Null ELSE d.one[u]
  BY ObjsNotNull DEF Insert_N_1, PutOne, NullIn, Data, Oids

\* IDB_collectionDelete.
LEMMA DeleteCollIs ==
    ASSUME NEW d \in Data, NEW o \in Objs, o \notin d.many[o]
    PROVE  LET e == DeleteColl(d, o)
           IN  /\ e \in Data /\ e.st = d.st /\ e.has = d.has
               /\ rel = "1_N" => \A u \in Objs :
                     /\ e.one[u] = IF u \in d.many[o] THEN Null ELSE d.one[u]
                     /\ e.many[u] = IF u = o THEN {} ELSE d.many[u]
               /\ rel # "1_N" => \A u \in Objs :
                     /\ e.one[u] = d.one[u]
                     /\ \A y : y \in e.many[u] <=>
                           /\ u # o /\ y \in d.many[u]
                           /\ IF u \in d.many[o] THEN y # o ELSE ~(y \in d.many[o] /\ u \in d.many[y])
  <1>1. CASE rel = "1_N"
    BY <1>1 DEF DeleteColl, NullIn, Data
  <1>2. CASE rel # "1_N"
    <2> DEFINE new(u) == IF u = o THEN {} ELSE
                         IF u \in d.many[o] THEN d.many[u] \ {o}
                         ELSE d.many[u] \ {x \in d.many[o] : u \in d.many[x]}
               old(u) == CASE u = o -> {}
                           [] u \in d.many[o] -> d.many[u] \ {o}
                           [] OTHER -> d.many[u] \ {x \in d.many[o] : u \in d.many[x]}
    <2>a. DeleteColl(d, o) = [d EXCEPT !.many = [u \in Objs |-> old(u)]]
      BY <1>2 DEF DeleteColl
    <2>b. \A u \in Objs : old(u) = new(u)
      OBVIOUS
    <2>1. DeleteColl(d, o) = [d EXCEPT !.many = [u \in Objs |-> new(u)]]
      <3> HIDE DEF old, new
      <3> QED  BY <2>a, <2>b
    <2>2. \A u \in Objs : new(u) \in SUBSET Objs
      BY DEF Data
    <2> HIDE DEF new
    <2>3. DeleteColl(d, o) \in Data /\ \A u \in Objs : DeleteColl(d, o).many[u] = new(u)
      BY <2>1, <2>2 DEF Data
    <2>4. DeleteColl(d, o).st = d.st /\ DeleteColl(d, o).has = d.has /\ DeleteColl(d, o).one = d.one
      BY <2>1 DEF Data
    <2>5. \A u \in Objs : \A y : y \in new(u) <=>
             /\ u # o /\ y \in d.many[u]
             /\ IF u \in d.many[o] THEN y # o ELSE ~(y \in d.many[o] /\ u \in d.many[y])
      BY DEF new
    <2> QED  BY <1>2, <2>3, <2>4, <2>5
  <1> QED  BY <1>1, <1>2

-----------------------------------------------------------------------------
(* What the calls write is well formed, and no inverse attribute changes    *)
(* whether an object exists.                                                *)

\* The values of an object's attribute: an object, or whether it has a collection.
AttrType(o) == IF OneSide(o) THEN Partners(o) \cup {Null} ELSE BOOLEAN

\* The relation is one of the three.
LEMMA RelIs == rel \in Rels => rel \in {"1_1", "1_N", "N_N"}
  BY RelationshipAssumption

\* Which objects have one partner only, by relation.
LEMMA OneSideIs ==
    ASSUME NEW o \in Objs
    PROVE  /\ rel = "1_1" => OneSide(o)
           /\ rel = "1_N" => (OneSide(o) <=> o \in B) /\ (o \in A <=> o \notin B)
           /\ rel = "N_N" => ~OneSide(o)
  BY RelationshipAssumption DEF OneSide, Objs

\* IDB_instanceWrite writes an attribute of the right class.
LEMMA PutAttrFormed ==
    ASSUME NEW d, Formed(d), NEW o \in Objs, NEW v \in AttrType(o), d.st[o] # "none"
    PROVE  Formed(PutAttr(d, o, v)) /\ PutAttr(d, o, v).st = d.st
  <1>1. Partners(o) \subseteq Objs
    BY PartnersAre
  <1> QED  BY <1>1 DEF PutAttr, PutOne, Data, Formed, FormedAt, AttrType, Oids

\* An element inserted is of the right class, and its owner has a collection.
LEMMA IntoFormed ==
    ASSUME NEW d, Formed(d), NEW o \in Objs, NEW x \in Partners(o), d.st[o] # "none"
    PROVE  Formed(Into(d, o, x)) /\ Into(d, o, x).st = d.st
  <1>1. x \in Objs
    BY PartnersAre
  <1> QED  BY <1>1 DEF Into, Data, Formed, FormedAt

\* An element suppressed leaves a well formed collection.
LEMMA OutOfFormed ==
    ASSUME NEW d, Formed(d), NEW o \in Objs, NEW x
    PROVE  Formed(OutOf(d, o, x)) /\ OutOf(d, o, x).st = d.st
  BY DEF OutOf, Data, Formed, FormedAt

\* The reference of a new object of an 1:N relation inserts it in a collection.
LEMMA Create_1_NFormed ==
    ASSUME NEW d, Formed(d), NEW o \in Objs, NEW v \in Partners(o) \cup {Null},
           v # Null => d.st[v] # "none"
    PROVE  Formed(Create_1_N(d, o, v)) /\ Create_1_N(d, o, v).st = d.st
  <1>1. CASE v = Null
    BY <1>1 DEF Create_1_N
  <1>2. CASE v # Null
    <2>1. v \in Objs /\ o \in Partners(v)
      BY <1>2, PartnersAre
    <2> QED  BY <1>2, <2>1, IntoFormed DEF Create_1_N
  <1> QED  BY <1>1, <1>2

\* inverse_realize for an update, in the four cases.
LEMMA UpdateFormed ==
    ASSUME NEW d, Formed(d), NEW o \in Objs, NEW v \in AttrType(o), rel \in Rels,
           OneSide(o) /\ v # Null => d.st[v] # "none"
    PROVE  Formed(UpdateInverse(d, o, v)) /\ UpdateInverse(d, o, v).st = d.st
  <1>p. /\ o # Null /\ Partners(o) \subseteq Objs /\ Null \notin Objs
        /\ \A u \in Partners(o) : o \in Partners(u)
    BY PartnersAre, ObjsNotNull
  <1>1. CASE rel = "1_1"
    <2>1. UpdateInverse(d, o, v) = Update_1_1(d, o, v) /\ v \in Partners(o) \cup {Null}
      BY <1>1, OneSideIs DEF UpdateInverse, AttrType
    <2>2. Formed(Update_1_1(d, o, v)) /\ Update_1_1(d, o, v).st = d.st
      BY <1>p, <2>1 DEF Formed, FormedAt, Update_1_1, PutOne, NullIn, Data
    <2> QED  BY <2>1, <2>2
  <1>2. CASE rel = "1_N" /\ o \in B
    <2>1. UpdateInverse(d, o, v) = Update_1_N(d, o, v) /\ v \in Partners(o) \cup {Null}
      BY <1>2, OneSideIs DEF UpdateInverse, AttrType
    <2>2. Formed(Update_1_N(d, o, v)) /\ Update_1_N(d, o, v).st = d.st
      <3> DEFINE f == IF d.one[o] \notin {Null, v} THEN OutOf(d, d.one[o], o) ELSE d
      <3>1. d.one[o] \notin {Null, v} => d.one[o] \in Objs
        BY <1>p DEF Formed, FormedAt
      <3>2. Formed(f) /\ f.st = d.st
        BY <3>1, OutOfFormed
      <3>3. v # Null => f.st[v] # "none"
        BY <1>2, <3>2, OneSideIs
      <3>4. Update_1_N(d, o, v) = Create_1_N(f, o, v)
        BY DEF Update_1_N
      <3> HIDE DEF f
      <3> QED  BY <2>1, <3>2, <3>3, <3>4, Create_1_NFormed
    <2> QED  BY <2>1, <2>2
  <1>3. CASE rel = "1_N" /\ o \in A
    <2>1. UpdateInverse(d, o, v) = Update_N_1(d, o, v) /\ v \in BOOLEAN
      BY <1>3, OneSideIs DEF UpdateInverse, AttrType
    <2>2. Formed(Update_N_1(d, o, v)) /\ Update_N_1(d, o, v).st = d.st
      BY <1>p, <2>1 DEF Formed, FormedAt, Update_N_1, NullIn, Data
    <2> QED  BY <2>1, <2>2
  <1>4. CASE rel = "N_N"
    <2>1. UpdateInverse(d, o, v) = Update_N_N(d, o, v) /\ v \in BOOLEAN
      BY <1>4, OneSideIs DEF UpdateInverse, AttrType
    <2>2. Formed(Update_N_N(d, o, v)) /\ Update_N_N(d, o, v).st = d.st
      BY <1>p, <2>1 DEF Formed, FormedAt, Update_N_N, Data
    <2> QED  BY <2>1, <2>2
  <1> QED  BY <1>1, <1>2, <1>3, <1>4, RelIs DEF Objs

\* inverse_realize for a creation, in the three cases.
LEMMA CreateFormed ==
    ASSUME NEW d, Formed(d), NEW o \in Objs, NEW v \in Partners(o) \cup {Null}, rel \in Rels,
           v # Null => OneSide(o) /\ d.st[v] # "none"
    PROVE  Formed(CreateInverse(d, o, v)) /\ CreateInverse(d, o, v).st = d.st
  <1>p. /\ o # Null /\ Partners(o) \subseteq Objs /\ Null \notin Objs
        /\ \A u \in Partners(o) : o \in Partners(u)
    BY PartnersAre, ObjsNotNull
  <1>1. CASE rel = "1_1"
    <2>1. CreateInverse(d, o, v) = Create_1_1(d, o, v)
      BY <1>1 DEF CreateInverse
    <2>2. Formed(Create_1_1(d, o, v)) /\ Create_1_1(d, o, v).st = d.st
      BY <1>p, <2>1 DEF Formed, FormedAt, Create_1_1, PutOne, NullIn, Data
    <2> QED  BY <2>1, <2>2
  <1>2. CASE rel = "1_N" /\ o \in B
    <2>1. CreateInverse(d, o, v) = Create_1_N(d, o, v)
      BY <1>2 DEF CreateInverse
    <2>2. Formed(Create_1_N(d, o, v)) /\ Create_1_N(d, o, v).st = d.st
      BY Create_1_NFormed
    <2> QED  BY <2>1, <2>2
  <1>3. CASE rel # "1_1" /\ (rel # "1_N" \/ o \notin B)
    <2>1. CreateInverse(d, o, v) = d
      BY <1>3 DEF CreateInverse
    <2> QED  BY <2>1
  <1> QED  BY <1>1, <1>2, <1>3

\* inverse_realize for a removal, in the four cases.
LEMMA RemoveFormed ==
    ASSUME NEW d, Formed(d), NEW o \in Objs, NEW v, rel \in Rels,
           OneSide(o) => v \in Partners(o) \cup {Null}
    PROVE  Formed(RemoveInverse(d, o, v)) /\ RemoveInverse(d, o, v).st = d.st
  <1>p. /\ o # Null /\ Partners(o) \subseteq Objs /\ Null \notin Objs
        /\ \A u \in Partners(o) : o \in Partners(u)
    BY PartnersAre, ObjsNotNull
  <1>1. CASE rel = "1_1"
    <2>1. RemoveInverse(d, o, v) = Remove_1_1(d, o, v) /\ v \in Partners(o) \cup {Null}
      BY <1>1, OneSideIs DEF RemoveInverse
    <2>2. Formed(Remove_1_1(d, o, v)) /\ Remove_1_1(d, o, v).st = d.st
      BY <1>p, <2>1 DEF Formed, FormedAt, Remove_1_1, NullIn, Data
    <2> QED  BY <2>1, <2>2
  <1>2. CASE rel = "1_N" /\ o \in B
    <2>1. RemoveInverse(d, o, v) = Remove_1_N(d, o, v) /\ v \in Partners(o) \cup {Null}
      BY <1>2, OneSideIs DEF RemoveInverse
    <2>2. Formed(Remove_1_N(d, o, v)) /\ Remove_1_N(d, o, v).st = d.st
      BY <1>p, <2>1 DEF Formed, FormedAt, Remove_1_N, OutOf, Data
    <2> QED  BY <2>1, <2>2
  <1>3. CASE rel = "1_N" /\ o \in A
    <2>1. RemoveInverse(d, o, v) = Remove_N_1(d, o)
      BY <1>3, OneSideIs DEF RemoveInverse
    <2>2. Formed(Remove_N_1(d, o)) /\ Remove_N_1(d, o).st = d.st
      BY <1>p, <2>1 DEF Formed, FormedAt, Remove_N_1, NullIn, Data
    <2> QED  BY <2>1, <2>2
  <1>4. CASE rel = "N_N"
    <2>1. RemoveInverse(d, o, v) = Remove_N_N(d, o)
      BY <1>4 DEF RemoveInverse
    <2>2. Formed(Remove_N_N(d, o)) /\ Remove_N_N(d, o).st = d.st
      BY <1>p, <2>1 DEF Formed, FormedAt, Remove_N_N, Data
    <2> QED  BY <2>1, <2>2
  <1> QED  BY <1>1, <1>2, <1>3, <1>4, RelIs DEF Objs

\* inverse_coll_perform for an insertion, after that of the collection itself.
LEMMA InsertFormed ==
    ASSUME NEW d, Formed(d), NEW o \in Objs, NEW x \in Partners(o), rel \in Rels,
           d.st[o] # "none", d.st[x] # "none"
    PROVE  LET e == InsertInverse(Into(d, o, x), o, x)
           IN  Formed(e) /\ e.st = d.st
  <1> DEFINE f == Into(d, o, x)
  <1>1. Formed(f) /\ f.st = d.st
    BY IntoFormed
  <1>p. x \in Objs /\ o \in Partners(x)
    BY PartnersAre
  <1> HIDE DEF f
  <1>2. CASE rel = "1_N"
    <2>1. InsertInverse(f, o, x) = Insert_N_1(f, o, x)
      BY <1>2 DEF InsertInverse
    <2>2. Formed(Insert_N_1(f, o, x)) /\ Insert_N_1(f, o, x).st = f.st
      BY <1>1, <1>p DEF Formed, FormedAt, Insert_N_1, PutOne, NullIn, Data
    <2> QED  BY <1>1, <2>1, <2>2 DEF f
  <1>3. CASE rel # "1_N"
    <2>1. InsertInverse(f, o, x) = Into(f, x, o)
      BY <1>3 DEF InsertInverse, Insert_N_N
    <2>2. Formed(Into(f, x, o)) /\ Into(f, x, o).st = f.st
      BY <1>1, <1>p, IntoFormed
    <2> QED  BY <1>1, <2>1, <2>2 DEF f
  <1> QED  BY <1>2, <1>3

\* inverse_coll_perform for a suppression, after that of the collection itself.
LEMMA SuppressFormed ==
    ASSUME NEW d, Formed(d), NEW o \in Objs, NEW x \in Partners(o)
    PROVE  LET e == SuppressInverse(OutOf(d, o, x), o, x)
           IN  Formed(e) /\ e.st = d.st
  <1> DEFINE f == OutOf(d, o, x)
  <1>1. Formed(f) /\ f.st = d.st
    BY OutOfFormed
  <1>p. x \in Objs /\ o \in Partners(x)
    BY PartnersAre
  <1> HIDE DEF f
  <1>2. CASE rel = "1_N"
    <2>1. SuppressInverse(f, o, x) = Suppress_N_1(f, o, x)
      BY <1>2 DEF SuppressInverse
    <2>2. Formed(Suppress_N_1(f, o, x)) /\ Suppress_N_1(f, o, x).st = f.st
      BY <1>1, <1>p DEF Formed, FormedAt, Suppress_N_1, NullIn, Data
    <2> QED  BY <1>1, <2>1, <2>2 DEF f
  <1>3. CASE rel # "1_N"
    <2>1. SuppressInverse(f, o, x) = Suppress_N_N(f, o, x)
      BY <1>3 DEF SuppressInverse
    <2>2. Formed(Suppress_N_N(f, o, x)) /\ Suppress_N_N(f, o, x).st = f.st
      BY <1>1, <1>p DEF Formed, FormedAt, Suppress_N_N, Data
    <2> QED  BY <1>1, <2>1, <2>2 DEF f
  <1> QED  BY <1>2, <1>3

\* IDB_collectionDelete suppresses elements only.
LEMMA DeleteCollFormed ==
    ASSUME NEW d, Formed(d), NEW o \in Objs
    PROVE  Formed(DeleteColl(d, o)) /\ DeleteColl(d, o).st = d.st
  <1>1. o \notin d.many[o]
    BY PartnersAre DEF Formed, FormedAt
  <1> QED  BY <1>1 DEF DeleteColl, NullIn, Data, Formed, FormedAt

\* IDB_instanceDelete deletes or flags an object.
LEMMA DeleteInstanceFormed ==
    ASSUME NEW d, Formed(d), NEW o \in Objs
    PROVE  Formed(DeleteInstance(d, o))
  BY DEF DeleteInstance, Without, Data, Formed, FormedAt

-----------------------------------------------------------------------------
(* The type invariant.                                                      *)

Copy == [in: BOOLEAN, val: Oids \cup BOOLEAN, edit: {"no", "other", "ref"}]

\* The client's copy of an object is of a live object, and holds a value of its
\* attribute.
HeldAt(h, d, u) ==
    IF h[u].in THEN d.st[u] = "live" /\ h[u].val \in AttrType(u) ELSE h[u] = NotHeld
HeldOK == held \in [Objs -> Copy] /\ \A u \in Objs : HeldAt(held, db, u)

\* The inductive form of TypeOK: the two databases are well formed, the cache is
\* of live objects, the marked objects are flagged and nothing else.
TypeInv ==
    /\ rel \in Rels /\ Formed(db) /\ Formed(saved)
    /\ open \in BOOLEAN /\ incoh \in BOOLEAN /\ tired \in BOOLEAN /\ ctx \in BOOLEAN
    /\ HeldOK
    /\ created \subseteq Objs /\ deleted \subseteq Objs
    /\ \A u \in deleted : db.st[u] = "removed"
    /\ ~open => /\ db = saved /\ created = {} /\ deleted = {} /\ ~incoh /\ ~tired
                /\ \A u \in Objs : ~held[u].in

\* The inductive invariant implies the type invariant that the runs check.
LEMMA TypeInvIsTypeOK == TypeInv => TypeOK
  <1> SUFFICES ASSUME TypeInv PROVE TypeOK
    OBVIOUS
  <1>1. \A o \in Objs : db.many[o] # {} => db.has[o]
    BY DEF TypeInv, Formed, FormedAt
  <1>2. \A o \in Objs : held[o].in => db.st[o] = "live" /\ open
    BY DEF TypeInv, HeldOK, HeldAt
  <1>3. db \in Data /\ saved \in Data
    BY DEF TypeInv, Formed
  <1> QED  BY <1>1, <1>2, <1>3 DEF TypeInv, TypeOK

\* The reply of a call changes nothing but the value of a copy.
LEMMA PatchedIs ==
    ASSUME HeldOK, NEW d, Formed(d), NEW W
    PROVE  LET h == Patched(d, W)
           IN  /\ h \in [Objs -> Copy]
               /\ \A u \in Objs :
                     /\ h[u].in = held[u].in /\ h[u].edit = held[u].edit
                     /\ ~held[u].in => h[u] = held[u]
                     /\ h[u].val = IF held[u].in /\ ~ctx /\ OneSide(u)
                                        /\ (d.one[u] # db.one[u] \/ u \in W)
                                   THEN d.one[u] ELSE held[u].val
                     /\ held[u].in => h[u].val \in AttrType(u)
  <1>1. held \in [Objs -> Copy]
    BY DEF HeldOK
  <1>2. \A u \in Objs : d.one[u] \in Oids /\ d.one[u] \in Partners(u) \cup {Null}
    BY DEF Formed, FormedAt, Data, Oids
  <1>3. \A u \in Objs : held[u].in => held[u].val \in AttrType(u)
    BY DEF HeldOK, HeldAt
  <1>4. \A u \in Objs : OneSide(u) => d.one[u] \in AttrType(u)
    BY <1>2 DEF AttrType
  <1> QED  BY <1>1, <1>2, <1>3, <1>4 DEF Patched, Copy

\* A call on o that is not the end of a transaction.
LEMMA CallType ==
    ASSUME TypeInv, open, Idle, NEW o \in Objs, Formed(db)',
           \A u \in Objs \ {o} : db'.st[u] = db.st[u], db.st[o] # "removed",
           incoh' \in BOOLEAN, ctx' \in BOOLEAN, created' \subseteq Objs,
           deleted' \subseteq deleted \cup {o}, o \in deleted' => db'.st[o] = "removed",
           held' \in [Objs -> Copy], \A u \in Objs : HeldAt(held', db', u)
    PROVE  TypeInv'
  <1>1. \A u \in Objs : AttrType(u)' = AttrType(u)
    BY DEF AttrType, OneSide, Idle
  <1>2. HeldOK'
    BY <1>1 DEF HeldOK, HeldAt
  <1>3. \A u \in deleted' : db'.st[u] = "removed"
    BY DEF TypeInv
  <1>4. (rel \in Rels)' /\ Formed(saved)' /\ open' = open /\ (tired \in BOOLEAN)'
    BY DEF TypeInv, Idle
  <1> QED  BY <1>2, <1>3, <1>4 DEF TypeInv

\* A copy that is dropped with its object, or kept.
LEMMA DropHeld ==
    ASSUME HeldOK, NEW o \in Objs, NEW e,
           \A u \in Objs \ {o} : e.st[u] = db.st[u]
    PROVE  LET h == [held EXCEPT ![o] = NotHeld]
           IN  h \in [Objs -> Copy] /\ \A u \in Objs : HeldAt(h, e, u)
  <1>1. NotHeld \in Copy /\ ~NotHeld.in
    BY DEF NotHeld, Copy, Oids
  <1>2. held \in [Objs -> Copy] /\ \A u \in Objs : HeldAt(held, db, u)
    BY DEF HeldOK
  <1> QED  BY <1>1, <1>2 DEF HeldAt

\* What a call that fails has written.
LEMMA HalfIs ==
    ASSUME NEW e, Formed(db), Formed(e), NEW f \in Half(db, e) \cup {db, e}
    PROVE  /\ Formed(f)
           /\ \A u \in Objs : e.st[u] = db.st[u] => f.st[u] = db.st[u]
  <1>1. CASE f \in {db, e}
    BY <1>1
  <1>2. CASE f \in Half(db, e)
    <2>1. PICK S : f = Mixed(db, e, S)
      BY <1>2 DEF Half
    <2>2. db \in Data /\ e \in Data
      BY DEF Formed
    <2> QED  BY <2>1, <2>2, MixedFormed, MixedIs
  <1> QED  BY <1>1, <1>2

\* A call that fails: the transaction is incoherent.
LEMMA FailType ==
    ASSUME TypeInv, open, Idle, NEW o \in Objs, db.st[o] # "removed", NEW e, Formed(e),
           \A u \in Objs \ {o} : e.st[u] = db.st[u],
           WriteFails(o, e) \/ TriggerFails(o, e)
    PROVE  TypeInv'
  <1>1. /\ db' \in Half(db, e) \cup {db, e} /\ Broken(o) /\ ctx' \in BOOLEAN
    BY DEF WriteFails, TriggerFails, TypeInv
  <1>2. Formed(db') /\ \A u \in Objs \ {o} : db'.st[u] = db.st[u]
    BY <1>1, HalfIs DEF TypeInv
  <1>3. held' \in [Objs -> Copy] /\ \A u \in Objs : HeldAt(held', db', u)
    BY <1>1, <1>2, DropHeld DEF Broken, TypeInv
  <1>4. incoh' \in BOOLEAN /\ created' \subseteq Objs /\ deleted' \subseteq deleted \cup {o}
        /\ o \notin deleted'
    BY <1>1 DEF Broken, TypeInv
  <1> QED  BY <1>1, <1>2, <1>3, <1>4, CallType

\* Database::loadObject: the copy of a live object.
LEMMA LoadType ==
    ASSUME TypeInv, NEW o \in Objs, Load(o)
    PROVE  TypeInv'
  <1>1. Attr(db, o) \in AttrType(o) /\ Attr(db, o) \in Oids \cup BOOLEAN
    BY DEF Attr, AttrType, TypeInv, Formed, FormedAt, Data, Oids
  <1>2. held' \in [Objs -> Copy] /\ \A u \in Objs : HeldAt(held', db', u)
    BY <1>1 DEF Load, TypeInv, HeldOK, HeldAt, Copy
  <1> QED  BY <1>2, CallType DEF Load, Usable, TypeInv

\* An edit puts an object of the right class in the copy.
LEMMA EditType ==
    ASSUME TypeInv, NEW o \in Objs, Edit(o)
    PROVE  TypeInv'
  <1>1. Partners(o) \subseteq Objs
    BY PartnersAre
  <1>2. held' \in [Objs -> Copy] /\ \A u \in Objs : HeldAt(held', db', u)
    <2>1. CASE held' = [held EXCEPT ![o].edit = "other"]
      <3>1. held \in [Objs -> Copy] /\ held[o].in /\ db' = db
            /\ \A u \in Objs : HeldAt(held, db, u)
        BY DEF Edit, TypeInv, HeldOK
      <3>2. held' \in [Objs -> Copy]
        BY <2>1, <3>1 DEF Copy
      <3>3. held'[o].in /\ held'[o].val = held[o].val
        BY <2>1, <3>1 DEF Copy
      <3>4. \A u \in Objs \ {o} : held'[u] = held[u]
        BY <2>1, <3>1
      <3> QED  BY <3>1, <3>2, <3>3, <3>4 DEF HeldAt
    <2>2. ASSUME NEW v \in Partners(o) \cup {Null}, OneSide(o),
                 held' = [held EXCEPT ![o].val = v, ![o].edit = "ref"]
          PROVE  held' \in [Objs -> Copy] /\ \A u \in Objs : HeldAt(held', db', u)
      <3>1. v \in Oids /\ v \in AttrType(o)
        BY <1>1, <2>2 DEF Oids, AttrType
      <3>2. held \in [Objs -> Copy] /\ held[o].in /\ db' = db
            /\ \A u \in Objs : HeldAt(held, db, u)
        BY DEF Edit, TypeInv, HeldOK
      <3>3. held' \in [Objs -> Copy]
        BY <2>2, <3>1, <3>2 DEF Copy
      <3>4. held'[o].in /\ held'[o].val = v
        BY <2>2, <3>2 DEF Copy
      <3>5. \A u \in Objs \ {o} : held'[u] = held[u]
        BY <2>2, <3>2
      <3> QED  BY <3>1, <3>2, <3>3, <3>4, <3>5 DEF HeldAt
    <2> QED  BY <2>1, <2>2 DEF Edit
  <1>3. db.st[o] = "live"
    BY DEF Edit, TypeInv, HeldOK, HeldAt
  <1> QED  BY <1>2, <1>3, CallType DEF Edit, Usable, TypeInv

\* The database that a store of o writes.
Stored(o) == PutAttr(UpdateInverse(db, o, held[o].val), o, held[o].val)

\* What a store writes is well formed if the object it refers to exists.
LEMMA StoredFormed ==
    ASSUME TypeInv, NEW o \in Objs, held[o].in,
           OneSide(o) /\ held[o].val # Null => db.st[held[o].val] # "none"
    PROVE  Formed(Stored(o)) /\ Stored(o).st = db.st
  <1>1. held[o].val \in AttrType(o) /\ db.st[o] # "none" /\ Formed(db) /\ rel \in Rels
    BY DEF TypeInv, HeldOK, HeldAt
  <1> DEFINE f == UpdateInverse(db, o, held[o].val)
  <1>2. Formed(f) /\ f.st = db.st
    BY <1>1, UpdateFormed
  <1> HIDE DEF f
  <1>3. Formed(PutAttr(f, o, held[o].val)) /\ PutAttr(f, o, held[o].val).st = f.st
    BY <1>1, <1>2, PutAttrFormed
  <1> QED  BY <1>2, <1>3 DEF Stored, f

\* The store, complete or failing, keeps the type invariant.
LEMMA StoreType ==
    ASSUME TypeInv, NEW o \in Objs, Store(o)
    PROVE  TypeInv'
  <1>0. held[o].in /\ open /\ Idle /\ db.st[o] = "live"
    BY DEF Store, Usable, TypeInv, HeldOK, HeldAt
  <1> DEFINE v == held[o].val
             dead == OneSide(o) /\ v # Null /\ db.st[v] \in {"none", "shrunk"}
  <1>1. ASSUME ~dead PROVE Formed(Stored(o)) /\ Stored(o).st = db.st
    BY <1>0, <1>1, StoredFormed
  <1>2. CASE /\ ~dead /\ db' = Stored(o)
             /\ held' = [Patched(Stored(o), Rewritten(v)) EXCEPT ![o].edit = "no"]
             /\ UNCHANGED <<incoh, ctx, created, deleted>>
    <2> DEFINE h == Patched(Stored(o), Rewritten(v))
    <2>1. HeldOK /\ Formed(Stored(o))
      BY <1>1, <1>2 DEF TypeInv
    <2>2. /\ h \in [Objs -> Copy]
          /\ \A u \in Objs : /\ h[u].in = held[u].in
                             /\ ~held[u].in => h[u] = held[u]
                             /\ held[u].in => h[u].val \in AttrType(u)
      BY <2>1, PatchedIs
    <2>3. \A u \in Objs : HeldAt(held, db, u)
      BY DEF TypeInv, HeldOK
    <2>4. held' = [h EXCEPT ![o].edit = "no"] /\ db'.st = db.st
      BY <1>1, <1>2
    <2> HIDE DEF h
    <2>5. held' \in [Objs -> Copy] /\ \A u \in Objs : HeldAt(held', db', u)
      BY <1>0, <2>2, <2>3, <2>4 DEF HeldAt, Copy
    <2> QED  BY <1>0, <1>1, <1>2, <2>5, CallType DEF TypeInv
  <1>3. CASE dead /\ db' = db /\ Broken(o) /\ UNCHANGED ctx
    <2>1. held' \in [Objs -> Copy] /\ \A u \in Objs : HeldAt(held', db', u)
      BY <1>3, DropHeld DEF Broken, TypeInv
    <2> QED  BY <1>0, <1>3, <2>1, CallType DEF TypeInv, Broken
  <1>4. CASE ~dead /\ (WriteFails(o, Stored(o)) \/ TriggerFails(o, Stored(o)))
    BY <1>0, <1>1, <1>4, FailType
  <1> QED  BY <1>2, <1>3, <1>4 DEF Store, Stored

\* The creation: complete, failing, or refused by an index.
LEMMA CreateType ==
    ASSUME TypeInv, NEW o \in Objs, NEW v \in Partners(o) \cup {Null}, Create(o, v)
    PROVE  TypeInv'
  <1> DEFINE d1 == [db EXCEPT !.st[o] = "live", !.one[o] = v]
             d2 == CreateInverse(d1, o, v)
             d3 == Without(RemoveInverse(d1, o, v), o, "none")
  <1>0. /\ open /\ Idle /\ db.st[o] = "none" /\ Formed(db) /\ rel \in Rels
        /\ v # Null => OneSide(o) /\ db.st[v] = "live"
    BY DEF Create, Usable, TypeInv
  <1>p. Partners(o) \subseteq Objs /\ o \notin Partners(o)
    BY PartnersAre
  <1>1. Formed(d1) /\ \A u \in Objs \ {o} : d1.st[u] = db.st[u]
    BY <1>0, <1>p DEF Formed, FormedAt, Data
  <1>o. d1.st[o] = "live"
    BY <1>0 DEF Formed, Data
  <1>v. v # Null => OneSide(o) /\ d1.st[v] = "live"
    BY <1>0, <1>1, <1>p
  <1> HIDE DEF d1
  <1>2. Formed(d2) /\ d2.st = d1.st
    BY <1>0, <1>1, <1>v, CreateFormed
  <1> HIDE DEF d2
  <1>3. Formed(d3) /\ \A u \in Objs : d3.st[u] = db.st[u]
    <2> DEFINE f == RemoveInverse(d1, o, v)
    <2>1. Formed(f) /\ f.st = d1.st
      BY <1>0, <1>1, RemoveFormed
    <2> HIDE DEF f
    <2>2. Formed(Without(f, o, "none"))
      BY <2>1 DEF Without, Formed, FormedAt, Data
    <2>3. \A u \in Objs : Without(f, o, "none").st[u] = IF u = o THEN "none" ELSE f.st[u]
      BY <2>1 DEF Without, Formed, Data
    <2> QED  BY <1>0, <1>1, <2>1, <2>2, <2>3 DEF f
  <1> HIDE DEF d3
  <1>h. HeldOK /\ held \in [Objs -> Copy] /\ \A u \in Objs : HeldAt(held, db, u)
    BY DEF TypeInv, HeldOK
  <1>4. CASE /\ db' = d2 /\ created' = created \cup {o}
             /\ held' = [Patched(d2, Rewritten(v)) EXCEPT
                            ![o] = [in |-> TRUE, val |-> Attr(d2, o), edit |-> "no"]]
             /\ UNCHANGED <<incoh, ctx, deleted>>
    <2> DEFINE h == Patched(d2, Rewritten(v))
               a == Attr(d2, o)
    <2>2. /\ h \in [Objs -> Copy]
          /\ \A u \in Objs : /\ h[u].in = held[u].in
                             /\ ~held[u].in => h[u] = held[u]
                             /\ held[u].in => h[u].val \in AttrType(u)
      BY <1>2, <1>h, PatchedIs
    <2>3. a \in AttrType(o) /\ a \in Oids \cup BOOLEAN
      BY <1>2 DEF Attr, AttrType, Formed, FormedAt, Data, Oids
    <2>4. held' = [h EXCEPT ![o] = [in |-> TRUE, val |-> a, edit |-> "no"]]
      BY <1>4
    <2> HIDE DEF h, a
    <2>a. held' \in [Objs -> Copy] /\ held'[o].in /\ held'[o].val = a
      BY <2>2, <2>3, <2>4 DEF Copy
    <2>b. \A u \in Objs \ {o} : held'[u] = h[u]
      BY <2>2, <2>4
    <2>c. db'.st[o] = "live" /\ \A u \in Objs \ {o} : db'.st[u] = db.st[u]
      BY <1>1, <1>2, <1>4, <1>o
    <2>5. held' \in [Objs -> Copy] /\ \A u \in Objs : HeldAt(held', db', u)
      BY <1>h, <2>2, <2>3, <2>a, <2>b, <2>c DEF HeldAt
    <2>6. o \notin deleted /\ created \subseteq Objs
      BY <1>0 DEF TypeInv
    <2> QED  BY <1>0, <1>1, <1>2, <1>4, <2>5, <2>6, CallType DEF TypeInv
  <1>5. CASE WriteFails(o, d2) \/ TriggerFails(o, d2)
    BY <1>0, <1>1, <1>2, <1>5, FailType
  <1>6. CASE db' = d3 /\ UNCHANGED <<incoh, held, ctx, created, deleted>>
    <2>1. \A u \in Objs : HeldAt(held', db', u)
      BY <1>3, <1>6, <1>h DEF HeldAt
    <2> QED  BY <1>0, <1>3, <1>6, <1>h, <2>1, CallType DEF TypeInv
  <1> QED  BY <1>4, <1>5, <1>6 DEF Create, d1, d2, d3

\* The client knows of the collection of o, and what the removal of o writes at
\* the other ends.
Known(o)    == ~OneSide(o) /\ (IF held[o].in THEN held[o].val ELSE db.has[o])
Unlinked(o) == IF Known(o) THEN DeleteColl(db, o) ELSE RemoveInverse(db, o, Attr(db, o))

\* What a removal writes at the other ends is well formed.
LEMMA UnlinkedFormed ==
    ASSUME TypeInv, NEW o \in Objs
    PROVE  Formed(Unlinked(o)) /\ Unlinked(o).st = db.st
  <1>1. Formed(db) /\ rel \in Rels
    BY DEF TypeInv
  <1>2. OneSide(o) => Attr(db, o) \in Partners(o) \cup {Null}
    BY <1>1 DEF Attr, Formed, FormedAt
  <1> QED  BY <1>1, <1>2, DeleteCollFormed, RemoveFormed DEF Unlinked

\* The removal: complete, with ignored errors, or failing.
LEMMA RemoveType ==
    ASSUME TypeInv, NEW o \in Objs, Remove(o)
    PROVE  TypeInv'
  <1>0. open /\ Idle /\ db.st[o] = "live" /\ Formed(db) /\ HeldOK
    BY DEF Remove, Usable, TypeInv
  <1> DEFINE d1 == Unlinked(o)
             d2 == DeleteInstance(d1, o)
  <1>1. Formed(d1) /\ d1.st = db.st
    BY UnlinkedFormed
  <1> HIDE DEF d1
  <1>2. ASSUME NEW f \in Half(db, d1) \cup {d1}
        PROVE  /\ Formed(DeleteInstance(f, o))
               /\ \A u \in Objs \ {o} : DeleteInstance(f, o).st[u] = db.st[u]
               /\ o \notin created => DeleteInstance(f, o).st[o] = "removed"
    <2>1. Formed(f) /\ f \in Data /\ \A u \in Objs : f.st[u] = db.st[u]
      BY <1>0, <1>1, HalfIs DEF Formed
    <2> QED  BY <2>1, DeleteInstanceFormed, DeleteInstanceIs
  <1>3. CASE /\ db' \in {DeleteInstance(f, o) : f \in Half(db, d1) \cup {d1}}
             /\ held' = [Patched(d2, {}) EXCEPT ![o] = NotHeld]
             /\ created' = created \ {o}
             /\ deleted' = IF o \in created THEN deleted ELSE deleted \cup {o}
             /\ UNCHANGED <<incoh, ctx>>
    <2>1. /\ Formed(db') /\ \A u \in Objs \ {o} : db'.st[u] = db.st[u]
          /\ o \notin created => db'.st[o] = "removed"
      BY <1>2, <1>3
    <2> DEFINE h == Patched(d2, {})
    <2>2. /\ h \in [Objs -> Copy]
          /\ \A u \in Objs : /\ h[u].in = held[u].in
                             /\ ~held[u].in => h[u] = held[u]
                             /\ held[u].in => h[u].val \in AttrType(u)
      BY <1>0, <1>2, PatchedIs
    <2> HIDE DEF h
    <2>3. NotHeld \in Copy /\ ~NotHeld.in
      BY DEF NotHeld, Copy, Oids
    <2>4. /\ held' \in [Objs -> Copy] /\ held'[o] = NotHeld
          /\ \A u \in Objs \ {o} : held'[u] = h[u]
      BY <1>3, <2>2, <2>3 DEF h
    <2>5. \A u \in Objs : HeldAt(held', db', u)
      BY <1>0, <2>1, <2>2, <2>3, <2>4 DEF HeldAt, HeldOK
    <2>6. created' \subseteq Objs /\ deleted' \subseteq deleted \cup {o}
          /\ (o \in deleted' => db'.st[o] = "removed") /\ incoh' \in BOOLEAN /\ ctx' \in BOOLEAN
      BY <1>0, <1>3, <2>1 DEF TypeInv
    <2> QED  BY <1>0, <2>1, <2>4, <2>5, <2>6, CallType
  <1>4. CASE WriteFails(o, d2) \/ TriggerFails(o, d2)
    BY <1>0, <1>2, <1>4, FailType
  <1> QED  BY <1>3, <1>4 DEF Remove, d1, Unlinked, Known

\* A collection written: the whole call, or a part of it when it fails.
LEMMA CollWriteType ==
    ASSUME TypeInv, open, Idle, NEW o \in Objs, held[o].in, ~OneSide(o),
           NEW e, Formed(e), e.st = db.st, NEW W, CollWrite(o, e, W)
    PROVE  TypeInv'
  <1>0. db.st[o] = "live" /\ Formed(db) /\ HeldOK /\ \A u \in Objs : HeldAt(held, db, u)
    BY DEF TypeInv, HeldOK, HeldAt
  <1>1. CASE /\ db' = e /\ held' = [Patched(e, W) EXCEPT ![o].val = TRUE]
             /\ UNCHANGED <<incoh, ctx, created, deleted>>
    <2> DEFINE h == Patched(e, W)
    <2>2. /\ h \in [Objs -> Copy]
          /\ \A u \in Objs : /\ h[u].in = held[u].in
                             /\ ~held[u].in => h[u] = held[u]
                             /\ held[u].in => h[u].val \in AttrType(u)
      BY <1>0, PatchedIs
    <2> HIDE DEF h
    <2>3. held' = [h EXCEPT ![o].val = TRUE]
      BY <1>1 DEF h
    <2>4. held' \in [Objs -> Copy]
      BY <2>2, <2>3 DEF Copy
    <2>5. held'[o].in /\ held'[o].val \in AttrType(o)
      BY <2>2, <2>3 DEF Copy, AttrType
    <2>6. \A u \in Objs \ {o} : held'[u] = h[u]
      BY <2>2, <2>3
    <2>7. \A u \in Objs : HeldAt(held', db', u)
      BY <1>0, <1>1, <2>2, <2>5, <2>6 DEF HeldAt
    <2> QED  BY <1>0, <1>1, <2>4, <2>7, CallType DEF TypeInv
  <1>2. CASE WriteFails(o, e)
    BY <1>0, <1>2, FailType
  <1>3. CASE db' \in Half(db, e) /\ UNCHANGED <<incoh, held, ctx, created, deleted>>
    <2>1. Formed(db') /\ \A u \in Objs : db'.st[u] = db.st[u]
      BY <1>0, <1>3, HalfIs
    <2>2. held' \in [Objs -> Copy] /\ \A u \in Objs : HeldAt(held', db', u)
      BY <1>0, <1>3, <2>1 DEF HeldAt, HeldOK
    <2> QED  BY <1>0, <1>3, <2>1, <2>2, CallType DEF TypeInv
  <1> QED  BY <1>1, <1>2, <1>3 DEF CollWrite

\* The insertion in a collection keeps the type invariant.
LEMMA CollInsertType ==
    ASSUME TypeInv, NEW o \in Objs, NEW x \in Partners(o), CollInsert(o, x)
    PROVE  TypeInv'
  <1>1. /\ open /\ Idle /\ held[o].in /\ ~OneSide(o) /\ db.st[o] = "live" /\ db.st[x] = "live"
        /\ Formed(db) /\ rel \in Rels
    BY DEF CollInsert, Usable, TypeInv, HeldOK, HeldAt
  <1> DEFINE e == InsertInverse(Into(db, o, x), o, x)
  <1>2. Formed(e) /\ e.st = db.st
    BY <1>1, InsertFormed
  <1>3. CollWrite(o, e, IF rel = "1_N" THEN {x} ELSE {})
    BY DEF CollInsert
  <1> HIDE DEF e
  <1> QED  BY <1>1, <1>2, <1>3, CollWriteType

\* The suppression from a collection keeps it.
LEMMA CollSuppressType ==
    ASSUME TypeInv, NEW o \in Objs, NEW x \in Partners(o), CollSuppress(o, x)
    PROVE  TypeInv'
  <1>1. /\ open /\ Idle /\ held[o].in /\ ~OneSide(o) /\ Formed(db)
    BY DEF CollSuppress, Usable, TypeInv
  <1> DEFINE e == SuppressInverse(OutOf(db, o, x), o, x)
  <1>2. Formed(e) /\ e.st = db.st
    BY <1>1, SuppressFormed
  <1>3. CollWrite(o, e, IF rel = "1_N" THEN {x} ELSE {})
    BY DEF CollSuppress
  <1> HIDE DEF e
  <1> QED  BY <1>1, <1>2, <1>3, CollWriteType

\* The objects that a commit reduces to a header, and only they, are changed.
LEMMA ShrinkIs ==
    ASSUME NEW d, Formed(d), NEW S
    PROVE  /\ Formed(Shrink(d, S))
           /\ \A u \in Objs : /\ Shrink(d, S).st[u] = IF u \in S THEN "shrunk" ELSE d.st[u]
                              /\ u \notin S => /\ Shrink(d, S).one[u] = d.one[u]
                                              /\ Shrink(d, S).many[u] = d.many[u]
  <1>1. Formed(Header) /\ \A u \in Objs : Header.st[u] = "shrunk"
    BY DEF Header, NoObject, Formed, FormedAt, Data
  <1>2. Header \in Data /\ d \in Data
    BY <1>1 DEF Formed
  <1> QED  BY <1>1, <1>2, MixedIs, MixedFormed DEF Shrink

\* An empty cache is well formed.
LEMMA NoneHeld ==
    ASSUME NEW d
    PROVE  LET h == [u \in Objs |-> NotHeld]
           IN  /\ h \in [Objs -> Copy]
               /\ \A u \in Objs : ~h[u].in /\ HeldAt(h, d, u)
  BY DEF NotHeld, Copy, Oids, HeldAt

\* The commit: the marked objects are not live, so the copies stay copies of live
\* objects when a commit fails half way.
LEMMA CommitType ==
    ASSUME TypeInv, Commit
    PROVE  TypeInv'
  <1>0. /\ open /\ Formed(db) /\ rel' = rel /\ incoh' = incoh /\ ctx' = ctx
        /\ incoh = FALSE /\ created' = {} /\ deleted' = {}
    BY DEF Commit, Usable, TypeInv
  <1>1. \A u \in Objs : AttrType(u)' = AttrType(u)
    BY <1>0 DEF AttrType, OneSide
  <1>2. CASE /\ db' = Shrink(db, deleted) /\ saved' = db' /\ open' = FALSE /\ tired' = FALSE
             /\ held' = [u \in Objs |-> NotHeld]
    <2>1. Formed(db') /\ Formed(saved')
      BY <1>0, <1>2, ShrinkIs
    <2>2. HeldOK' /\ \A u \in Objs : ~held'[u].in
      BY <1>2, NoneHeld DEF HeldOK, HeldAt
    <2> QED  BY <1>0, <1>2, <2>1, <2>2 DEF TypeInv
  <1>3. ASSUME NEW S \in SUBSET deleted, db' = Shrink(db, S), tired' = TRUE,
               UNCHANGED <<saved, open, held>>
        PROVE  TypeInv'
    <2>1. Formed(db') /\ \A u \in Objs : u \notin deleted => db'.st[u] = db.st[u]
      BY <1>0, <1>3, ShrinkIs
    <2>2. \A u \in Objs : held[u].in => u \notin deleted
      BY DEF TypeInv, HeldOK, HeldAt
    <2>3. HeldOK'
      BY <1>1, <1>3, <2>1, <2>2 DEF HeldOK, HeldAt, TypeInv
    <2> QED  BY <1>0, <1>3, <2>1, <2>3 DEF TypeInv
  <1> QED  BY <1>2, <1>3 DEF Commit

\* The abort goes back to the committed objects.
LEMMA AbortType ==
    ASSUME TypeInv, Abort
    PROVE  TypeInv'
  <1>1. HeldOK' /\ \A u \in Objs : ~held'[u].in
    BY NoneHeld DEF Abort, HeldOK, HeldAt
  <1> QED  BY <1>1 DEF Abort, TypeInv

\* The start of a transaction.
LEMMA BeginType ==
    ASSUME TypeInv, Begin
    PROVE  TypeInv'
  <1>1. HeldOK'
    BY DEF Begin, TypeInv, HeldOK, HeldAt, AttrType, OneSide
  <1> QED  BY <1>1 DEF Begin, TypeInv

\* The first state, of an empty database.
LEMMA InitType == Init => TypeInv
  <1> SUFFICES ASSUME Init PROVE TypeInv
    OBVIOUS
  <1>1. Formed(NoObject)
    BY DEF NoObject, Formed, FormedAt, Data
  <1>2. HeldOK /\ \A u \in Objs : ~held[u].in
    BY NoneHeld DEF Init, HeldOK
  <1> QED  BY <1>1, <1>2 DEF Init, TypeInv

\* Every step keeps the type invariant.
LEMMA NextType ==
    ASSUME TypeInv, [Next]_vars
    PROVE  TypeInv'
  <1>1. ASSUME NEW o \in Objs, Load(o) \/ Edit(o) \/ Store(o) \/ Remove(o)
        PROVE  TypeInv'
    BY <1>1, LoadType, EditType, StoreType, RemoveType
  <1>2. ASSUME NEW o \in Objs, NEW v \in Partners(o) \cup {Null}, Create(o, v)
        PROVE  TypeInv'
    BY <1>2, CreateType
  <1>3. ASSUME NEW o \in Objs, NEW x \in Partners(o), CollInsert(o, x) \/ CollSuppress(o, x)
        PROVE  TypeInv'
    BY <1>3, CollInsertType, CollSuppressType
  <1>4. CASE UNCHANGED vars
    BY <1>4 DEF vars, TypeInv, HeldOK, HeldAt, AttrType, OneSide
  <1> QED  BY <1>1, <1>2, <1>3, <1>4, BeginType, CommitType, AbortType DEF Next

\* The inductive invariant, for every behaviour.
LEMMA TypeInvariant == Spec => []TypeInv
  <1> QED  BY InitType, NextType, PTL DEF Spec

\* Whatever fails, whatever the application does and however many objects there
\* are: the databases and the marks have their types, a collection with elements
\* belongs to its owner, the cache holds live objects of an open transaction.
THEOREM TypeCorrect == Spec => []TypeOK
  <1> QED  BY TypeInvariant, TypeInvIsTypeOK, PTL

-----------------------------------------------------------------------------
(* What the calls do to the links, seen from both ends.                     *)

\* The links of e are those of d; those of d without the ones of o; those of d
\* without the one of o and x; those of d, with o and v linked and without the
\* links that this one excludes.
SameLinks(d, e) ==
    \A p \in Objs : \A q \in Partners(p) : Points(e, p, q) <=> Points(d, p, q)
Forgets(d, e, o) ==
    \A p \in Objs : \A q \in Partners(p) :
        Points(e, p, q) <=> Points(d, p, q) /\ p # o /\ q # o
Unlinks(d, e, o, x) ==
    \A p \in Objs : \A q \in Partners(p) :
        Points(e, p, q) <=> Points(d, p, q) /\ ~(p = o /\ q = x) /\ ~(p = x /\ q = o)
Links(d, e, o, v) ==
    \A p \in Objs : \A q \in Partners(p) :
        Points(e, p, q) <=> \/ (p = o /\ q = v) \/ (p = v /\ q = o)
                            \/ /\ Points(d, p, q)
                               /\ OneSide(p) => p # o /\ p # v
                               /\ OneSide(q) => q # o /\ q # v

\* Both ends agree, whichever end one starts from.
LEMMA SymmetricIs ==
    ASSUME NEW d
    PROVE  Symmetric(d) <=> \A p \in Objs : \A q \in Partners(p) : Points(d, p, q) => Points(d, q, p)
  <1>1. ASSUME Symmetric(d), NEW p \in Objs, NEW q \in Partners(p), Points(d, p, q)
        PROVE  Points(d, q, p)
    <2>1. (p \in A /\ q \in B) \/ (p \in B /\ q \in A)
      BY DEF Objs, Partners
    <2> QED  BY <1>1, <2>1 DEF Symmetric
  <1>2. ASSUME \A p \in Objs : \A q \in Partners(p) : Points(d, p, q) => Points(d, q, p),
               NEW a \in A, NEW b \in B
        PROVE  Points(d, a, b) <=> Points(d, b, a)
    <2>1. a \in Objs /\ b \in Objs /\ b \in Partners(a) /\ a \in Partners(b)
      BY RelationshipAssumption DEF Objs, Partners
    <2> QED  BY <1>2, <2>1
  <1> QED  BY <1>1, <1>2 DEF Symmetric

\* Whatever a call does to the links, seen from both ends, keeps them symmetric.
LEMMA LinksSymmetric ==
    ASSUME NEW d, NEW e, Symmetric(d), NEW o \in Objs, NEW v,
           SameLinks(d, e) \/ Forgets(d, e, o) \/ Unlinks(d, e, o, v) \/ Links(d, e, o, v)
    PROVE  Symmetric(e)
  <1>1. \A p \in Objs : \A q \in Partners(p) : Points(d, p, q) => Points(d, q, p)
    BY SymmetricIs
  <1>2. ASSUME NEW p \in Objs, NEW q \in Partners(p), Points(e, p, q)
        PROVE  Points(e, q, p)
    <2>1. q \in Objs /\ p \in Partners(q)
      BY PartnersAre
    <2>2. CASE SameLinks(d, e)
      BY <1>1, <1>2, <2>1, <2>2 DEF SameLinks
    <2>3. CASE Forgets(d, e, o)
      BY <1>1, <1>2, <2>1, <2>3 DEF Forgets
    <2>4. CASE Unlinks(d, e, o, v)
      BY <1>1, <1>2, <2>1, <2>4 DEF Unlinks
    <2>5. CASE Links(d, e, o, v)
      BY <1>1, <1>2, <2>1, <2>5 DEF Links
    <2> QED  BY <2>2, <2>3, <2>4, <2>5
  <1> QED  BY <1>2, SymmetricIs

\* What happens to objects that are not live changes no link.
LEMMA SameLive ==
    ASSUME NEW d, NEW e,
           \A u \in Objs : /\ e.st[u] = "live" <=> d.st[u] = "live"
                           /\ d.st[u] = "live" => e.one[u] = d.one[u] /\ e.many[u] = d.many[u]
    PROVE  SameLinks(d, e)
  BY DEF SameLinks, Points

\* 1:1, an object stored.
LEMMA Store_1_1Links ==
    ASSUME NEW d, Formed(d), Symmetric(d), rel = "1_1", NEW o \in Objs,
           NEW v \in Partners(o) \cup {Null}, d.st[o] = "live", v # Null => d.st[v] = "live"
    PROVE  LET e == PutAttr(Update_1_1(d, o, v), o, v)
           IN  /\ v # Null => Links(d, e, o, v)
               /\ v = Null => Forgets(d, e, o)
  <1> DEFINE e == PutAttr(Update_1_1(d, o, v), o, v)
  <1>p. /\ Partners(o) \subseteq Objs /\ o \notin Partners(o) /\ v \in Oids /\ o # v
        /\ \A u \in Objs : u # Null /\ OneSide(u)
    BY PartnersAre, ObjsNotNull, OneSideIs DEF Oids
  <1> DEFINE f == Update_1_1(d, o, v)
  <1>d. d \in Data
    BY DEF Formed
  <1>f. /\ f \in Data /\ f.st = d.st
        /\ \A u \in Objs : f.one[u] =
              IF u = v THEN o
              ELSE IF \/ u = d.one[o] /\ d.one[u] = o
                      \/ v # Null /\ u = d.one[v] /\ u # o THEN Null
              ELSE d.one[u]
    BY <1>d, <1>p, Update_1_1Is
  <1>g. e = PutOne(f, o, v)
    BY <1>p DEF PutAttr
  <1> HIDE DEF f
  <1>1. e.st = d.st
    BY <1>f, <1>g, <1>p, PutOneIs
  <1>2. \A u \in Objs : e.one[u] =
             IF u = o THEN v ELSE IF u = v THEN o
             ELSE IF (u = d.one[o] /\ d.one[u] = o) \/ (v # Null /\ u = d.one[v]) THEN Null
             ELSE d.one[u]
    <2>1. \A u \in Objs : e.one[u] = IF u = o THEN v ELSE f.one[u]
      BY <1>f, <1>g, <1>p, PutOneIs
    <2> QED  BY <1>f, <2>1
  <1>3. \A p \in Objs : \A q \in Partners(p) : d.st[p] = "live" /\ d.one[p] = q
                                              => d.st[q] = "live" /\ d.one[q] = p
    <2> TAKE p \in Objs
    <2> TAKE q \in Partners(p)
    <2>1. OneSide(p) /\ OneSide(q)
      BY <1>p, PartnersAre
    <2> QED  BY <2>1, SymmetricIs DEF Points
  <1> HIDE DEF e
  <1>4. ASSUME NEW p \in Objs, NEW q \in Partners(p)
        PROVE  /\ v # Null => (Points(e, p, q) <=>
                                 \/ (p = o /\ q = v) \/ (p = v /\ q = o)
                                 \/ Points(d, p, q) /\ p # o /\ p # v /\ q # o /\ q # v)
               /\ v = Null => (Points(e, p, q) <=> Points(d, p, q) /\ p # o /\ q # o)
    <2>1. /\ q \in Objs /\ p # q /\ q # Null /\ OneSide(p)
      BY <1>p, PartnersAre
    <2>2. /\ d.st[p] = "live" /\ d.one[p] = q => d.st[q] = "live" /\ d.one[q] = p
          /\ v # Null /\ d.one[v] = p => d.one[p] = v
      <3>1. ASSUME v # Null, d.one[v] = p PROVE d.one[p] = v
        <4>1. v \in Objs /\ p \in Partners(v)
          BY <1>p, <3>1 DEF Formed, FormedAt
        <4> QED  BY <1>3, <3>1, <4>1
      <3> QED  BY <1>3, <3>1
    <2>3. /\ Points(e, p, q) <=> d.st[p] = "live" /\ e.one[p] = q
          /\ Points(d, p, q) <=> d.st[p] = "live" /\ d.one[p] = q
      BY <1>1, <2>1 DEF Points
    <2>4. e.one[p] = IF p = o THEN v ELSE IF p = v THEN o
                     ELSE IF (p = d.one[o] /\ d.one[p] = o) \/ (v # Null /\ p = d.one[v]) THEN Null
                     ELSE d.one[p]
      BY <1>2
    <2> QED  BY <1>p, <2>1, <2>2, <2>3, <2>4
  <1> QED  BY <1>4, <1>p, PartnersAre DEF Links, Forgets, e

\* 1:N, where the objects of B refer to one object and those of A to a collection.
LEMMA Sym_1_N ==
    ASSUME NEW d, rel = "1_N"
    PROVE  /\ \A a \in A : \A q : Points(d, a, q) <=> d.st[a] = "live" /\ q \in d.many[a]
           /\ \A b \in B : \A q : Points(d, b, q) <=> d.st[b] = "live" /\ d.one[b] = q
           /\ Symmetric(d) => \A a \in A, b \in B :
                 d.st[b] = "live" /\ d.one[b] = a <=> d.st[a] = "live" /\ b \in d.many[a]
  <1>1. \A a \in A : \A q : Points(d, a, q) <=> d.st[a] = "live" /\ q \in d.many[a]
    BY OneSideIs DEF Points, Objs
  <1>2. \A b \in B : \A q : Points(d, b, q) <=> d.st[b] = "live" /\ d.one[b] = q
    BY OneSideIs DEF Points, Objs
  <1> QED  BY <1>1, <1>2 DEF Symmetric

\* 1:N, what is shown of the pairs of A and B holds of the objects and their partners.
LEMMA Links_1_N ==
    ASSUME NEW d, NEW e, rel = "1_N", NEW a0 \in A, NEW b0 \in B,
           \A a \in A, b \in B :
              /\ Points(e, a, b) <=> (a = a0 /\ b = b0) \/ (Points(d, a, b) /\ b # b0)
              /\ Points(e, b, a) <=> (a = a0 /\ b = b0) \/ (Points(d, b, a) /\ b # b0)
    PROVE  Links(d, e, a0, b0) /\ Links(d, e, b0, a0)
  <1>1. ASSUME NEW p \in Objs, NEW q \in Partners(p)
        PROVE  Points(e, p, q) <=> \/ (p = a0 /\ q = b0) \/ (p = b0 /\ q = a0)
                                   \/ /\ Points(d, p, q)
                                      /\ OneSide(p) => p # a0 /\ p # b0
                                      /\ OneSide(q) => q # a0 /\ q # b0
    <2>1. q \in Objs /\ (OneSide(p) <=> p \in B) /\ (OneSide(q) <=> q \in B)
      BY PartnersAre, OneSideIs
    <2>2. CASE p \in A
      <3>1. q \in B /\ p \notin B /\ a0 \notin B /\ q # a0
        BY <2>2, RelationshipAssumption DEF Partners
      <3> QED  BY <2>1, <2>2, <3>1
    <2>3. CASE p \in B
      <3>1. q \in A /\ q \notin B /\ a0 \notin B /\ p # a0
        BY <2>3, RelationshipAssumption DEF Partners
      <3> QED  BY <2>1, <2>3, <3>1
    <2> QED  BY <2>2, <2>3 DEF Objs
  <1> QED  BY <1>1 DEF Links

\* 1:N, how to show from its owner's side that an object was forgotten.
LEMMA Forgets_1_N ==
    ASSUME NEW d, NEW e, rel = "1_N", NEW o \in Objs,
           \A a \in A, b \in B :
              /\ Points(e, a, b) <=> Points(d, a, b) /\ a # o /\ b # o
              /\ Points(e, b, a) <=> Points(d, b, a) /\ a # o /\ b # o
    PROVE  Forgets(d, e, o)
  <1>1. ASSUME NEW p \in Objs, NEW q \in Partners(p)
        PROVE  Points(e, p, q) <=> Points(d, p, q) /\ p # o /\ q # o
    <2>1. (p \in A /\ q \in B) \/ (p \in B /\ q \in A)
      BY DEF Objs, Partners
    <2> QED  BY <2>1
  <1> QED  BY <1>1 DEF Forgets

\* 1:N, an object with one owner stored.
LEMMA Store_1_NLinks ==
    ASSUME NEW d, Formed(d), Symmetric(d), rel = "1_N", NEW o \in B,
           NEW v \in A \cup {Null}, d.st[o] = "live", v # Null => d.st[v] = "live"
    PROVE  LET e == PutAttr(Update_1_N(d, o, v), o, v)
           IN  /\ v # Null => Links(d, e, o, v)
               /\ v = Null => Forgets(d, e, o)
  <1> DEFINE e == PutAttr(Update_1_N(d, o, v), o, v)
             f == Update_1_N(d, o, v)
  <1>p. o \in Objs /\ v \in Oids /\ OneSide(o) /\ d \in Data /\ Null \notin A
    BY OneSideIs, RelationshipAssumption DEF Oids, Objs, Formed
  <1>f. /\ f \in Data /\ f.st = d.st /\ f.one = d.one
        /\ \A u \in Objs : f.many[u] = IF u = v THEN d.many[u] \cup {o}
                                       ELSE IF u = d.one[o] THEN d.many[u] \ {o} ELSE d.many[u]
    BY <1>p, ObjsNotNull, ZenonT(60) DEF Update_1_N, Create_1_N, Into, OutOf, Data, Oids
  <1>g. e = PutOne(f, o, v)
    BY <1>p DEF PutAttr
  <1> HIDE DEF f
  <1>1. /\ e.st = d.st /\ e.many = f.many
        /\ \A u \in Objs : e.one[u] = IF u = o THEN v ELSE d.one[u]
    BY <1>f, <1>g, <1>p, PutOneIs
  <1>2. \A a \in A, b \in B :
           d.st[b] = "live" /\ d.one[b] = a <=> d.st[a] = "live" /\ b \in d.many[a]
    BY Sym_1_N
  <1> HIDE DEF e
  <1>3. ASSUME NEW a \in A, NEW b \in B
        PROVE  /\ Points(e, a, b) <=> (a = v /\ b = o) \/ (Points(d, a, b) /\ b # o)
               /\ Points(e, b, a) <=> (a = v /\ b = o) \/ (Points(d, b, a) /\ b # o)
    <2>1. a \in Objs /\ b \in Objs
      BY DEF Objs
    <2>2. /\ Points(e, a, b) <=> d.st[a] = "live" /\ b \in f.many[a]
          /\ Points(d, a, b) <=> d.st[a] = "live" /\ b \in d.many[a]
          /\ Points(e, b, a) <=> d.st[b] = "live" /\ e.one[b] = a
          /\ Points(d, b, a) <=> d.st[b] = "live" /\ d.one[b] = a
      BY <1>1, Sym_1_N
    <2>3. f.many[a] = IF a = v THEN d.many[a] \cup {o}
                      ELSE IF a = d.one[o] THEN d.many[a] \ {o} ELSE d.many[a]
      BY <1>f, <2>1
    <2>4. e.one[b] = IF b = o THEN v ELSE d.one[b]
      BY <1>1, <2>1
    <2>5. d.st[a] = "live" /\ o \in d.many[a] => d.one[o] = a
      BY <1>2
    <2>6. a # Null
      BY <1>p
    <2> QED  BY <2>2, <2>3, <2>4, <2>5, <2>6
  <1>4. v # Null => Links(d, e, o, v)
    BY <1>3, Links_1_N
  <1>5. v = Null => Forgets(d, e, o)
    <2> SUFFICES ASSUME v = Null PROVE Forgets(d, e, o)
      OBVIOUS
    <2>1. \A a \in A : a # v /\ a # o
      BY <1>p, RelationshipAssumption
    <2> QED  BY <1>3, <1>p, <2>1, Forgets_1_N
  <1> QED  BY <1>4, <1>5 DEF e

\* 1:N, an owner stored: its collection is unchanged, or dropped with its links.
LEMMA Store_N_1Links ==
    ASSUME NEW d, Formed(d), Symmetric(d), rel = "1_N", NEW o \in A,
           NEW c \in BOOLEAN, d.st[o] = "live"
    PROVE  LET e == PutAttr(Update_N_1(d, o, c), o, c)
           IN  /\ c => SameLinks(d, e)
               /\ ~c => Forgets(d, e, o)
  <1> DEFINE f == Update_N_1(d, o, c)
             e == PutAttr(f, o, c)
  <1>p. o \in Objs /\ ~OneSide(o) /\ d \in Data
    BY OneSideIs, RelationshipAssumption DEF Objs, Formed
  <1>2. \A a \in A, b \in B :
           d.st[b] = "live" /\ d.one[b] = a <=> d.st[a] = "live" /\ b \in d.many[a]
    BY Sym_1_N
  <1>3. d.many[o] \subseteq B /\ \A u \in d.many[o] : d.one[u] = o /\ d.st[u] = "live" /\ u \in Objs
    <2>1. d.many[o] \subseteq B
      BY <1>p DEF Formed, FormedAt, Partners
    <2> QED  BY <1>2, <2>1 DEF Objs
  <1>f. /\ f \in Data /\ f.st = d.st
        /\ ~c => /\ f.many = d.many
                 /\ \A u \in Objs : f.one[u] = IF d.has[o] /\ u \in d.many[o] THEN Null ELSE d.one[u]
        /\ c => \A u \in Objs :
              /\ f.one[u] = IF u \in d.many[o] THEN o ELSE d.one[u]
              /\ ~(\E w \in d.many[o] : d.one[w] = u /\ u # o) => f.many[u] = d.many[u]
    BY <1>p, Update_N_1Is
  <1> HIDE DEF f
  <1>1. /\ e.st = d.st
        /\ \A u \in Objs : /\ e.one[u] = f.one[u]
                           /\ e.many[u] = IF u = o /\ ~c THEN {} ELSE f.many[u]
    <2>1. f \in Data
      BY <1>f
    <2>2. e.st = f.st /\ e.one = f.one
      BY <1>p, <2>1 DEF PutAttr, Data
    <2>3. \A u \in Objs : e.many[u] = IF u = o /\ ~c THEN {} ELSE f.many[u]
      BY <1>p, <2>1 DEF PutAttr, Data
    <2> QED  BY <1>f, <2>2, <2>3
  <1> HIDE DEF e, f
  <1>4. CASE c
    <2>1. \A u \in Objs : e.one[u] = d.one[u] /\ e.many[u] = d.many[u]
      BY <1>1, <1>3, <1>4, <1>f
    <2>2. SameLinks(d, e)
      BY <1>1, <2>1, SameLive
    <2> QED  BY <1>4, <2>2 DEF e, f
  <1>5. CASE ~c
    <2>1. ASSUME NEW a \in A, NEW b \in B
          PROVE  /\ Points(e, a, b) <=> Points(d, a, b) /\ a # o /\ b # o
                 /\ Points(e, b, a) <=> Points(d, b, a) /\ a # o /\ b # o
      <3>1. a \in Objs /\ b \in Objs /\ b # o /\ a # Null
        BY RelationshipAssumption DEF Objs
      <3>2. /\ Points(e, a, b) <=> d.st[a] = "live" /\ b \in e.many[a]
            /\ Points(d, a, b) <=> d.st[a] = "live" /\ b \in d.many[a]
            /\ Points(e, b, a) <=> d.st[b] = "live" /\ e.one[b] = a
            /\ Points(d, b, a) <=> d.st[b] = "live" /\ d.one[b] = a
        BY <1>1, Sym_1_N
      <3>3. e.many[a] = IF a = o THEN {} ELSE d.many[a]
        BY <1>1, <1>5, <1>f, <3>1
      <3>4. e.one[b] = IF d.has[o] /\ b \in d.many[o] THEN Null ELSE d.one[b]
        BY <1>1, <1>5, <1>f, <3>1
      <3>5. /\ d.st[b] = "live" /\ d.one[b] = o => b \in d.many[o]
            /\ b \in d.many[o] => d.has[o] /\ d.one[b] = o
        BY <1>2, <1>3, <1>p DEF Formed, FormedAt
      <3> QED  BY <3>1, <3>2, <3>3, <3>4, <3>5
    <2> QED  BY <1>5, <1>p, <2>1, Forgets_1_N DEF e, f
  <1> QED  BY <1>4, <1>5

\* N:N, where every object has a collection.
LEMMA Sym_N_N ==
    ASSUME NEW d, rel = "N_N"
    PROVE  /\ \A p \in Objs : \A q : Points(d, p, q) <=> d.st[p] = "live" /\ q \in d.many[p]
           /\ Symmetric(d) => \A p \in Objs : \A q \in Partners(p) :
                 d.st[p] = "live" /\ q \in d.many[p] => d.st[q] = "live" /\ p \in d.many[q]
  <1>1. \A p \in Objs : \A q : Points(d, p, q) <=> d.st[p] = "live" /\ q \in d.many[p]
    BY OneSideIs DEF Points
  <1>2. ASSUME Symmetric(d), NEW p \in Objs, NEW q \in Partners(p),
               d.st[p] = "live", q \in d.many[p]
        PROVE  d.st[q] = "live" /\ p \in d.many[q]
    <2>1. q \in Objs
      BY PartnersAre
    <2> QED  BY <1>1, <1>2, <2>1, SymmetricIs
  <1> QED  BY <1>1, <1>2

\* No object refers to one that is not live, nor to one whose attribute is empty.
LEMMA NoLinkTo ==
    ASSUME NEW d, Symmetric(d), NEW o \in Objs,
           d.st[o] # "live" \/ (IF OneSide(o) THEN d.one[o] = Null ELSE d.many[o] = {})
    PROVE  \A p \in Objs : \A q \in Partners(p) :
              /\ Points(d, p, q) => p # o /\ q # o
  <1>1. \A q \in Partners(o) : ~Points(d, o, q)
    BY PartnersAre DEF Points
  <1> TAKE p \in Objs
  <1> TAKE q \in Partners(p)
  <1>2. p \in Partners(q) /\ q \in Objs
    BY PartnersAre
  <1> QED  BY <1>1, <1>2, SymmetricIs

\* To forget an object without links changes no link.
LEMMA ForgetsNothing ==
    ASSUME NEW d, NEW e, Symmetric(d), NEW o \in Objs,
           d.st[o] # "live" \/ (IF OneSide(o) THEN d.one[o] = Null ELSE d.many[o] = {})
    PROVE  Forgets(d, e, o) <=> SameLinks(d, e)
  BY NoLinkTo DEF Forgets, SameLinks

\* N:N, an object stored: its collection is unchanged, or dropped with its links.
LEMMA Store_N_NLinks ==
    ASSUME NEW d, Formed(d), Symmetric(d), rel = "N_N", NEW o \in Objs,
           NEW c \in BOOLEAN, d.st[o] = "live"
    PROVE  LET e == PutAttr(Update_N_N(d, o, c), o, c)
           IN  /\ c => SameLinks(d, e)
               /\ ~c => Forgets(d, e, o)
  <1> DEFINE f == Update_N_N(d, o, c)
             e == PutAttr(f, o, c)
  <1>p. ~OneSide(o) /\ d \in Data
    BY OneSideIs DEF Formed
  <1>f. /\ f \in Data
        /\ f.st = d.st /\ f.one = d.one
        /\ d.has[o] = c => f.many = d.many
        /\ c /\ ~d.has[o] => \A u \in Objs :
              f.many[u] = IF u \in d.many[o] THEN d.many[u] \cup {o} ELSE d.many[u]
        /\ ~c /\ d.has[o] => \A u \in Objs :
              f.many[u] = IF u = o THEN {} ELSE
                          IF u \in d.many[o] THEN d.many[u] \ {o} ELSE d.many[u]
    BY <1>p, ZenonT(60) DEF Update_N_N, Data
  <1>g. f \in Data
    BY <1>f
  <1> HIDE DEF f
  <1>1. /\ e.st = f.st /\ e.one = f.one
        /\ \A u \in Objs : e.many[u] = IF u = o /\ ~c THEN {} ELSE f.many[u]
    BY <1>p, <1>g DEF PutAttr, Data
  <1> HIDE DEF e
  <1>2. ~d.has[o] => d.many[o] = {}
    BY DEF Formed, FormedAt
  <1>3. CASE c \/ ~d.has[o]
    <2>1. \A u \in Objs : e.many[u] = d.many[u] /\ e.one[u] = d.one[u] /\ e.st[u] = d.st[u]
      <3>1. CASE d.has[o] = c
        BY <1>1, <1>2, <1>3, <1>f, <3>1
      <3>2. CASE c /\ ~d.has[o]
        BY <1>1, <1>2, <1>f, <3>2
      <3>3. d.has[o] \in BOOLEAN
        BY <1>p DEF Data
      <3> QED  BY <1>3, <3>1, <3>2, <3>3
    <2>2. SameLinks(d, e)
      BY <2>1, SameLive
    <2>3. ~c => Forgets(d, e, o)
      <3> SUFFICES ASSUME ~c PROVE Forgets(d, e, o)
        OBVIOUS
      <3>1. ~OneSide(o) /\ d.many[o] = {}
        BY <1>2, <1>3, <1>p
      <3> QED  BY <2>2, <3>1, ForgetsNothing
    <2> QED  BY <2>2, <2>3 DEF e, f
  <1>4. CASE ~c /\ d.has[o]
    <2>1. \A u \in Objs : e.many[u] = IF u = o THEN {} ELSE
                                      IF u \in d.many[o] THEN d.many[u] \ {o} ELSE d.many[u]
      BY <1>1, <1>4, <1>f
    <2>2. ASSUME NEW p \in Objs, NEW q \in Partners(p)
          PROVE  Points(e, p, q) <=> Points(d, p, q) /\ p # o /\ q # o
      <3>1. /\ Points(e, p, q) <=> d.st[p] = "live" /\ q \in e.many[p]
            /\ Points(d, p, q) <=> d.st[p] = "live" /\ q \in d.many[p]
        BY <1>1, <1>f, Sym_N_N
      <3>2. e.many[p] = IF p = o THEN {} ELSE
                        IF p \in d.many[o] THEN d.many[p] \ {o} ELSE d.many[p]
        BY <2>1
      <3>3. d.st[p] = "live" /\ q = o /\ q \in d.many[p] => p \in d.many[o]
        BY Sym_N_N
      <3> QED  BY <3>1, <3>2, <3>3
    <2>3. Forgets(d, e, o)
      BY <2>2 DEF Forgets
    <2> QED  BY <1>4, <2>3 DEF e, f
  <1> QED  BY <1>3, <1>4

\* Agregat::realize of an object of the database, in the four cases.
LEMMA StoreLinks ==
    ASSUME NEW d, Formed(d), Symmetric(d), rel \in Rels, NEW o \in Objs, NEW v \in AttrType(o),
           d.st[o] = "live", OneSide(o) /\ v # Null => d.st[v] = "live"
    PROVE  LET e == PutAttr(UpdateInverse(d, o, v), o, v)
           IN  /\ OneSide(o) /\ v # Null => Links(d, e, o, v)
               /\ OneSide(o) /\ v = Null => Forgets(d, e, o)
               /\ ~OneSide(o) /\ v => SameLinks(d, e)
               /\ ~OneSide(o) /\ ~v => Forgets(d, e, o)
  <1>1. CASE rel = "1_1"
    <2>1. UpdateInverse(d, o, v) = Update_1_1(d, o, v) /\ v \in Partners(o) \cup {Null} /\ OneSide(o)
      BY <1>1, OneSideIs DEF UpdateInverse, AttrType
    <2> QED  BY <1>1, <2>1, Store_1_1Links
  <1>2. CASE rel = "1_N" /\ o \in B
    <2>1. UpdateInverse(d, o, v) = Update_1_N(d, o, v) /\ OneSide(o)
      BY <1>2, OneSideIs DEF UpdateInverse
    <2>2. v \in A \cup {Null}
      BY <1>2, <2>1, RelationshipAssumption DEF AttrType, Partners
    <2> QED  BY <1>2, <2>1, <2>2, Store_1_NLinks
  <1>3. CASE rel = "1_N" /\ o \in A
    <2>1. UpdateInverse(d, o, v) = Update_N_1(d, o, v) /\ v \in BOOLEAN /\ ~OneSide(o)
      BY <1>3, OneSideIs DEF UpdateInverse, AttrType
    <2> QED  BY <1>3, <2>1, Store_N_1Links
  <1>4. CASE rel = "N_N"
    <2>1. UpdateInverse(d, o, v) = Update_N_N(d, o, v) /\ v \in BOOLEAN /\ ~OneSide(o)
      BY <1>4, OneSideIs DEF UpdateInverse, AttrType
    <2> QED  BY <1>4, <2>1, Store_N_NLinks
  <1> QED  BY <1>1, <1>2, <1>3, <1>4, RelIs DEF Objs

\* Agregat::realize of a new object.
NewObject(d, o, v) == [d EXCEPT !.st[o] = "live", !.one[o] = v]

\* A new object is live and refers to v.
LEMMA NewObjectIs ==
    ASSUME NEW d \in Data, NEW o \in Objs, NEW v \in Oids
    PROVE  LET e == NewObject(d, o, v)
           IN  /\ e \in Data /\ e.has = d.has /\ e.many = d.many
               /\ \A u \in Objs : /\ e.st[u] = IF u = o THEN "live" ELSE d.st[u]
                                  /\ e.one[u] = IF u = o THEN v ELSE d.one[u]
  BY DEF NewObject, Data, Oids

\* The creation links the new object with the one it refers to.
LEMMA CreateLinks ==
    ASSUME NEW d, Formed(d), Symmetric(d), rel \in Rels, NEW o \in Objs,
           NEW v \in Partners(o) \cup {Null}, d.st[o] = "none",
           v # Null => OneSide(o) /\ d.st[v] = "live"
    PROVE  LET e == CreateInverse(NewObject(d, o, v), o, v)
           IN  /\ v # Null => Links(d, e, o, v)
               /\ v = Null => SameLinks(d, e)
  <1> DEFINE f == NewObject(d, o, v)
             e == CreateInverse(f, o, v)
  <1>p. /\ d \in Data /\ v \in Oids /\ v # o /\ d.many[o] = {}
        /\ \A u \in Objs : u # Null
    BY PartnersAre, ObjsNotNull DEF Formed, FormedAt, Oids
  <1>f. /\ f \in Data
        /\ f.many = d.many
        /\ \A u \in Objs : /\ f.st[u] = IF u = o THEN "live" ELSE d.st[u]
                           /\ f.one[u] = IF u = o THEN v ELSE d.one[u]
    BY <1>p, NewObjectIs
  <1>fd. f \in Data
    BY <1>f
  <1>n. \A p \in Objs : \A q \in Partners(p) : Points(d, p, q) => p # o /\ q # o
    BY NoLinkTo
  <1> HIDE DEF f
  <1>1. CASE v = Null
    <2>1. e = f
      BY <1>1 DEF CreateInverse, Create_1_1, Create_1_N
    <2>2. ASSUME NEW p \in Objs, NEW q \in Partners(p)
          PROVE  Points(f, p, q) <=> Points(d, p, q)
      <3>1. CASE p # o
        BY <1>f, <3>1 DEF Points
      <3>2. CASE p = o
        BY <1>1, <1>f, <1>n, <1>p, <3>2, PartnersAre DEF Points
      <3> QED  BY <3>1, <3>2
    <2> QED  BY <1>1, <2>1, <2>2 DEF SameLinks, e, f
  <1>2. CASE v # Null /\ rel = "1_1"
    <2>1. e = Create_1_1(f, o, v)
      BY <1>2 DEF CreateInverse
    <2> HIDE DEF e
    <2>2. /\ e.st = f.st
          /\ \A u \in Objs : e.one[u] = IF u = v THEN o
                                        ELSE IF v # Null /\ u = f.one[v] /\ u # o THEN Null
                                        ELSE f.one[u]
      BY <1>f, <1>p, <2>1, Create_1_1Is
    <2>3. \A u \in Objs : OneSide(u)
      BY <1>2, OneSideIs
    <2>4. ASSUME NEW p \in Objs, NEW q \in Partners(p)
          PROVE  Points(e, p, q) <=> \/ (p = o /\ q = v) \/ (p = v /\ q = o)
                                     \/ Points(d, p, q) /\ p # o /\ p # v /\ q # o /\ q # v
      <3>1. q \in Objs /\ p # q /\ p \in Partners(q) /\ OneSide(p) /\ OneSide(q) /\ v \in Objs
        BY <1>2, <1>p, <2>3, PartnersAre DEF Oids
      <3>2. /\ Points(e, p, q) <=> e.st[p] = "live" /\ e.one[p] = q
            /\ Points(d, p, q) <=> d.st[p] = "live" /\ d.one[p] = q
        BY <3>1 DEF Points
      <3>3. /\ e.st[p] = IF p = o THEN "live" ELSE d.st[p]
            /\ e.one[p] = IF p = v THEN o
                          ELSE IF p = d.one[v] /\ p # o THEN Null
                          ELSE IF p = o THEN v ELSE d.one[p]
        BY <1>2, <1>f, <1>p, <2>2, <3>1
      <3>4. /\ Points(d, p, q) => p # o /\ q # o
            /\ d.st[p] = "live" /\ d.one[p] = q => d.st[q] = "live" /\ d.one[q] = p
        BY <1>n, <3>1, SymmetricIs DEF Points
      <3>5. p = d.one[v] => d.st[p] = "live" /\ d.one[p] = v
        <4> SUFFICES ASSUME p = d.one[v] PROVE d.st[p] = "live" /\ d.one[p] = v
          OBVIOUS
        <4>1. p \in Partners(v) /\ Points(d, v, p)
          BY <1>2, <1>p, <2>3, <3>1 DEF Points, Formed, FormedAt
        <4> QED  BY <3>1, <4>1, SymmetricIs DEF Points
      <3> QED  BY <1>2, <1>p, <3>1, <3>2, <3>3, <3>4, <3>5
    <2>5. Links(d, e, o, v)
      BY <2>3, <2>4, PartnersAre DEF Links
    <2> QED  BY <1>2, <2>5 DEF e, f
  <1>3. CASE v # Null /\ rel = "1_N" /\ o \in B
    <2>1. e = Create_1_N(f, o, v) /\ v \in A /\ v \in Objs
      BY <1>3, RelationshipAssumption DEF CreateInverse, Partners, Objs
    <2> HIDE DEF e
    <2>2. /\ e.st = f.st /\ e.one = f.one
          /\ \A u \in Objs : e.many[u] = IF u = v THEN d.many[u] \cup {o} ELSE d.many[u]
      <3>1. /\ e.st = f.st /\ e.one = f.one
            /\ \A u \in Objs : e.many[u] = IF u = v THEN f.many[u] \cup {o} ELSE f.many[u]
        BY <1>fd, <1>3, <2>1 DEF Create_1_N, Into, Data
      <3> QED  BY <1>f, <3>1
    <2>3. ASSUME NEW a \in A, NEW b \in B
          PROVE  /\ Points(e, a, b) <=> (a = v /\ b = o) \/ (Points(d, a, b) /\ b # o)
                 /\ Points(e, b, a) <=> (a = v /\ b = o) \/ (Points(d, b, a) /\ b # o)
      <3>1. a \in Objs /\ b \in Objs /\ a # o /\ a \in Partners(b) /\ b \in Partners(a)
        BY <1>3, RelationshipAssumption DEF Objs, Partners
      <3>2. /\ Points(e, a, b) <=> e.st[a] = "live" /\ b \in e.many[a]
            /\ Points(d, a, b) <=> d.st[a] = "live" /\ b \in d.many[a]
            /\ Points(e, b, a) <=> e.st[b] = "live" /\ e.one[b] = a
            /\ Points(d, b, a) <=> d.st[b] = "live" /\ d.one[b] = a
        BY <1>3, Sym_1_N
      <3>3. /\ e.st[a] = d.st[a] /\ e.st[b] = (IF b = o THEN "live" ELSE d.st[b])
            /\ e.one[b] = IF b = o THEN v ELSE d.one[b]
            /\ e.many[a] = IF a = v THEN d.many[a] \cup {o} ELSE d.many[a]
        BY <1>f, <2>2, <3>1
      <3>4. (Points(d, a, b) => b # o) /\ (Points(d, b, a) => b # o)
        BY <1>n, <3>1
      <3> QED  BY <1>3, <3>2, <3>3, <3>4
    <2>4. Links(d, e, o, v)
      BY <1>3, <2>1, <2>3, Links_1_N
    <2> QED  BY <1>3, <2>4 DEF e, f
  <1>4. v # Null => rel = "1_1" \/ (rel = "1_N" /\ o \in B)
    BY OneSideIs, RelIs
  <1> QED  BY <1>1, <1>2, <1>3, <1>4

\* A new object that an index refuses: the links are those of before.
LEMMA RefuseLinks ==
    ASSUME NEW d, Formed(d), Symmetric(d), rel \in Rels, NEW o \in Objs,
           NEW v \in Partners(o) \cup {Null}, d.st[o] = "none",
           v # Null => rel = "1_N" /\ OneSide(o) /\ d.st[v] = "live"
    PROVE  SameLinks(d, Without(RemoveInverse(NewObject(d, o, v), o, v), o, "none"))
  <1> DEFINE f == NewObject(d, o, v)
             g == RemoveInverse(f, o, v)
             e == Without(g, o, "none")
  <1>p. /\ d \in Data /\ v \in Oids /\ v # o /\ d.many[o] = {}
        /\ \A u \in Objs : u # Null
    BY PartnersAre, ObjsNotNull DEF Formed, FormedAt, Oids
  <1>f. /\ f \in Data
        /\ f.many = d.many
        /\ \A u \in Objs : /\ f.st[u] = IF u = o THEN "live" ELSE d.st[u]
                           /\ f.one[u] = IF u = o THEN v ELSE d.one[u]
    BY <1>p, NewObjectIs
  <1>fd. f \in Data
    BY <1>f
  <1> HIDE DEF f
  <1>1. /\ g \in Data
        /\ g.st = f.st /\ \A u \in Objs : d.st[u] = "live" => g.one[u] = f.one[u] /\ g.many[u] = d.many[u]
    <2>1. CASE rel = "1_1"
      <3>1. g = f
        BY <1>p, <2>1 DEF RemoveInverse, Remove_1_1
      <3> QED  BY <1>f, <3>1
    <2>2. CASE rel = "1_N" /\ o \in B
      <3>1. g = Remove_1_N(f, o, v)
        BY <2>2, RelationshipAssumption DEF RemoveInverse
      <3> HIDE DEF g
      <3>2. /\ g \in Data
            /\ g.st = f.st /\ g.one = f.one
            /\ \A u \in Objs : g.many[u] = IF u = v THEN f.many[u] \ {o} ELSE f.many[u]
        BY <1>fd, <1>p, <3>1 DEF Remove_1_N, OutOf, Oids, Data
      <3>3. v # Null => o \notin d.many[v]
        <4> SUFFICES ASSUME v # Null PROVE o \notin d.many[v]
          OBVIOUS
        <4>1. v \in A /\ d.st[v] = "live"
          BY <2>2, RelationshipAssumption DEF Partners
        <4> QED  BY <2>2, <4>1, Sym_1_N
      <3> QED  BY <1>f, <1>p, <3>2, <3>3
    <2>3. CASE rel = "1_N" /\ o \in A
      <3>1. g = Remove_N_1(f, o)
        BY <2>3, RelationshipAssumption DEF RemoveInverse
      <3> HIDE DEF g
      <3>2. /\ g \in Data
            /\ g.st = f.st /\ g.many = f.many
            /\ \A u \in Objs : g.one[u] = IF u \in f.many[o] THEN Null ELSE f.one[u]
        BY <1>f, <3>1, Remove_N_1Is
      <3> QED  BY <1>f, <1>p, <3>2
    <2>4. CASE rel = "N_N"
      <3>1. g = Remove_N_N(f, o)
        BY <2>4 DEF RemoveInverse
      <3> HIDE DEF g
      <3>2. /\ g \in Data
            /\ g.st = f.st /\ g.one = f.one
            /\ \A u \in Objs : g.many[u] = IF u = o THEN {} ELSE
                                           IF u \in f.many[o] THEN f.many[u] \ {o} ELSE f.many[u]
        BY <1>fd, <3>1 DEF Remove_N_N, Data
      <3> QED  BY <1>f, <1>p, <3>2
    <2> QED  BY <2>1, <2>2, <2>3, <2>4, RelIs DEF Objs
  <1>g. g \in Data
    BY <1>1
  <1> HIDE DEF g
  <1>2. /\ \A u \in Objs \ {o} : e.st[u] = g.st[u] /\ e.one[u] = g.one[u] /\ e.many[u] = g.many[u]
        /\ e.st[o] = "none"
    BY <1>g, WithoutIs
  <1> HIDE DEF e
  <1>3. ASSUME NEW u \in Objs
        PROVE  /\ e.st[u] = "live" <=> d.st[u] = "live"
               /\ d.st[u] = "live" => e.one[u] = d.one[u] /\ e.many[u] = d.many[u]
    <2>1. CASE u = o
      BY <1>2, <2>1
    <2>2. CASE u # o
      BY <1>1, <1>2, <1>f, <2>2
    <2> QED  BY <2>1, <2>2
  <1>4. SameLinks(d, e)
    BY <1>3, SameLive
  <1> QED  BY <1>4 DEF e, g, f

\* Agregat::remove: the object leaves the links of all the others, whether its
\* collection is deleted first or not.
LEMMA GoneForgets ==
    ASSUME NEW d, NEW g, Symmetric(d), NEW o \in Objs, Formed(g), g.st = d.st,
           \A p \in Objs : \A q \in Partners(p) :
              p # o => (Points(g, p, q) <=> Points(d, p, q) /\ q # o)
    PROVE  Forgets(d, DeleteInstance(g, o), o)
  <1> DEFINE e == DeleteInstance(g, o)
  <1>g. g \in Data
    BY DEF Formed
  <1>1. /\ \A u \in Objs \ {o} : e.st[u] = g.st[u] /\ e.one[u] = g.one[u] /\ e.many[u] = g.many[u]
        /\ e.st[o] # "live"
    BY <1>g, DeleteInstanceIs
  <1> HIDE DEF e
  <1>2. ASSUME NEW p \in Objs, NEW q \in Partners(p)
        PROVE  Points(e, p, q) <=> Points(d, p, q) /\ p # o /\ q # o
    <2>1. CASE p = o
      BY <1>1, <2>1 DEF Points
    <2>2. CASE p # o
      <3>1. Points(e, p, q) <=> Points(g, p, q)
        BY <1>1, <2>2 DEF Points
      <3> QED  BY <2>2, <3>1
    <2> QED  BY <2>1, <2>2
  <1>3. Forgets(d, e, o)
    BY <1>2 DEF Forgets
  <1> QED  BY <1>3 DEF e

\* inverse_realize for a removal: the other ends forget the object.
LEMMA RemoveInverseLinks ==
    ASSUME NEW d, Formed(d), Symmetric(d), rel \in Rels, NEW o \in Objs, d.st[o] = "live"
    PROVE  \A p \in Objs : \A q \in Partners(p) :
              p # o => (Points(RemoveInverse(d, o, Attr(d, o)), p, q) <=> Points(d, p, q) /\ q # o)
  <1> DEFINE v == Attr(d, o)
             g == RemoveInverse(d, o, v)
  <1>p. d \in Data /\ \A u \in Objs : u # Null
    BY ObjsNotNull DEF Formed
  <1> SUFFICES ASSUME NEW p \in Objs, NEW q \in Partners(p), p # o
               PROVE  Points(g, p, q) <=> Points(d, p, q) /\ q # o
    OBVIOUS
  <1>q. q \in Objs /\ p \in Partners(q) /\ q # Null
    BY <1>p, PartnersAre
  <1>s. q = o /\ Points(d, p, q) => Points(d, o, p)
    BY <1>q, SymmetricIs
  <1>o. Points(d, o, p) => p \in Partners(o)
    <2> SUFFICES ASSUME Points(d, o, p) PROVE p \in Partners(o)
      OBVIOUS
    <2>1. CASE OneSide(o)
      BY <1>p, <2>1 DEF Points, Formed, FormedAt
    <2>2. CASE ~OneSide(o)
      BY <2>2 DEF Points, Formed, FormedAt
    <2> QED  BY <2>1, <2>2
  <1>t. Points(d, o, p) => Points(d, p, o)
    BY <1>o, SymmetricIs
  <1>1. CASE rel = "1_1"
    <2>1. g = Remove_1_1(d, o, v) /\ v = d.one[o] /\ OneSide(o) /\ OneSide(p)
      BY <1>1, OneSideIs DEF RemoveInverse, Attr
    <2>2. v \in Oids
      BY <1>p, <2>1 DEF Data, Oids
    <2> HIDE DEF g, v
    <2>3. g.st = d.st /\ \A u \in Objs : g.one[u] = IF u = v THEN Null ELSE d.one[u]
      BY <1>p, <2>1, <2>2, Remove_1_1Is
    <2>4. /\ Points(g, p, q) <=> d.st[p] = "live" /\ (IF p = d.one[o] THEN Null ELSE d.one[p]) = q
          /\ Points(d, p, q) <=> d.st[p] = "live" /\ d.one[p] = q
          /\ Points(d, o, p) <=> d.one[o] = p
      BY <2>1, <2>3 DEF Points
    <2>5. d.one[o] = p => d.one[p] = o
      BY <1>t, <2>1, <2>4 DEF Points
    <2> QED  BY <1>q, <1>s, <2>4, <2>5
  <1>2. CASE rel = "1_N" /\ o \in B
    <2>1. g = Remove_1_N(d, o, v) /\ v = d.one[o] /\ OneSide(o)
      BY <1>2, OneSideIs, RelationshipAssumption DEF RemoveInverse, Attr
    <2>2. v \in Oids
      BY <1>p, <2>1 DEF Data, Oids
    <2> HIDE DEF g, v
    <2>3. /\ g.st = d.st /\ g.one = d.one
          /\ \A u \in Objs : g.many[u] = IF u = v THEN d.many[u] \ {o} ELSE d.many[u]
      BY <1>p, <2>1, <2>2 DEF Remove_1_N, OutOf, Oids, Data
    <2>4. CASE p \in B
      <3>1. q # o
        BY <1>2, <2>4, RelationshipAssumption DEF Partners
      <3> QED  BY <1>2, <2>3, <2>4, <3>1, Sym_1_N
    <2>5. CASE p \in A
      <3>1. /\ Points(g, p, q) <=> d.st[p] = "live" /\ q \in g.many[p]
            /\ Points(d, p, q) <=> d.st[p] = "live" /\ q \in d.many[p]
            /\ Points(d, o, p) <=> d.one[o] = p
        BY <1>2, <2>3, <2>5, Sym_1_N
      <3>2. g.many[p] = IF p = d.one[o] THEN d.many[p] \ {o} ELSE d.many[p]
        BY <2>1, <2>3
      <3> QED  BY <1>s, <3>1, <3>2
    <2> QED  BY <2>4, <2>5 DEF Objs
  <1>3. CASE rel = "1_N" /\ o \in A
    <2>1. g = Remove_N_1(d, o)
      BY <1>3, RelationshipAssumption DEF RemoveInverse
    <2> HIDE DEF g
    <2>3. /\ g.st = d.st /\ g.many = d.many
          /\ \A u \in Objs : g.one[u] = IF u \in d.many[o] THEN Null ELSE d.one[u]
      BY <1>p, <2>1, Remove_N_1Is
    <2>4. CASE p \in A
      <3>1. q # o
        BY <1>3, <2>4, RelationshipAssumption DEF Partners
      <3> QED  BY <1>3, <2>3, <2>4, <3>1, Sym_1_N
    <2>5. CASE p \in B
      <3>1. /\ Points(g, p, q) <=> d.st[p] = "live" /\ (IF p \in d.many[o] THEN Null ELSE d.one[p]) = q
            /\ Points(d, p, q) <=> d.st[p] = "live" /\ d.one[p] = q
            /\ Points(d, o, p) <=> p \in d.many[o]
            /\ Points(d, p, o) => d.one[p] = o
        BY <1>3, <2>3, <2>5, Sym_1_N
      <3> QED  BY <1>q, <1>s, <1>t, <3>1
    <2> QED  BY <2>4, <2>5 DEF Objs
  <1>4. CASE rel = "N_N"
    <2>1. g = Remove_N_N(d, o)
      BY <1>4 DEF RemoveInverse
    <2> HIDE DEF g
    <2>3. /\ g.st = d.st
          /\ \A u \in Objs : g.many[u] = IF u = o THEN {} ELSE
                                         IF u \in d.many[o] THEN d.many[u] \ {o} ELSE d.many[u]
      BY <1>p, <2>1 DEF Remove_N_N, Data
    <2>4. /\ Points(g, p, q) <=> d.st[p] = "live" /\ q \in g.many[p]
          /\ Points(d, p, q) <=> d.st[p] = "live" /\ q \in d.many[p]
          /\ Points(d, o, p) <=> p \in d.many[o]
      BY <1>4, <2>3, Sym_N_N
    <2>5. g.many[p] = IF p \in d.many[o] THEN d.many[p] \ {o} ELSE d.many[p]
      BY <2>3
    <2> QED  BY <1>s, <2>4, <2>5
  <1> QED  BY <1>1, <1>2, <1>3, <1>4, RelIs DEF Objs

\* IDB_collectionDelete: they do too, if no element of N:N is shared.
LEMMA DeleteCollLinks ==
    ASSUME NEW d, Formed(d), Symmetric(d), rel \in Rels, NEW o \in Objs, d.st[o] = "live", ~OneSide(o),
           rel = "N_N" => \A x \in d.many[o] : d.many[x] = {o}
    PROVE  \A p \in Objs : \A q \in Partners(p) :
              p # o => (Points(DeleteColl(d, o), p, q) <=> Points(d, p, q) /\ q # o)
  <1> DEFINE g == DeleteColl(d, o)
  <1>p. d \in Data /\ o \notin d.many[o] /\ \A u \in Objs : u # Null
    BY ObjsNotNull, PartnersAre DEF Formed, FormedAt
  <1>r. (rel = "1_N" /\ o \in A) \/ rel = "N_N"
    BY RelIs, OneSideIs
  <1> SUFFICES ASSUME NEW p \in Objs, NEW q \in Partners(p), p # o
               PROVE  Points(g, p, q) <=> Points(d, p, q) /\ q # o
    OBVIOUS
  <1>q. q \in Objs /\ p \in Partners(q) /\ q # Null
    BY <1>p, PartnersAre
  <1>s. q = o /\ Points(d, p, q) => Points(d, o, p)
    BY <1>q, SymmetricIs
  <1>t. Points(d, o, p) => Points(d, p, o)
    <2>1. Points(d, o, p) => p \in Partners(o)
      BY DEF Points, Formed, FormedAt
    <2> QED  BY <2>1, SymmetricIs
  <1>1. CASE rel = "1_N" /\ o \in A
    <2>3. /\ g.st = d.st
          /\ \A u \in Objs : /\ g.one[u] = IF u \in d.many[o] THEN Null ELSE d.one[u]
                             /\ g.many[u] = IF u = o THEN {} ELSE d.many[u]
      BY <1>1, <1>p, DeleteCollIs
    <2> HIDE DEF g
    <2>4. CASE p \in A
      <3>1. q # o
        BY <1>1, <2>4, RelationshipAssumption DEF Partners
      <3> QED  BY <1>1, <2>3, <2>4, <3>1, Sym_1_N
    <2>5. CASE p \in B
      <3>1. /\ Points(g, p, q) <=> d.st[p] = "live" /\ (IF p \in d.many[o] THEN Null ELSE d.one[p]) = q
            /\ Points(d, p, q) <=> d.st[p] = "live" /\ d.one[p] = q
            /\ Points(d, o, p) <=> p \in d.many[o]
            /\ Points(d, p, o) => d.one[p] = o
        BY <1>1, <2>3, <2>5, Sym_1_N
      <3> QED  BY <1>q, <1>s, <1>t, <3>1
    <2> QED  BY <2>4, <2>5 DEF Objs
  <1>2. CASE rel = "N_N"
    <2>1. rel # "1_N"
      BY <1>2
    <2>3. g.st = d.st
      BY <1>p, DeleteCollIs
    <2>4. q \in g.many[p] <=>
             /\ q \in d.many[p]
             /\ IF p \in d.many[o] THEN q # o ELSE ~(q \in d.many[o] /\ p \in d.many[q])
      BY <1>p, <2>1, DeleteCollIs
    <2>5. ~(q \in d.many[o] /\ p \in d.many[q])
      BY <1>2
    <2> HIDE DEF g
    <2>6. /\ Points(g, p, q) <=> d.st[p] = "live" /\ q \in g.many[p]
          /\ Points(d, p, q) <=> d.st[p] = "live" /\ q \in d.many[p]
          /\ Points(d, o, p) <=> p \in d.many[o]
      BY <1>2, <2>3, Sym_N_N
    <2> QED  BY <1>s, <2>4, <2>5, <2>6
  <1> QED  BY <1>1, <1>2, <1>r

\* IDB_collectionWrite: an insertion.  In a 1:N relation all the elements of the
\* collection where x was lose their owner.
LEMMA Insert_N_1Links ==
    ASSUME NEW d, Formed(d), Symmetric(d), rel = "1_N", NEW o \in A, NEW x \in B,
           d.st[o] = "live", d.st[x] = "live", x \notin d.many[o]
    PROVE  LET e == Insert_N_1(Into(d, o, x), o, x)
           IN  \A a \in A, b \in B :
                  /\ Points(e, a, b) <=> (a = o /\ b = x) \/ (Points(d, a, b) /\ a # d.one[x])
                  /\ Points(e, b, a) <=> (a = o /\ b = x) \/ (Points(d, b, a) /\ a # d.one[x])
  <1> DEFINE f == Into(d, o, x)
             e == Insert_N_1(f, o, x)
             old == d.one[x]
  <1>p. /\ o \in Objs /\ x \in Objs /\ o # x /\ d \in Data
        /\ \A u \in Objs : u # Null
    BY ObjsNotNull, RelationshipAssumption DEF Objs, Formed
  <1>f. /\ f \in Data
        /\ f.st = d.st /\ f.one = d.one
        /\ \A u \in Objs : f.many[u] = IF u = o THEN d.many[o] \cup {x} ELSE d.many[u]
    BY <1>p DEF Into, Data
  <1>fd. f \in Data
    BY <1>f
  <1> HIDE DEF f
  <1>1. \A a \in A, b \in B :
           d.st[b] = "live" /\ d.one[b] = a <=> d.st[a] = "live" /\ b \in d.many[a]
    BY Sym_1_N
  <1>2. old # o /\ old \in A \cup {Null}
    BY <1>1, <1>p, RelationshipAssumption DEF Formed, FormedAt, Partners
  <1>e. /\ e.st = d.st
        /\ \A u \in Objs :
              /\ e.many[u] = IF u = old THEN {} ELSE f.many[u]
              /\ e.one[u] = IF u = x THEN o ELSE
                            IF old # Null /\ u \in d.many[old] THEN Null ELSE d.one[u]
    <2>1. CASE old = Null
      <3>1. f.one[x] \in {Null, o}
        BY <1>f, <2>1
      <3>2. e.st = f.st /\ e.many = f.many /\ \A u \in Objs : e.one[u] = IF u = x THEN o ELSE f.one[u]
        BY <1>fd, <1>p, <3>1, Insert_N_1Is
      <3> HIDE DEF e
      <3> QED  BY <1>f, <1>p, <2>1, <3>2
    <2>2. CASE old # Null
      <3>1. f.one[x] \notin {Null, o} /\ old \in Objs /\ f.many[old] = d.many[old]
        BY <1>2, <1>f, <2>2 DEF Objs
      <3>2. /\ e.st = f.st
            /\ \A u \in Objs :
                 /\ e.many[u] = IF u = f.one[x] THEN {} ELSE f.many[u]
                 /\ e.one[u] = IF u = x THEN o ELSE
                               IF u \in f.many[f.one[x]] THEN Null ELSE f.one[u]
        BY <1>fd, <1>p, <3>1 DEF Insert_N_1, PutOne, NullIn, Data
      <3> HIDE DEF e
      <3> QED  BY <1>f, <2>2, <3>1, <3>2
    <2> QED  BY <2>1, <2>2
  <1> HIDE DEF e
  <1>3. ASSUME NEW a \in A, NEW b \in B
        PROVE  /\ Points(e, a, b) <=> (a = o /\ b = x) \/ (Points(d, a, b) /\ a # old)
               /\ Points(e, b, a) <=> (a = o /\ b = x) \/ (Points(d, b, a) /\ a # old)
    <2>1. a \in Objs /\ b \in Objs /\ a # Null
      BY <1>p DEF Objs
    <2>2. /\ Points(e, a, b) <=> d.st[a] = "live" /\ b \in e.many[a]
          /\ Points(d, a, b) <=> d.st[a] = "live" /\ b \in d.many[a]
          /\ Points(e, b, a) <=> d.st[b] = "live" /\ e.one[b] = a
          /\ Points(d, b, a) <=> d.st[b] = "live" /\ d.one[b] = a
      BY <1>e, Sym_1_N
    <2>3. e.many[a] = IF a = old THEN {} ELSE IF a = o THEN d.many[o] \cup {x} ELSE d.many[a]
      BY <1>e, <1>f, <2>1
    <2>4. e.one[b] = IF b = x THEN o ELSE IF old # Null /\ b \in d.many[old] THEN Null ELSE d.one[b]
      BY <1>e, <2>1
    <2>5. old # Null => /\ d.st[old] = "live" /\ x \in d.many[old]
                        /\ b \in d.many[old] => d.one[b] = old
                        /\ d.st[b] = "live" /\ d.one[b] = old => b \in d.many[old]
      BY <1>1, <1>2
    <2>6. Points(e, a, b) <=> (a = o /\ b = x) \/ (Points(d, a, b) /\ a # old)
      BY <1>2, <2>2, <2>3
    <2>7. Points(e, b, a) <=> (a = o /\ b = x) \/ (Points(d, b, a) /\ a # old)
      <3>1. CASE b = x
        BY <2>1, <2>2, <2>4, <3>1
      <3>2. CASE b # x
        BY <2>1, <2>2, <2>4, <2>5, <3>2
      <3> QED  BY <3>1, <3>2
    <2> QED  BY <2>6, <2>7
  <1> QED  BY <1>3 DEF e, f

\* An insertion links the two objects; it does nothing else unless the element was in
\* a collection with others, and keeps the links symmetric even then.
LEMMA InsertLinks ==
    ASSUME NEW d, Formed(d), Symmetric(d), rel \in Rels, NEW o \in Objs, NEW x \in Partners(o),
           ~OneSide(o), d.st[o] = "live", d.st[x] = "live", x \notin d.many[o]
    PROVE  LET e == InsertInverse(Into(d, o, x), o, x)
           IN  /\ Symmetric(e)
               /\ (rel = "1_N" /\ d.one[x] # Null => d.many[d.one[x]] = {x}) => Links(d, e, o, x)
  <1> DEFINE e == InsertInverse(Into(d, o, x), o, x)
  <1>p. o \in Partners(x) /\ x \in Objs /\ x # o /\ d \in Data
    BY PartnersAre DEF Formed
  <1>1. CASE rel = "1_N"
    <2>1. o \in A /\ x \in B /\ e = Insert_N_1(Into(d, o, x), o, x)
      BY <1>1, OneSideIs DEF Partners, InsertInverse
    <2>2. ASSUME NEW a \in A, NEW b \in B
          PROVE  /\ Points(e, a, b) <=> (a = o /\ b = x) \/ (Points(d, a, b) /\ a # d.one[x])
                 /\ Points(e, b, a) <=> (a = o /\ b = x) \/ (Points(d, b, a) /\ a # d.one[x])
      BY <1>1, <2>1, Insert_N_1Links
    <2>3. Symmetric(e)
      BY <2>2 DEF Symmetric
    <2>4. ASSUME d.one[x] # Null => d.many[d.one[x]] = {x} PROVE Links(d, e, o, x)
      <3>1. ASSUME NEW a \in A, NEW b \in B
            PROVE  /\ Points(d, a, b) => (a # d.one[x] <=> b # x)
                   /\ Points(d, b, a) => (a # d.one[x] <=> b # x)
        <4>1. Points(d, a, b) <=> Points(d, b, a)
          BY DEF Symmetric
        <4>2. a # Null
          BY RelationshipAssumption
        <4>3. /\ Points(d, a, b) => b \in d.many[a]
              /\ Points(d, b, a) => d.one[b] = a
          BY <1>1, Sym_1_N
        <4> QED  BY <2>4, <4>1, <4>2, <4>3
      <3>2. \A a \in A, b \in B :
              /\ Points(e, a, b) <=> (a = o /\ b = x) \/ (Points(d, a, b) /\ b # x)
              /\ Points(e, b, a) <=> (a = o /\ b = x) \/ (Points(d, b, a) /\ b # x)
        BY <2>2, <3>1
      <3> HIDE DEF e
      <3> QED  BY <1>1, <2>1, <3>2, Links_1_N
    <2> QED  BY <1>1, <2>3, <2>4
  <1>2. CASE rel = "N_N"
    <2> DEFINE f == Into(d, o, x)
    <2>1. e = Into(f, x, o)
      BY <1>2 DEF InsertInverse, Insert_N_N
    <2>2. /\ f \in Data
          /\ f.st = d.st
          /\ \A u \in Objs : f.many[u] = IF u = o THEN d.many[o] \cup {x} ELSE d.many[u]
      BY <1>p DEF Into, Data
    <2>3. f \in Data
      BY <2>2
    <2> HIDE DEF f, e
    <2>4. /\ e.st = f.st
          /\ \A u \in Objs : e.many[u] = IF u = x THEN f.many[x] \cup {o} ELSE f.many[u]
      BY <1>p, <2>1, <2>3 DEF Into, Data
    <2>5. ASSUME NEW p \in Objs, NEW q \in Partners(p)
          PROVE  Points(e, p, q) <=> (p = o /\ q = x) \/ (p = x /\ q = o) \/ Points(d, p, q)
      <3>1. /\ Points(e, p, q) <=> d.st[p] = "live" /\ q \in e.many[p]
            /\ Points(d, p, q) <=> d.st[p] = "live" /\ q \in d.many[p]
        BY <1>2, <2>2, <2>4, Sym_N_N
      <3>2. e.many[p] = IF p = x THEN d.many[x] \cup {o} ELSE
                        IF p = o THEN d.many[o] \cup {x} ELSE d.many[p]
        BY <1>p, <2>2, <2>4
      <3> QED  BY <1>p, <3>1, <3>2
    <2>6. \A u \in Objs : ~OneSide(u)
      BY <1>2, OneSideIs
    <2>7. Links(d, e, o, x)
      BY <2>5, <2>6, PartnersAre DEF Links
    <2> QED  BY <2>7, LinksSymmetric DEF e
  <1> QED  BY <1>1, <1>2, OneSideIs, RelIs

\* A suppression; in an N:N relation x has no other element.
LEMMA SuppressLinks ==
    ASSUME NEW d, Formed(d), Symmetric(d), rel \in Rels, NEW o \in Objs, NEW x \in Partners(o),
           ~OneSide(o), d.st[o] = "live", x \in d.many[o], rel = "N_N" => d.many[x] = {o}
    PROVE  Unlinks(d, SuppressInverse(OutOf(d, o, x), o, x), o, x)
  <1> DEFINE f == OutOf(d, o, x)
             e == SuppressInverse(f, o, x)
  <1>p. o \in Partners(x) /\ x \in Objs /\ x # o /\ d \in Data /\ o # Null
    BY PartnersAre DEF Formed
  <1>f. /\ f \in Data
        /\ f.st = d.st /\ f.one = d.one /\ f.has = d.has
        /\ \A u \in Objs : f.many[u] = IF u = o THEN d.many[o] \ {x} ELSE d.many[u]
    BY <1>p DEF OutOf, Data
  <1>fd. f \in Data
    BY <1>f
  <1> HIDE DEF f
  <1>1. CASE rel = "1_N"
    <2>1. o \in A /\ x \in B /\ e = Suppress_N_1(f, o, x)
      BY <1>1, OneSideIs DEF Partners, SuppressInverse
    <2> HIDE DEF e
    <2>2. /\ e.st = f.st /\ e.many = f.many
          /\ \A u \in Objs : e.one[u] = IF u = x THEN Null ELSE f.one[u]
      BY <1>fd, <1>p, <2>1 DEF Suppress_N_1, NullIn, Data
    <2>3. d.st[x] = "live" /\ d.one[x] = o
      BY <1>1, <2>1, Sym_1_N
    <2>4. ASSUME NEW a \in A, NEW b \in B
          PROVE  /\ Points(e, a, b) <=> Points(d, a, b) /\ ~(a = o /\ b = x)
                 /\ Points(e, b, a) <=> Points(d, b, a) /\ ~(a = o /\ b = x)
      <3>1. a \in Objs /\ b \in Objs /\ a # Null
        BY RelationshipAssumption DEF Objs
      <3>2. /\ Points(e, a, b) <=> d.st[a] = "live" /\ b \in e.many[a]
            /\ Points(d, a, b) <=> d.st[a] = "live" /\ b \in d.many[a]
            /\ Points(e, b, a) <=> d.st[b] = "live" /\ e.one[b] = a
            /\ Points(d, b, a) <=> d.st[b] = "live" /\ d.one[b] = a
        BY <1>1, <1>f, <2>2, Sym_1_N
      <3>3. /\ e.many[a] = IF a = o THEN d.many[o] \ {x} ELSE d.many[a]
            /\ e.one[b] = IF b = x THEN Null ELSE d.one[b]
        BY <1>f, <2>2, <3>1
      <3> QED  BY <2>3, <3>1, <3>2, <3>3
    <2>5. ASSUME NEW p \in Objs, NEW q \in Partners(p)
          PROVE  Points(e, p, q) <=> Points(d, p, q) /\ ~(p = o /\ q = x) /\ ~(p = x /\ q = o)
      <3>1. CASE p \in A
        <4>1. q \in B /\ p # x
          BY <2>1, <3>1, RelationshipAssumption DEF Partners
        <4> QED  BY <2>4, <3>1, <4>1
      <3>2. CASE p \in B
        <4>1. q \in A /\ p # o
          BY <2>1, <3>2, RelationshipAssumption DEF Partners
        <4> QED  BY <2>4, <3>2, <4>1
      <3> QED  BY <3>1, <3>2 DEF Objs
    <2> QED  BY <2>5 DEF Unlinks, e, f
  <1>2. CASE rel = "N_N"
    <2>1. e = Suppress_N_N(f, o, x)
      BY <1>2 DEF SuppressInverse
    <2>2. d.many[x] = {o} /\ f.many[x] = {o} /\ d.has[x]
      <3>1. d.many[x] # {} => d.has[x]
        BY <1>p DEF Formed, FormedAt
      <3> QED  BY <1>2, <1>f, <1>p, <3>1
    <2> HIDE DEF e
    <2>3. /\ e.st = f.st
          /\ \A u \in Objs : e.many[u] = IF u = x THEN f.many[u] \ {o} ELSE f.many[u]
      <3>1. f.has[x] /\ f.many[x] \ {o} = {}
        BY <1>f, <2>2
      <3>2. e.st = f.st
        BY <1>fd, <1>p, <2>1 DEF Suppress_N_N, Data
      <3>3. \A u \in Objs : e.many[u] = IF ~f.has[x] THEN f.many[u] ELSE
                                        IF u = x THEN f.many[u] \ {o} ELSE
                                        IF u \in f.many[x] \ {o} THEN f.many[u] \ {x} ELSE f.many[u]
        BY <1>fd, <1>p, <2>1 DEF Suppress_N_N, Data
      <3> QED  BY <3>1, <3>2, <3>3
    <2>4. ASSUME NEW p \in Objs, NEW q \in Partners(p)
          PROVE  Points(e, p, q) <=> Points(d, p, q) /\ ~(p = o /\ q = x) /\ ~(p = x /\ q = o)
      <3>1. /\ Points(e, p, q) <=> d.st[p] = "live" /\ q \in e.many[p]
            /\ Points(d, p, q) <=> d.st[p] = "live" /\ q \in d.many[p]
        BY <1>2, <1>f, <2>3, Sym_N_N
      <3>2. e.many[p] = IF p = x THEN d.many[x] \ {o} ELSE
                        IF p = o THEN d.many[o] \ {x} ELSE d.many[p]
        BY <1>f, <1>p, <2>3
      <3> QED  BY <1>p, <3>1, <3>2
    <2> QED  BY <2>4 DEF Unlinks, e, f
  <1> QED  BY <1>1, <1>2, OneSideIs, RelIs

-----------------------------------------------------------------------------
(* The two ends of a relationship agree.                                    *)

\* An application that is orderly: it stores no reference to a removed object,
\* has no notnull attribute refuse an object that refers to another, shares no
\* element of an N:N collection that it suppresses or removes, does not commit
\* after a collection stored by itself has failed; and no error is ignored.
Orderly == /\ "ignored" \notin Faults
           /\ {"gone", "refused", "shared", "collection"} \cap Careless = {}

\* What a call does to the links: it breaks the transaction or changes one object.
Effect(o) ==
    incoh' \/ (~incoh' /\ (\/ SameLinks(db, db') \/ Forgets(db, db', o)
                           \/ \E v \in Partners(o) : Unlinks(db, db', o, v) \/ Links(db, db', o, v)))

\* A call that fails breaks the transaction.
LEMMA FailEffect ==
    ASSUME NEW o, NEW e, WriteFails(o, e) \/ TriggerFails(o, e)
    PROVE  incoh'
  BY DEF WriteFails, TriggerFails, Broken

\* The effect of a store.
LEMMA StoreEffect ==
    ASSUME TypeInv, Symmetric(db), Orderly, NEW o \in Objs, Store(o)
    PROVE  Effect(o)
  <1> DEFINE v == held[o].val
             dead == OneSide(o) /\ v # Null /\ db.st[v] \in {"none", "shrunk"}
  <1>0. /\ v \in AttrType(o) /\ db.st[o] = "live" /\ Formed(db) /\ rel \in Rels /\ ~incoh
        /\ OneSide(o) /\ v # Null => v \in Partners(o) /\ v \in Objs /\ db.st[v] # "removed"
    <2>1. /\ v \in AttrType(o) /\ db.st[o] = "live" /\ Formed(db) /\ rel \in Rels
      BY DEF Store, TypeInv, HeldOK, HeldAt
    <2>2. ~incoh /\ (OneSide(o) /\ v # Null => db.st[v] # "removed")
      BY DEF Store, Usable, Orderly
    <2> QED  BY <2>1, <2>2, PartnersAre DEF AttrType
  <1>1. CASE ~dead /\ db' = Stored(o) /\ UNCHANGED incoh
    <2>1. OneSide(o) /\ v # Null => db.st[v] = "live"
      <3>1. OneSide(o) /\ v # Null => db.st[v] \in {"none", "live", "removed", "shrunk"}
        BY <1>0 DEF Formed, Data
      <3> QED  BY <1>0, <1>1, <3>1
    <2>2. /\ OneSide(o) /\ v # Null => Links(db, Stored(o), o, v)
          /\ OneSide(o) /\ v = Null => Forgets(db, Stored(o), o)
          /\ ~OneSide(o) /\ v => SameLinks(db, Stored(o))
          /\ ~OneSide(o) /\ ~v => Forgets(db, Stored(o), o)
      BY <1>0, <2>1, StoreLinks DEF Stored
    <2> QED  BY <1>0, <1>1, <2>2 DEF Effect
  <1>2. CASE Broken(o)
    BY <1>2 DEF Broken, Effect
  <1>3. CASE WriteFails(o, Stored(o)) \/ TriggerFails(o, Stored(o))
    BY <1>3, FailEffect DEF Effect
  <1> QED  BY <1>1, <1>2, <1>3 DEF Store, Stored

\* The effect of a creation; one refused by an index changes no link.
LEMMA CreateEffect ==
    ASSUME TypeInv, Symmetric(db), Orderly, NEW o \in Objs, NEW v \in Partners(o) \cup {Null},
           Create(o, v)
    PROVE  Effect(o)
  <1> DEFINE d1 == NewObject(db, o, v)
             d2 == CreateInverse(d1, o, v)
  <1>0. /\ ~incoh /\ db.st[o] = "none" /\ Formed(db) /\ rel \in Rels
        /\ v # Null => OneSide(o) /\ db.st[v] = "live"
    BY DEF Create, Usable, TypeInv
  <1>1. CASE db' = d2 /\ UNCHANGED incoh
    <2>1. (v # Null => Links(db, d2, o, v)) /\ (v = Null => SameLinks(db, d2))
      BY <1>0, CreateLinks
    <2> QED  BY <1>0, <1>1, <2>1 DEF Effect
  <1>2. CASE WriteFails(o, d2) \/ TriggerFails(o, d2)
    BY <1>2, FailEffect DEF Effect
  <1>3. CASE /\ db' = Without(RemoveInverse(d1, o, v), o, "none") /\ UNCHANGED incoh
             /\ rel = "1_1" /\ v # Null => "refused" \in Careless
    <2>1. v # Null => rel = "1_N" /\ OneSide(o) /\ db.st[v] = "live"
      BY <1>0, <1>3, OneSideIs, RelIs DEF Orderly
    <2>2. SameLinks(db, db')
      BY <1>0, <1>3, <2>1, RefuseLinks
    <2> QED  BY <1>0, <1>3, <2>2 DEF Effect
  <1> QED  BY <1>1, <1>2, <1>3 DEF Create, NewObject

\* The effect of a removal.
LEMMA RemoveEffect ==
    ASSUME TypeInv, Symmetric(db), Orderly, NEW o \in Objs, Remove(o)
    PROVE  Effect(o)
  <1> DEFINE d2 == DeleteInstance(Unlinked(o), o)
  <1>0. ~incoh /\ db.st[o] = "live" /\ Formed(db) /\ rel \in Rels
    BY DEF Remove, Usable, TypeInv
  <1>1. CASE db' = d2 /\ UNCHANGED incoh
    <2>1. Formed(Unlinked(o)) /\ Unlinked(o).st = db.st
      BY UnlinkedFormed
    <2>2. \A p \in Objs : \A q \in Partners(p) :
             p # o => (Points(Unlinked(o), p, q) <=> Points(db, p, q) /\ q # o)
      <3>1. CASE Known(o)
        <4>1. ~OneSide(o)
          BY <3>1 DEF Known
        <4>2. rel = "N_N" => \A x \in db.many[o] : db.many[x] = {o}
          BY <3>1 DEF Remove, Known, Orderly
        <4>3. Unlinked(o) = DeleteColl(db, o)
          BY <3>1 DEF Unlinked
        <4> QED  BY <1>0, <4>1, <4>2, <4>3, DeleteCollLinks
      <3>2. CASE ~Known(o)
        <4>1. Unlinked(o) = RemoveInverse(db, o, Attr(db, o))
          BY <3>2 DEF Unlinked
        <4> QED  BY <1>0, <4>1, RemoveInverseLinks
      <3> QED  BY <3>1, <3>2
    <2>3. Forgets(db, db', o)
      BY <1>1, <2>1, <2>2, GoneForgets
    <2> QED  BY <1>0, <1>1, <2>3 DEF Effect
  <1>2. CASE WriteFails(o, d2) \/ TriggerFails(o, d2)
    BY <1>2, FailEffect DEF Effect
  <1> QED  BY <1>1, <1>2 DEF Remove, Unlinked, Known, Orderly

\* The effect of an insertion; a move breaks links of others, on both ends.
LEMMA CollInsertEffect ==
    ASSUME TypeInv, Symmetric(db), Orderly, NEW o \in Objs, NEW x \in Partners(o), CollInsert(o, x)
    PROVE  /\ incoh' \/ (~incoh' /\ Symmetric(db'))
           /\ "move" \notin Careless => Effect(o)
  <1> DEFINE e == InsertInverse(Into(db, o, x), o, x)
  <1>0. /\ ~incoh /\ ~OneSide(o) /\ db.st[o] = "live" /\ db.st[x] = "live" /\ x \notin db.many[o]
        /\ Formed(db) /\ rel \in Rels
    BY DEF CollInsert, Usable, TypeInv, HeldOK, HeldAt
  <1>1. CASE db' = e /\ UNCHANGED incoh
    <2>1. /\ Symmetric(e)
          /\ (rel = "1_N" /\ db.one[x] # Null => db.many[db.one[x]] = {x}) => Links(db, e, o, x)
      BY <1>0, InsertLinks
    <2>2. rel = "1_N" /\ db.one[x] # Null /\ db.many[db.one[x]] # {x} => "move" \in Careless
      BY DEF CollInsert
    <2> QED  BY <1>0, <1>1, <2>1, <2>2 DEF Effect
  <1>2. CASE WriteFails(o, e)
    BY <1>2, FailEffect DEF Effect
  <1> QED  BY <1>1, <1>2 DEF CollInsert, CollWrite, Orderly

\* The effect of a suppression.
LEMMA CollSuppressEffect ==
    ASSUME TypeInv, Symmetric(db), Orderly, NEW o \in Objs, NEW x \in Partners(o), CollSuppress(o, x)
    PROVE  Effect(o)
  <1> DEFINE e == SuppressInverse(OutOf(db, o, x), o, x)
  <1>0. /\ ~incoh /\ ~OneSide(o) /\ db.st[o] = "live" /\ x \in db.many[o]
        /\ Formed(db) /\ rel \in Rels
    BY DEF CollSuppress, Usable, TypeInv, HeldOK, HeldAt
  <1>1. CASE db' = e /\ UNCHANGED incoh
    <2>1. rel = "N_N" => db.many[x] = {o}
      BY DEF CollSuppress, Orderly
    <2>2. Unlinks(db, e, o, x)
      BY <1>0, <2>1, SuppressLinks
    <2> QED  BY <1>0, <1>1, <2>2 DEF Effect
  <1>2. CASE WriteFails(o, e)
    BY <1>2, FailEffect DEF Effect
  <1> QED  BY <1>1, <1>2 DEF CollSuppress, CollWrite, Orderly

\* The end of a commit, complete or not, touches no live object.
LEMMA ShrinkLinks ==
    ASSUME TypeInv, NEW S \in SUBSET deleted
    PROVE  SameLinks(db, Shrink(db, S))
  <1>1. \A u \in S : db.st[u] = "removed"
    BY DEF TypeInv
  <1>2. Formed(db)
    BY DEF TypeInv
  <1> DEFINE e == Shrink(db, S)
  <1>3. \A u \in Objs : /\ e.st[u] = IF u \in S THEN "shrunk" ELSE db.st[u]
                        /\ u \notin S => e.one[u] = db.one[u] /\ e.many[u] = db.many[u]
    BY <1>2, ShrinkIs
  <1> HIDE DEF e
  <1>4. SameLinks(db, e)
    BY <1>1, <1>3, SameLive
  <1> QED  BY <1>4 DEF e

\* Symmetric and the links depend on the relation, which no step changes.
LEMMA RelConstant ==
    ASSUME [Next]_vars
    PROVE  rel' = rel
  BY DEF Next, vars, Begin, Commit, Abort, Load, Edit, Store, Remove, Create, CollInsert, CollSuppress, Idle

\* A call that changes one object keeps the links symmetric.
LEMMA EffectSymmetric ==
    ASSUME Symmetric(db), NEW o \in Objs, Effect(o)
    PROVE  incoh' \/ (~incoh' /\ Symmetric(db'))
  BY LinksSymmetric DEF Effect

\* Every step keeps the referential integrity.
LEMMA IntegrityStep ==
    ASSUME Orderly, TypeInv, RelIntegrity, [Next]_vars
    PROVE  RelIntegrity'
  <1>r. rel' = rel
    BY RelConstant
  <1> SUFFICES Symmetric(saved') /\ (~incoh' => Symmetric(db'))
    BY <1>r DEF RelIntegrity, Symmetric, Points, OneSide
  <1>0. Symmetric(saved) /\ (~incoh => Symmetric(db))
    BY DEF RelIntegrity
  <1>1. ASSUME NEW o \in Objs, Load(o) \/ Edit(o)
        PROVE  Symmetric(saved') /\ (~incoh' => Symmetric(db'))
    BY <1>0, <1>1 DEF Load, Edit, Idle
  <1>2. ASSUME NEW o \in Objs, Store(o) \/ Remove(o)
        PROVE  Symmetric(saved') /\ (~incoh' => Symmetric(db'))
    <2>1. saved' = saved /\ Symmetric(db)
      BY <1>0, <1>2 DEF Store, Remove, Usable, Idle
    <2> QED  BY <1>0, <1>2, <2>1, StoreEffect, RemoveEffect, EffectSymmetric
  <1>3. ASSUME NEW o \in Objs, NEW v \in Partners(o) \cup {Null}, Create(o, v)
        PROVE  Symmetric(saved') /\ (~incoh' => Symmetric(db'))
    <2>1. saved' = saved /\ Symmetric(db)
      BY <1>0, <1>3 DEF Create, Usable, Idle
    <2> QED  BY <1>0, <1>3, <2>1, CreateEffect, EffectSymmetric
  <1>4. ASSUME NEW o \in Objs, NEW x \in Partners(o), CollInsert(o, x) \/ CollSuppress(o, x)
        PROVE  Symmetric(saved') /\ (~incoh' => Symmetric(db'))
    <2>1. saved' = saved /\ Symmetric(db)
      BY <1>0, <1>4 DEF CollInsert, CollSuppress, Usable, Idle
    <2> QED  BY <1>0, <1>4, <2>1, CollInsertEffect, CollSuppressEffect, EffectSymmetric
  <1>5. CASE Commit
    <2>1. ~incoh /\ Symmetric(db)
      BY <1>0, <1>5 DEF Commit, Usable
    <2>2. \A S \in SUBSET deleted : Symmetric(Shrink(db, S))
      <3> TAKE S \in SUBSET deleted
      <3>1. SameLinks(db, Shrink(db, S))
        BY ShrinkLinks
      <3>2. \A p \in Objs : \A q \in Partners(p) : q \in Objs /\ p \in Partners(q)
        BY PartnersAre
      <3> QED  BY <2>1, <3>1, <3>2, SymmetricIs DEF SameLinks
    <2> QED  BY <1>0, <1>5, <2>2 DEF Commit
  <1>6. CASE Begin \/ Abort \/ UNCHANGED vars
    BY <1>0, <1>6 DEF Begin, Abort, vars
  <1> QED  BY <1>1, <1>2, <1>3, <1>4, <1>5, <1>6 DEF Next

\* An empty database has no links.
LEMMA InitIntegrity == Init => RelIntegrity
  <1> SUFFICES ASSUME Init PROVE RelIntegrity
    OBVIOUS
  <1>1. \A p \in Objs : NoObject.st[p] # "live"
    BY DEF NoObject
  <1>2. Symmetric(NoObject)
    BY <1>1 DEF Symmetric, Points, Objs
  <1> QED  BY <1>2 DEF Init, RelIntegrity

\* Referential integrity, for any number of objects: if the application is
\* orderly, the two ends of every relationship agree in what is committed and in
\* what a transaction that has not failed sees, whichever call fails and
\* wherever a storage write, a trigger, a constraint or a commit stops it.
THEOREM Integrity ==
    ASSUME Orderly
    PROVE  Spec => []RelIntegrity
  <1>1. Init => TypeInv /\ RelIntegrity
    BY InitType, InitIntegrity
  <1>2. TypeInv /\ RelIntegrity /\ [Next]_vars => (TypeInv /\ RelIntegrity)'
    BY NextType, IntegrityStep
  <1> QED  BY <1>1, <1>2, PTL DEF Spec

=============================================================================
