----------------------------- MODULE Collection -----------------------------
(***************************************************************************)
(* One collection of references: the client's Collection object with its   *)
(* cache of pending changes, and the collection as the server stores it.    *)
(*                                                                         *)
(* insert, suppress, insertAt, suppressAt and empty only change the cache   *)
(* and v_items_cnt; realize() sends the cache to the server, which applies  *)
(* it item by item to the collection's indexes and counts the changes.      *)
(*                                                                         *)
(* `ref' is what the client's successful calls mean, whatever the code      *)
(* keeps: the contents every answer is compared with.  `used' records the   *)
(* patterns of calls met so far, so that a property can say for which       *)
(* clients it holds.                                                        *)
(***************************************************************************)
EXTENDS ValueCache, FiniteSetsExt, TLC

CONSTANTS
    Items,      \* the objects that may be put in the collection
    Kinds,      \* which collections: a subset of {"set", "bag", "array"}
    Inds,       \* the indexes used in an array: 0 .. n (n >= 1)
    Cards,      \* the cardinality constraints a collection may have
    LittleEndian,   \* whether the client's host swaps bytes to decode an oid
    MaxIds,     \* bound: items created in one cache
    MaxElems,   \* bound: elements, in the client's count and in the store
    MaxUsed     \* bound: patterns of calls in one behaviour

ASSUME CollAssumption ==
    /\ IsFiniteSet(Items)
    /\ Kinds \subseteq {"set", "bag", "array"}
    /\ Inds \subseteq Nat /\ 1 \in Inds
    /\ Cards \subseteq [set : BOOLEAN, bottom : Int, bottomExcl : BOOLEAN,
                        top : Int, topExcl : BOOLEAN]
    /\ LittleEndian \in BOOLEAN
    /\ MaxIds \in Nat /\ MaxElems \in Nat /\ MaxUsed \in Nat

VARIABLES
    kind,    \* the class of the collection: CollSet, CollBag or CollArray
    card,    \* its cardinality constraint: card_bottom, card_top, and their _excl
    coll,    \* the client's Collection object
    read,    \* read_cache.oid_arr and read_cache_state_oid
    oids,    \* the items that are stored and have an oid
    srv,     \* the stored collection: its two indexes and its items count
    proc,    \* the client process: "running", or "aborted" by an assertion
    rarr,    \* CollArray::read_arr_cache: the objects read by index
    ref,     \* history: the contents according to the client's calls
    saved,   \* history: ref at the last successful realize
    used     \* history: the patterns of calls met so far

vars == <<kind, card, coll, read, rarr, oids, srv, proc, ref, saved, used>>

\* An element is an item at a slot; every element of a set or bag is at 1.
Elements == Items \X Inds
Key == {"oid", "object"} \X Items      \* Value(Oid) or Value(Object *)
NoElements == [e \in Elements |-> 0]
Total(f) == MapThenSumSet(LAMBDA e : f[e], Elements)

\* The constructor: nothing is pending and the read cache is coherent, but has
\* no array.
NewColl == [cache |-> NoCache, cnt |-> 0, top |-> 0, oid |-> FALSE, modify |-> FALSE]
NewRead == [has |-> FALSE, coherent |-> TRUE, arr |-> [x \in Items |-> 0]]

Init ==
    /\ kind \in Kinds /\ card \in Cards
    /\ coll = NewColl
    /\ read = NewRead
    /\ oids \in SUBSET Items
    /\ srv = [idx1 |-> NoElements, idx2 |-> {}, cnt |-> 0, top |-> 0]
    /\ proc = "running"
    /\ rarr = {}
    /\ ref = NoElements /\ saved = NoElements
    /\ used = {}

Unordered == kind \in {"set", "bag"}
K(way, x) == <<way, x>>
OtherWay(way) == IF way = "oid" THEN "object" ELSE "oid"

\* A client names a stored object by its oid or by a pointer, an object that is
\* not stored by a pointer only.
CanName(way, x) == way = "oid" => x \in oids

\* collectionGetByOid: idx1->searchAny.
OnServer(x) == coll.oid /\ \E i \in Inds : srv.idx1[<<x, i>>] > 0

Unvalid(r) == [r EXCEPT !.coherent = FALSE]
EmptyRead == [has |-> FALSE, coherent |-> FALSE, arr |-> [x \in Items |-> 0]]

\* The effect of a call on the client's object: a new cache and a new count.
\* Every change of the cache invalidates the read cache.
Change(c, n) ==
    /\ coll' = [coll EXCEPT !.cache = c, !.cnt = n, !.modify = TRUE]
    /\ read' = Unvalid(read)

Touch == coll' = [coll EXCEPT !.modify = TRUE] /\ UNCHANGED read

Note(pattern, cond) == used' = IF cond THEN used \cup {pattern} ELSE used

Alias(way, x) == ByValue(coll.cache, K(OtherWay(way), x)) # {}

-----------------------------------------------------------------------------
(* isIn *)

Live(S) == \E it \in S : it.st # "removed"

\* Collection::isIn_p(const Oid &): a cached item decides.
IsInOid(x) ==
    LET c == ByValue(coll.cache, K("oid", x))
    IN  IF c # {} THEN Live(c) ELSE OnServer(x)

\* Collection::isIn_p(const Object *): a removed cached item does not decide,
\* the server is asked.
IsInObject(x) ==
    \/ Live(ByValue(coll.cache, K("object", x)))
    \/ x \in oids /\ Live(ByValue(coll.cache, K("oid", x)))
    \/ x \in oids /\ OnServer(x)

IsIn(way, x) == IF way = "oid" THEN IsInOid(x) ELSE IsInObject(x)

-----------------------------------------------------------------------------
(* insert, for a set or a bag *)

Room == coll.cache.next < MaxIds

\* What a successful insert means for the client.
RefInsert(x, noDup) ==
    ref' = IF kind = "set" \/ (noDup /\ ref[<<x, 1>>] > 0)
           THEN [ref EXCEPT ![<<x, 1>>] = IF @ = 0 THEN 1 ELSE @]
           ELSE [ref EXCEPT ![<<x, 1>>] = @ + 1]

AddItem(way, x, noDup) ==
    /\ Room
    /\ Change(InsertNew(coll.cache, K(way, x), "added"), coll.cnt + 1)
    /\ RefInsert(x, noDup)

\* The item is already there: success with noDup, else an error.
Already(x, noDup) ==
    /\ Touch
    /\ IF noDup THEN RefInsert(x, noDup) ELSE UNCHANGED ref

\* CollSet::insert_p: a cached item is revived, or is a duplicate.
Revive(it, x, noDup) ==
    IF it.st # "removed" THEN Already(x, noDup)
    ELSE /\ Change(SetState(coll.cache, it, "added"), coll.cnt + 1)
         /\ RefInsert(x, noDup)

SetInsert(way, x, noDup) ==
    LET mine   == ByValue(coll.cache, K(way, x))
        others == IF way = "object" /\ x \in oids
                  THEN ByValue(coll.cache, K("oid", x)) ELSE {}
    IN  IF mine # {} THEN \E it \in mine : Revive(it, x, noDup)
        ELSE IF others # {} \/ (x \in oids /\ OnServer(x)) THEN Already(x, noDup)
        ELSE AddItem(way, x, noDup)

\* CollBag::insert_p: only noDup looks at the contents.
BagInsert(way, x, noDup) ==
    IF noDup /\ IsIn(way, x) THEN Already(x, noDup) ELSE AddItem(way, x, noDup)

Pending(x) == {it \in coll.cache.ids : it.key[2] = x}

Insert(way, x, noDup) ==
    /\ proc = "running" /\ Unordered /\ CanName(way, x)
    /\ IF kind = "set" THEN SetInsert(way, x, noDup) ELSE BagInsert(way, x, noDup)
    /\ used' = used \cup {p \in {"reinsert", "twice", "alias"} :
                  CASE p = "reinsert" -> \E it \in Pending(x) : it.st = "removed"
                    [] p = "twice"    -> kind = "bag" /\ ref[<<x, 1>>] > 0
                    [] p = "alias"    -> Alias(way, x)}
    /\ UNCHANGED <<kind, card, rarr, oids, srv, proc, saved>>

-----------------------------------------------------------------------------
(* suppress, for a set or a bag *)

RefSuppress(x) == ref' = [ref EXCEPT ![<<x, 1>>] = IF @ = 0 THEN 0 ELSE @ - 1]

\* cache->suppressOid(item), with its assertions.
Drop(it, n) ==
    IF SuppressAsserts(coll.cache, it)
    THEN Change(Suppress(coll.cache, it), n) /\ UNCHANGED proc
    ELSE proc' = "aborted" /\ UNCHANGED <<coll, read>>

\* Nothing to suppress: success with checkFirst, else an error.
NotThere(x, checkFirst) ==
    /\ Touch /\ UNCHANGED proc
    /\ IF checkFirst THEN RefSuppress(x) ELSE UNCHANGED ref

\* Mutant: v_items_cnt is not decremented for an item of the cache.
SuppressCachedKeepsCount(it, x, dropAdded, checkFirst) ==
    IF it.st = "removed" THEN NotThere(x, checkFirst)
    ELSE /\ RefSuppress(x)
         /\ IF it.st = "added" /\ dropAdded THEN Drop(it, coll.cnt)
            ELSE Change(SetState(coll.cache, it, "removed"), coll.cnt) /\ UNCHANGED proc

\* An item of the cache is suppressed: an added one is dropped, unless it was
\* found by the oid of an object.
SuppressCached(it, x, dropAdded, checkFirst) ==
    IF it.st = "removed" THEN NotThere(x, checkFirst)
    ELSE /\ RefSuppress(x)
         /\ IF it.st = "added" /\ dropAdded THEN Drop(it, coll.cnt - 1)
            ELSE Change(SetState(coll.cache, it, "removed"), coll.cnt - 1) /\ UNCHANGED proc

\* Collection::suppress_p(const Oid &) and suppress_p(const Object *).
Suppress_p(way, x, checkFirst) ==
    LET mine   == ByValue(coll.cache, K(way, x))
        others == IF way = "object" THEN ByValue(coll.cache, K("oid", x)) ELSE {}
    IN  CASE mine # {} -> \E it \in mine : SuppressCached(it, x, TRUE, checkFirst)
          [] mine = {} /\ x \notin oids -> Touch /\ UNCHANGED <<proc, ref>>
          [] mine = {} /\ x \in oids /\ others # {} ->
               \E it \in others : SuppressCached(it, x, FALSE, checkFirst)
          [] mine = {} /\ x \in oids /\ others = {} ->
               IF ~coll.oid THEN Touch /\ UNCHANGED <<proc, ref>>
               ELSE IF ~OnServer(x) THEN NotThere(x, checkFirst)
               ELSE /\ Room
                    /\ Change(InsertNew(coll.cache, K(way, x), "removed"), coll.cnt - 1)
                    /\ RefSuppress(x) /\ UNCHANGED proc

SuppressItem(way, x, checkFirst) ==
    /\ proc = "running" /\ Unordered /\ CanName(way, x)
    /\ Suppress_p(way, x, checkFirst)
    /\ Note("alias", Alias(way, x))
    /\ UNCHANGED <<kind, card, rarr, oids, srv, saved>>

-----------------------------------------------------------------------------
(* Arrays *)

At(f, i) == {x \in Items : f[<<x, i>>] > 0}
RefPut(i, S) ==
    ref' = [e \in Elements |-> IF e[2] = i THEN IF e[1] \in S THEN 1 ELSE 0 ELSE ref[e]]

\* Mutant: top is not raised by an item put at top.
HigherStrict(i) == IF i > coll.top THEN i + 1 ELSE coll.top

\* CollArray::insertAt_p, its end.
Higher(i) == IF i >= coll.top THEN i + 1 ELSE coll.top

\* CollArray::insertAt_p: an item cached at that index is suppressed first, and
\* v_items_cnt counts the new one only if there was none in the cache.
InsertAt(i, way, x) ==
    /\ proc = "running" /\ kind = "array" /\ CanName(way, x)
    /\ LET old == ById(coll.cache, i)
           new(c) == InsertAs(c, K(way, x), i, "added")
       IN  IF \E it \in old : ~SuppressAsserts(coll.cache, it)
           THEN proc' = "aborted" /\ UNCHANGED <<coll, read, ref>>
           ELSE /\ \/ /\ old = {}
                      /\ coll' = [coll EXCEPT !.cache = new(@), !.cnt = @ + 1,
                                              !.top = Higher(i), !.modify = TRUE]
                   \/ \E it \in old :
                        coll' = [coll EXCEPT !.cache = new(Suppress(@, it)),
                                             !.top = Higher(i), !.modify = TRUE]
                /\ read' = Unvalid(read)
                /\ RefPut(i, {x})
                /\ UNCHANGED proc
    /\ used' = used \cup {p \in {"replace", "stale"} :
                  CASE p = "replace" -> At(ref, i) # {} \/ ById(coll.cache, i) # {}
                    [] p = "stale"   -> \E r \in rarr : r[1] = i}
    /\ UNCHANGED <<kind, card, rarr, oids, srv, saved>>

\* CollArray::append_p: with noDup, an item that is in the array is left alone.
Append(way, x, noDup) ==
    /\ coll.top \in Inds /\ ~(noDup /\ IsIn(way, x))
    /\ InsertAt(coll.top, way, x)

\* CollArray::suppressAt: an added item is suppressed twice, the second time
\* after it has been freed: its value is no longer in val_map, assert(0).
UnsetAt(i) ==
    LET old == ById(coll.cache, i)
        stored == {p \in srv.idx2 : coll.oid /\ p[1] = i}
    IN  IF old # {}
        THEN \E it \in old :
               IF it.st = "removed" THEN Touch /\ UNCHANGED <<proc, ref>>
               ELSE proc' = "aborted" /\ UNCHANGED <<coll, read, ref>>
        ELSE IF stored = {} THEN Touch /\ UNCHANGED <<proc, ref>>
        ELSE \E p \in stored :
               /\ Change(InsertAs(coll.cache, K("oid", p[2]), i, "removed"), coll.cnt - 1)
               /\ RefPut(i, {}) /\ UNCHANGED proc

SuppressAt(i) ==
    /\ proc = "running" /\ kind = "array"
    /\ UnsetAt(i)
    /\ used' = used \cup {p \in {"unset", "stale"} :
                  CASE p = "unset" -> \E it \in ById(coll.cache, i) : it.st = "added"
                    [] p = "stale" -> \E r \in rarr : r[1] = i}
    /\ UNCHANGED <<kind, card, rarr, oids, srv, saved>>

\* isIn gives the index of an item only when the server has found it.
Located(way, x) ==
    /\ x \in oids /\ OnServer(x)
    /\ IF way = "oid" THEN ByValue(coll.cache, K("oid", x)) = {}
       ELSE \A w \in {"oid", "object"} : ~Live(ByValue(coll.cache, K(w, x)))

\* CollArray::suppress_p.  When the index is not known `where' is not
\* initialized, and any index may be suppressed.
ArraySuppress(way, x, checkFirst) ==
    /\ proc = "running" /\ kind = "array" /\ CanName(way, x)
    /\ IsIn(way, x) \/ ~checkFirst
    /\ \E i \in Inds :
         /\ Located(way, x) => srv.idx1[<<x, i>>] > 0
         /\ UnsetAt(i)
    /\ used' = used \cup {p \in {"wild", "stale"} :
                  CASE p = "wild"  -> ~Located(way, x)
                    [] p = "stale" -> rarr # {}}
    /\ UNCHANGED <<kind, card, rarr, oids, srv, saved>>

\* Two answers besides the items: a null oid or pointer, and the oid that the
\* bytes of another one make when they are swapped, or what loading it gives.
Null == "null"
Garbled == "garbled"

\* Collection::decode of an oid that is in host order.
Decoded(x) == IF LittleEndian THEN Garbled ELSE x

\* collectionGetByInd.
StoredAt(i) == {x \in Items : coll.oid /\ <<i, x>> \in srv.idx2}
OrNull(S) == IF S = {} THEN {Null} ELSE S

\* The oid of an item of the cache: null if it is a removal or an object that
\* is not stored, else in host order, and decoded all the same.
PendingOid(it) ==
    IF it.st = "added" /\ it.key[2] \in oids THEN Decoded(it.key[2]) ELSE Null

\* CollArray::retrieveAt(id, Oid &), the set of its possible answers: the
\* cache, then the stored index.
RetrieveOid(i) ==
    IF i >= coll.top THEN {Null}
    ELSE IF ById(coll.cache, i) # {} THEN {PendingOid(it) : it \in ById(coll.cache, i)}
    ELSE OrNull(StoredAt(i))

\* The object of an item of the cache: an object known by its oid is loaded by the
\* decoded oid, and for a removal the caller's pointer is left unassigned.
PendingObject(it) ==
    IF it.st = "removed" THEN Items \cup {Null, Garbled}
    ELSE IF it.key[1] = "object" THEN {it.key[2]} ELSE {Decoded(it.key[2])}

\* CollArray::retrieveAt(id, Object *&), the set of its possible answers:
\* read_arr_cache comes first.
RetrieveObject(i) ==
    LET been == {r \in rarr : r[1] = i}
    IN  IF i >= coll.top THEN {Null}
        ELSE IF been # {} THEN {r[2] : r \in been}
        ELSE IF ById(coll.cache, i) # {}
        THEN UNION {PendingObject(it) : it \in ById(coll.cache, i)}
        ELSE OrNull(StoredAt(i))

\* An object read from the server is kept in read_arr_cache, which nothing ever
\* invalidates; the insertion touches the collection.
ReadAt(i) ==
    /\ proc = "running" /\ kind = "array" /\ i < coll.top
    /\ ~ \E r \in rarr : r[1] = i
    /\ ById(coll.cache, i) = {} /\ StoredAt(i) # {}
    /\ rarr' = rarr \cup {<<i, x>> : x \in StoredAt(i)}
    /\ coll' = [coll EXCEPT !.modify = TRUE]
    /\ read' = Unvalid(read)
    /\ UNCHANGED <<kind, card, oids, srv, proc, ref, saved, used>>

-----------------------------------------------------------------------------
(* empty *)

\* The elements the server's iterator returns, each put in the cache as removed.
Occurrences == {<<e, n>> \in Elements \X (1 .. MaxIds) : n <= srv.idx1[e]}

AllRemoved(c) ==
    IF ~coll.oid THEN c
    ELSE IF Unordered
    THEN FoldSet(LAMBDA o, d : InsertNew(d, K("oid", o[1][1]), "removed"), c, Occurrences)
    ELSE FoldSet(LAMBDA p, d : InsertAs(d, K("oid", p[2]), p[1], "removed"), c, srv.idx2)

\* Collection::empty.
Empty ==
    /\ proc = "running"
    /\ Unordered /\ coll.oid => coll.cache.next + Cardinality(Occurrences) <= MaxIds
    /\ \/ \E c \in SetAllRemoved(coll.cache) :
            /\ coll' = [coll EXCEPT !.cache = AllRemoved(c), !.cnt = 0, !.top = 0,
                                    !.modify = TRUE]
            /\ read' = EmptyRead
            /\ ref' = NoElements
            /\ UNCHANGED proc
       \/ \* the erased iterator leads nowhere
          /\ \E it \in coll.cache.ids : it.st = "added"
          /\ proc' = "aborted" /\ UNCHANGED <<coll, read, ref>>
    /\ used' = used \cup {p \in {"empty", "stale"} :
                  CASE p = "empty" -> coll.cache.ids # {}
                    [] p = "stale" -> rarr # {}}
    /\ UNCHANGED <<kind, card, rarr, oids, srv, saved>>

-----------------------------------------------------------------------------
(* realize: the cache is sent to the server, which applies it in id order.  *)

LastId == Max(Inds \cup {MaxIds})

Seqs == INSTANCE SequencesExt
InIdOrder(S) == Seqs!SetToSortSeq(S, LAMBDA it, jt : it.id < jt.id)

\* IDB_collectionWrite, one item with state removed.
WriteRemoved(s, x, i) ==
    IF s.idx1[<<x, i>>] = 0 THEN [s EXCEPT !.ok = FALSE]
    ELSE IF kind = "array" /\ <<i, x>> \notin s.idx2
    THEN [s EXCEPT !.idx1[<<x, i>>] = @ - 1, !.ok = FALSE]
    ELSE [s EXCEPT !.idx1[<<x, i>>] = @ - 1, !.idx2 = @ \ {<<i, x>>}, !.cnt = @ - 1]

\* Mutant: the item replaced at that index stays in idx1.
WriteAddedKeepsOld(s, x, i) ==
    [s EXCEPT !.idx1[<<x, i>>] = @ + 1,
              !.idx2 = IF kind = "array" THEN {p \in @ : p[1] # i} \cup {<<i, x>>} ELSE @,
              !.top = IF kind = "array" /\ i >= @ THEN i + 1 ELSE @,
              !.cnt = IF kind = "array" /\ \E p \in s.idx2 : p[1] = i THEN @ ELSE @ + 1]

\* IDB_collectionWrite, one item with state added: in an array it takes the
\* place of the item found at that index, in both indexes.
WriteAdded(s, x, i) ==
    LET old == {p \in s.idx2 : p[1] = i}
        put == [s.idx1 EXCEPT ![<<x, i>>] = @ + 1]
    IN  IF kind # "array" THEN [s EXCEPT !.idx1 = put, !.cnt = @ + 1]
        ELSE [s EXCEPT !.idx1 = [e \in Elements |-> IF <<e[2], e[1]>> \in old
                                                    THEN put[e] - 1 ELSE put[e]],
                       !.idx2 = (@ \ old) \cup {<<i, x>>},
                       !.cnt = @ + 1 - Cardinality(old),
                       !.top = IF i >= @ THEN i + 1 ELSE @]

WriteItem(s, it) ==
    LET i == IF kind = "array" THEN it.id ELSE 1
    IN  IF ~s.ok THEN s
        ELSE IF it.st = "removed" THEN WriteRemoved(s, it.key[2], i)
        ELSE WriteAdded(s, it.key[2], i)

\* IDB_collectionWrite: it stops at the first item that fails; the items count
\* is brought up to date in any case.
Write(s, S) == Seqs!FoldLeft(WriteItem, [ok |-> TRUE] @@ s, InIdOrder(S))
Stored(w) == [idx1 |-> w.idx1, idx2 |-> w.idx2, cnt |-> w.cnt, top |-> w.top]

Added == {it \in coll.cache.ids : it.st = "added"}

\* CardinalityConstraint::maxint: no upper bound.
maxint == -1

Within(n) ==
    card.set =>
      /\ IF card.bottomExcl THEN n > card.bottom ELSE n >= card.bottom
      /\ card.top # maxint => IF card.topExcl THEN n < card.top ELSE n <= card.top

\* Mutant: an excluded lower bound is taken for an included one.
CheckCardinalityIncl ==
    card.set => coll.cnt >= card.bottom
                /\ (card.top # maxint
                     => IF card.topExcl THEN coll.cnt < card.top ELSE coll.cnt <= card.top)

\* Collection::checkCardinality: the client's own count respects the constraint.
CheckCardinality == Within(coll.cnt)

\* Collection::cache_compile: the cardinality is checked, and every added object
\* has an oid or gets one now (RecMode FullRecurs).
Compiles(full) ==
    /\ CheckCardinality
    /\ full \/ \A it \in Added : it.key[2] \in oids

\* The items sent: a removed object that was never stored is skipped.
Sent(os) == {it \in coll.cache.ids : it.st = "removed" => it.key[2] \in os}

\* Mutant: the cache is not deleted after the write.
SendKeepsCache(full) ==
    LET os == oids \cup (IF full THEN {it.key[2] : it \in Added} ELSE {})
        w  == Write(srv, Sent(os))
    IN  /\ oids' = os /\ srv' = Stored(w)
        /\ IF w.ok THEN /\ coll' = [coll EXCEPT !.oid = TRUE, !.modify = FALSE]
                        /\ read' = EmptyRead /\ saved' = ref /\ UNCHANGED used
                   ELSE /\ coll' = [coll EXCEPT !.oid = TRUE]
                        /\ used' = used \cup {"failed"} /\ UNCHANGED <<read, saved>>

\* objectWrite of the compiled cache; the cache is deleted only when it succeeds.
Send(full) ==
    LET os == oids \cup (IF full THEN {it.key[2] : it \in Added} ELSE {})
        w  == Write(srv, Sent(os))
    IN  /\ oids' = os /\ srv' = Stored(w)
        /\ IF w.ok THEN /\ coll' = [coll EXCEPT !.oid = TRUE, !.modify = FALSE,
                                                !.cache = NoCache]
                        /\ read' = EmptyRead /\ saved' = ref /\ UNCHANGED used
                   ELSE /\ coll' = [coll EXCEPT !.oid = TRUE]
                        /\ used' = used \cup {"failed"} /\ UNCHANGED <<read, saved>>

\* Collection::realize: create_realize creates the object before it compiles
\* the cache, update_realize compiles first and only when there is a change.
Realize(full) ==
    /\ proc = "running"
    /\ coll.oid => coll.modify
    /\ IF Compiles(full) THEN Send(full)
       ELSE /\ coll' = [coll EXCEPT !.oid = TRUE]
            /\ UNCHANGED <<read, oids, srv, saved, used>>
    /\ UNCHANGED <<kind, card, rarr, proc, ref>>

\* The application drops its Collection and loads the stored one (collectionMake).
Reload ==
    /\ proc = "running" /\ coll.oid
    /\ coll' = [cache |-> NoCache, cnt |-> srv.cnt, top |-> srv.top, oid |-> TRUE,
                modify |-> FALSE]
    /\ read' = EmptyRead /\ rarr' = {}
    /\ ref' = saved
    /\ UNCHANGED <<kind, card, oids, srv, proc, saved, used>>

\* An object of the application is stored.
StoreObject(x) ==
    /\ x \notin oids /\ oids' = oids \cup {x}
    /\ UNCHANGED <<kind, card, coll, read, rarr, srv, proc, ref, saved, used>>

-----------------------------------------------------------------------------
(* getElements(OidArray &) *)

Scan == [x \in Items |-> IF coll.oid THEN MapThenSumSet(LAMBDA i : srv.idx1[<<x, i>>], Inds)
                                     ELSE 0]

\* Mutant: pending removals are not merged.
MergeItemAdds(f, it) ==
    IF it.key[1] # "oid" \/ it.st = "removed" THEN f ELSE [f EXCEPT ![it.key[2]] = @ + 1]

\* The scanned elements with the cached oids suppressed or appended.
MergeItem(f, it) ==
    IF it.key[1] # "oid" THEN f
    ELSE IF it.st = "removed" THEN [f EXCEPT ![it.key[2]] = IF @ = 0 THEN 0 ELSE @ - 1]
    ELSE [f EXCEPT ![it.key[2]] = @ + 1]

Merged == Seqs!FoldLeft(MergeItem, Scan, InIdOrder(coll.cache.ids))

\* Collection::getOidElementsRealize.
GetElements ==
    /\ proc = "running" /\ ~(read.has /\ read.coherent)
    /\ read' = [has |-> TRUE, coherent |-> TRUE,
                arr |-> IF read.coherent THEN Scan ELSE Merged]
    /\ UNCHANGED <<kind, card, coll, rarr, oids, srv, proc, ref, saved, used>>

Aborted == proc = "aborted" /\ UNCHANGED vars

Ways == {"oid", "object"}

Next ==
    \/ \E way \in Ways, x \in Items, b \in BOOLEAN : Insert(way, x, b) \/ SuppressItem(way, x, b)
    \/ \E way \in Ways, x \in Items, i \in Inds : InsertAt(i, way, x)
    \/ \E way \in Ways, x \in Items, b \in BOOLEAN : ArraySuppress(way, x, b)
    \/ \E way \in Ways, x \in Items, b \in BOOLEAN : Append(way, x, b)
    \/ \E i \in Inds : SuppressAt(i) \/ ReadAt(i)
    \/ Empty \/ Reload \/ GetElements
    \/ \E full \in BOOLEAN : Realize(full)
    \/ \E x \in Items : StoreObject(x)
    \/ Aborted

\* The bounds on the patterns of calls and on the counts.
Bounded ==
    /\ Cardinality(used' \ {"failed"}) <= MaxUsed
    /\ coll'.cnt \in -MaxElems .. MaxElems
    /\ srv'.cnt <= MaxElems + 1

Spec == Init /\ [][Next /\ Bounded]_vars

-----------------------------------------------------------------------------
(* Properties.  A client is careful when it has made none of the given      *)
(* patterns of calls; what goes wrong after them is in the README.          *)
Without(patterns) == used \cap patterns = {}

\* Patterns after which the cache of a set or bag no longer describes what the
\* client did: an object named both by oid and by pointer, an insert while the
\* removal of the same item is pending, the same item twice in a bag, empty() on a
\* collection with pending changes, and an item of an array suppressed by value.
Confusing == {"alias", "reinsert", "twice", "empty", "wild"}

Item == [key : Key, id : 0 .. LastId, st : {"added", "removed"}]
Held(f, x) == MapThenSumSet(LAMBDA i : f[<<x, i>>], Inds)

\* Every variable has its type.
TypeOK ==
    /\ kind \in Kinds /\ card \in Cards
    /\ coll.cache.val \subseteq Item /\ coll.cache.ids \subseteq Item
    /\ coll.cnt \in Int /\ coll.top \in Nat /\ coll.oid \in BOOLEAN /\ coll.modify \in BOOLEAN
    /\ oids \subseteq Items
    /\ srv.idx1 \in [Elements -> Nat] /\ srv.idx2 \subseteq Inds \X Items
    /\ proc \in {"running", "aborted"}

\* The stored collection is consistent whatever the client sent and wherever
\* IDB_collectionWrite stopped: the items count is the number of elements, and
\* the two indexes of an array mirror each other, with one item per index.
ServerAgree ==
    /\ TypeOK
    /\ srv.cnt = Total(srv.idx1)
    /\ kind = "array" =>
         /\ \A e \in Elements : srv.idx1[e] = IF <<e[2], e[1]>> \in srv.idx2 THEN 1 ELSE 0
         /\ \A p, q \in srv.idx2 : p[1] = q[1] => p = q
         /\ \A p \in srv.idx2 : p[1] < srv.top

\* The assertions of ValueCache::suppress never fail, for a client that does not
\* empty a collection with pending changes, unset or replace a pending index of
\* an array, or suppress an array's item by value.
NoAssert == Without({"empty", "unset", "replace", "wild"}) => proc = "running"

\* v_items_cnt, which getCount() and the cardinality constraint use, is the
\* number of elements the client's calls have left, stored or pending.
CountExact ==
    Without(Confusing \cup {"replace"}) /\ proc = "running" => coll.cnt = Total(ref)

\* What realize() has stored is exactly what the client's calls had left at the
\* last successful realize().
StoredExact == Without(Confusing) => srv.idx1 = saved

\* getElements() returns each element as often as the client's calls left it,
\* pending changes included, when these are known by oid and no realize() failed
\* half-way.  (The comment above getElements in Collection.cc says that it leaves
\* the cache out, as it did before NEW_GET_ELEMENTS.)  Its read cache is never used
\* when it is out of date: it holds what a new scan merged with the pending changes
\* would give.
ElementsExact ==
    /\ Without(Confusing \cup {"replace", "failed"}) /\ proc = "running"
          /\ (\A it \in coll.cache.ids : it.key[1] = "oid")
       => \A x \in Items : Merged[x] = Held(ref, x)
    /\ Without({"alias", "failed"}) /\ read.has /\ read.coherent => read.arr = Merged

\* isIn() on a set or bag is right for a client that names the item the way it did
\* when it was inserted; a pending removal is seen by oid only.  retrieveAt()
\* returns the item last put at that index of an array, or null: by oid when
\* nothing is pending at the index; as an object, unless the index was read before
\* it was changed, when nothing is pending there or an object put by pointer is.
\* What it answers in the other cases is wrong or undefined.
LookupExact ==
    proc = "running" =>
      /\ Without(Confusing \cup {"failed"}) /\ Unordered => \A x \in Items :
           /\ x \in oids /\ (\A it \in Pending(x) : it.key[1] = "oid")
              => (IsInOid(x) <=> Held(ref, x) > 0)
           /\ (\A it \in Pending(x) : it.st = "added") => (IsInObject(x) <=> Held(ref, x) > 0)
      /\ Without({"empty", "wild"}) /\ kind = "array" => \A i \in Inds :
           /\ ById(coll.cache, i) = {} => RetrieveOid(i) = OrNull(At(ref, i))
           /\ Without({"stale"})
                /\ (\A it \in ById(coll.cache, i) : it.st = "added" /\ it.key[1] = "object")
              => RetrieveObject(i) = OrNull(At(ref, i))

\* A realize() never changes the stored collection to a number of elements that
\* its cardinality constraint excludes, although only the client checks it, on
\* its own count, and the server applies the changes one by one.  (The empty
\* collection that a refused first realize() leaves may be below the lower bound.)
CardOK ==
    [][Without(Confusing \cup {"replace"}) /\ srv' # srv => Within(Total(srv'.idx1))]_vars
=============================================================================
