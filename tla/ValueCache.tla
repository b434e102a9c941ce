----------------------------- MODULE ValueCache -----------------------------
(***************************************************************************)
(* The client's cache of the pending changes of one collection             *)
(* (ValueCache.cc).  Two maps hold the same ValueItem objects: val_map by   *)
(* value and id_map by item id.  A map is modelled by the set of the items  *)
(* it holds: at most one item per value in `val', one per id in `ids'.      *)
(* An item is the object [key, id, st], so an item that both maps hold is   *)
(* an element of both sets and a change of its state changes both.          *)
(***************************************************************************)
EXTENDS Integers, FiniteSets

\* `cache == 0' and an empty cache behave alike: a new cache counts from 0.
NoCache == [val |-> {}, ids |-> {}, next |-> 0]

ByValue(c, k) == {it \in c.val : it.key = k}
ById(c, i)    == {it \in c.ids : it.id = i}

\* Mutant: id_map is not told of the item.
InsertAsByValue(c, k, i, s) ==
    [c EXCEPT !.val = (@ \ ByValue(c, k)) \cup {[key |-> k, id |-> i, st |-> s]}]

\* ValueCache::insert with a given id: each map drops the item it held there.
InsertAs(c, k, i, s) ==
    LET it == [key |-> k, id |-> i, st |-> s]
    IN  [c EXCEPT !.val = (@ \ ByValue(c, k)) \cup {it},
                  !.ids = (@ \ ById(c, i)) \cup {it}]

\* ValueCache::insert with DefaultItemID.
InsertNew(c, k, s) == InsertAs([c EXCEPT !.next = @ + 1], k, c.next, s)

\* ValueCache::suppress asserts that both maps know the item's value and id.
SuppressAsserts(c, it) == ByValue(c, it.key) # {} /\ ById(c, it.id) # {}

\* ValueCache::suppress: whatever val_map holds under the item's value and
\* id_map under its id is dropped.
Suppress(c, it) == [c EXCEPT !.val = @ \ ByValue(c, it.key),
                             !.ids = @ \ ById(c, it.id)]

\* ValueItem::setState: the object changes, wherever it is held.
SetState(c, it, s) ==
    LET Put(S) == IF it \in S THEN (S \ {it}) \cup {[it EXCEPT !.st = s]} ELSE S
    IN  [c EXCEPT !.val = Put(@), !.ids = Put(@)]

\* What ValueCache::setState(removed) leaves when its loop visits V: an added
\* item leaves id_map (val_map keeps it), any other item becomes removed.
Visited(c, V) ==
    LET Put(S) == {IF it \in V /\ it.st # "added" THEN [it EXCEPT !.st = "removed"]
                                                  ELSE it : it \in S}
    IN  [c EXCEPT !.val = Put(@),
                  !.ids = Put(@ \ {it \in V : it.st = "added"})]

\* The loop erases an entry and then advances the erased iterator: undefined.
\* The entries up to the first added one are visited; of the others, any.
SetAllRemoved(c) ==
    LET added == {it \in c.ids : it.st = "added"}
        sure  == {it \in c.ids : \A a \in added : it.id <= a.id}
    IN  {Visited(c, sure \cup V) : V \in SUBSET (c.ids \ sure)}
=============================================================================
