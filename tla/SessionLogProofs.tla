-------------------------- MODULE SessionLogProofs --------------------------
(***************************************************************************)
(* Proofs about module SessionLog, for any number of backends, eyedbctl     *)
(* processes and entries: the entries form one doubly linked list whenever  *)
(* no backend is inside add or suppress, a connected client is in it, and   *)
(* `eyedbctl status', which walks it both ways, finds every client once.    *)
(***************************************************************************)
EXTENDS SessionLog, FiniteSetTheorems, TLAPS

-----------------------------------------------------------------------------
(* The inductive invariant.                                                 *)

\* Where a backend is inside add or suppress, has an entry of its own, and has it
\* in the list.
Locked  == {"a_prev", "a_first", "a_count", "a_unlock", "s_next", "s_prev", "s_count", "s_unlock"}
Owning  == BackendPc \ {"start", "refused", "gone"}
Linked  == {"a_count", "a_unlock", "connected", "quit", "s_next", "s_prev", "dead"}

\* Where eyedbctl status holds the mutex.
Walking == {"first", "nconns", "forward", "backward", "previous", "decide", "listed", "down"}

ToolType == [pc : ToolPc, cmd : CommandNames \cup {"none"}, p : Cells \cup {Null}, n : Int,
             nb : Nat, seen : SUBSET Cells, before : SUBSET Backends]

Types ==
    /\ up \in BOOLEAN
    /\ first \in Cells \cup {Null}
    /\ nconns \in Nat
    /\ cell \in [Cells -> Entry]
    /\ alloc \subseteq Cells
    /\ pc \in [Backends -> BackendPc]
    /\ info \in [Backends -> Cells \cup {Null}]
    /\ killed \subseteq Backends \cup {Master}
    /\ tool \in [Tools -> ToolType]
    /\ order \in Seq(Cells)

\* One process at a time is inside add, suppress or status.
Mutex ==
    /\ mutex \in Backends \cup Tools \cup {Free}
    /\ \A b \in Backends : pc[b] \in Locked <=> mutex = b
    /\ \A t \in Tools : tool[t].cmd = "status" /\ tool[t].pc \in Walking <=> mutex = t
    /\ \A t \in Tools : tool[t].pc \in {"lock", "listed", "down"} => tool[t].cmd = "status"
    /\ \A t \in Tools : tool[t].cmd = "status" => tool[t].pc \in Walking \cup {"lock", "done"}

\* A backend's entry is its own: it has its pid, and is in the list if it should.
Owners ==
    /\ \A b \in Backends : pc[b] \in Owning =>
          info[b] \in alloc /\ info[b] \in Cells /\ cell[info[b]].pid = b
    /\ \A b \in Backends : pc[b] \in Linked => \E i \in 1 .. Len(order) : order[i] = info[b]
    /\ \A i \in 1 .. Len(order) : \E b \in Backends : pc[b] \in Linked /\ order[i] = info[b]

Distinct == \A i, j \in 1 .. Len(order) : order[i] = order[j] => i = j

\* conn_first and conn_next are right at every step: the list is read by stop
\* without the mutex.
Forwards ==
    /\ first = IF Len(order) = 0 THEN Null ELSE order[1]
    /\ \A i \in 1 .. Len(order) :
          cell[order[i]].next = IF i = Len(order) THEN Null ELSE order[i + 1]
    /\ \A b \in Backends : pc[b] \in {"a_prev", "a_first"} =>
          cell[info[b]].next = first /\ cell[info[b]].prev = Null

\* conn_prev is right but for the entry after the one that is being inserted or
\* removed.
Backwards ==
    /\ Len(order) > 0 =>
          /\ (\A b \in Backends : pc[b] # "a_first") => cell[order[1]].prev = Null
          /\ \A b \in Backends : pc[b] = "a_first" => cell[order[1]].prev = info[b]
    /\ \A i \in 2 .. Len(order) :
          /\ (\A b \in Backends : ~(pc[b] = "s_prev" /\ info[b] = order[i - 1]))
                => cell[order[i]].prev = order[i - 1]
          /\ \A b \in Backends : pc[b] = "s_prev" /\ info[b] = order[i - 1]
                => cell[order[i]].prev = cell[info[b]].prev

\* nconns is late between the two halves of add and of suppress.
Counted ==
    /\ (\A b \in Backends : pc[b] \notin {"a_count", "s_count"}) => nconns = Len(order)
    /\ \A b \in Backends : /\ pc[b] = "a_count" => nconns = Len(order) - 1
                           /\ pc[b] = "s_count" => nconns = Len(order) + 1

\* eyedbctl status: where its walk is, and what it has seen when it comes back
\* from the last entry to the entry k.
At(k) == IF k = 0 THEN Null ELSE order[k]

SeenFrom(t, k) ==
    /\ \A c \in tool[t].seen : \E i \in k + 1 .. Len(order) : order[i] = c
    /\ \A i \in k + 1 .. Len(order) : \A b \in Backends :
          pc[b] = "connected" /\ info[b] = order[i] => order[i] \in tool[t].seen
    /\ tool[t].nb = Cardinality(tool[t].seen)

Walk(t) ==
    /\ tool[t].pc \in {"lock", "first", "nconns", "forward"} => tool[t].seen = {} /\ tool[t].nb = 0
    /\ tool[t].pc = "nconns" => tool[t].p = first
    /\ tool[t].pc = "forward" =>
          IF Len(order) = 0 THEN tool[t].n = 0 - 1 /\ tool[t].p = Null
          ELSE tool[t].n \in 0 .. Len(order) - 1 /\ tool[t].p = order[Len(order) - tool[t].n]
    /\ tool[t].pc = "backward" =>
          \E k \in 0 .. Len(order) : tool[t].p = At(k) /\ SeenFrom(t, k)
    /\ tool[t].pc = "previous" =>
          \E k \in 1 .. Len(order) : tool[t].p = order[k] /\ SeenFrom(t, k - 1)
    /\ tool[t].pc \in {"decide", "listed"} => SeenFrom(t, 0)

Walks == \A t \in Tools : tool[t].cmd = "status" => Walk(t)

Inv == Types /\ Mutex /\ Owners /\ Distinct /\ Forwards /\ Backwards /\ Counted /\ Walks

-----------------------------------------------------------------------------
(* The list as a sequence.                                                  *)

\* An entry put in front of the others.
LEMMA PrependIs ==
    ASSUME NEW s \in Seq(Cells), NEW c \in Cells
    PROVE  LET r == <<c>> \o s
           IN  /\ r \in Seq(Cells) /\ Len(r) = Len(s) + 1 /\ r[1] = c
               /\ \A i \in 2 .. Len(r) : r[i] = s[i - 1]
               /\ \A i \in 1 .. Len(s) : r[i + 1] = s[i]
  OBVIOUS

\* The entry k taken out.
LEMMA DropIs ==
    ASSUME NEW s \in Seq(Cells), NEW k \in 1 .. Len(s),
           \A i, j \in 1 .. Len(s) : s[i] = s[j] => i = j
    PROVE  LET r == Drop(s, s[k])
           IN  /\ r \in Seq(Cells) /\ Len(r) = Len(s) - 1
               /\ \A i \in 1 .. Len(r) : r[i] = IF i < k THEN s[i] ELSE s[i + 1]
  <1> DEFINE m == CHOOSE i \in 1 .. Len(s) : s[i] = s[k]
             r == [i \in 1 .. Len(s) - 1 |-> IF i < k THEN s[i] ELSE s[i + 1]]
  <1>1. m = k
    <2>1. m \in 1 .. Len(s) /\ s[m] = s[k]
      OBVIOUS
    <2> QED  BY <2>1
  <1> HIDE DEF m
  <1>2. Drop(s, s[k]) = r
    BY <1>1 DEF Drop, m
  <1>3. Len(s) - 1 \in Nat /\ \A i \in 1 .. Len(s) - 1 : r[i] \in Cells
    OBVIOUS
  <1>4. r \in Seq(Cells) /\ Len(r) = Len(s) - 1
    BY <1>3
  <1> QED  BY <1>2, <1>4

-----------------------------------------------------------------------------
(* What the mutex gives.                                                    *)

\* The pcs are separate.
LEMMA Places ==
    /\ Locked \subseteq Owning /\ Linked \subseteq Owning /\ Owning \subseteq BackendPc
    /\ "connected" \notin Locked /\ "alloc" \notin Locked /\ "quit" \notin Locked
    /\ "alloc" \notin Linked /\ "a_prev" \notin Linked /\ "a_first" \notin Linked
    /\ "s_count" \notin Linked /\ "s_unlock" \notin Linked
  BY DEF Locked, Owning, Linked, BackendPc

\* Two backends with an entry have different ones.
LEMMA OwnEntry ==
    ASSUME Owners, NEW b \in Backends, NEW x \in Backends,
           pc[b] \in Owning, pc[x] \in Owning, info[b] = info[x]
    PROVE  b = x
  BY DEF Owners

\* The entry of a backend that is not in the list is not in the list.
LEMMA NotListed ==
    ASSUME Owners, NEW b \in Backends, pc[b] \in Owning, pc[b] \notin Linked
    PROVE  \A i \in 1 .. Len(order) : order[i] # info[b]
  BY OwnEntry, Places DEF Owners

\* While a backend has the mutex or nobody has, no other is inside add or suppress
\* and no status walks.
LEMMA Alone ==
    ASSUME Mutex, NEW b \in Backends, mutex \in {b, Free}
    PROVE  /\ \A x \in Backends \ {b} : pc[x] \notin Locked
           /\ \A t \in Tools : tool[t].cmd = "status" => tool[t].pc \notin Walking
  <1>1. \A x \in Backends \ {b} : mutex # x
    BY ProcessAssumption
  <1>2. \A t \in Tools : mutex # t
    BY ProcessAssumption, SessionAssumption
  <1> QED  BY <1>1, <1>2 DEF Mutex

\* A backend's step that takes, keeps or gives back the mutex leaves Mutex and Walks.
LEMMA MutexStep ==
    ASSUME Mutex, Walks, NEW b \in Backends, mutex \in {b, Free}, tool' = tool,
           NEW q, pc \in [Backends -> BackendPc], pc' = [pc EXCEPT ![b] = q],
           IF q \in Locked THEN mutex' = b ELSE mutex' = Free
    PROVE  Mutex' /\ Walks'
  <1>1. /\ \A x \in Backends \ {b} : pc[x] \notin Locked
        /\ \A t \in Tools : tool[t].cmd = "status" => tool[t].pc \notin Walking
    BY Alone
  <1>2. \A x \in Backends : mutex' = x => x = b /\ q \in Locked
    BY ProcessAssumption
  <1>3. \A t \in Tools : mutex' # t
    BY ProcessAssumption, SessionAssumption
  <1>4. Mutex'
    BY <1>1, <1>2, <1>3 DEF Mutex
  <1>5. Walks'
    BY <1>1 DEF Walks, Walk, Walking
  <1> QED  BY <1>4, <1>5

-----------------------------------------------------------------------------
(* The steps of a backend.                                                  *)

\* SessionLog::add: the mutex, and the links of the new entry, which is not in the
\* list yet.
LEMMA AddLockInv ==
    ASSUME Inv, NEW b \in Backends, AddLock(b)
    PROVE  Inv'
  <1> DEFINE c == info[b]
  <1>0. /\ pc[b] = "alloc" /\ pc' = [pc EXCEPT ![b] = "a_prev"] /\ mutex = Free /\ mutex' = b
        /\ cell' = [cell EXCEPT ![c].next = first, ![c].prev = Null]
        /\ UNCHANGED <<up, first, nconns, alloc, info, killed, tool, order>>
    BY DEF AddLock, Goto
  <1>t. Types /\ Mutex /\ Owners /\ Distinct /\ Forwards /\ Backwards /\ Counted /\ Walks
    BY DEF Inv
  <1>1. Mutex' /\ Walks'
    BY <1>0, <1>t, MutexStep DEF Types, Locked
  <1>2. /\ pc'[b] = "a_prev" /\ \A x \in Backends \ {b} : pc'[x] = pc[x] /\ pc[x] \notin Locked
    BY <1>0, <1>t, Alone DEF Types
  <1>3. c \in Cells /\ c \in alloc /\ cell[c].pid = b /\ cell \in [Cells -> Entry]
    BY <1>0, <1>t DEF Owners, Types, Owning, BackendPc
  <1>4. \A i \in 1 .. Len(order) : order[i] # c /\ order[i] \in Cells
    BY <1>0, <1>t, NotListed DEF Owning, Linked, BackendPc, Types
  <1>5. /\ cell' \in [Cells -> Entry] /\ cell'[c].next = first /\ cell'[c].prev = Null
        /\ \A d \in Cells : cell'[d].pid = cell[d].pid
        /\ \A d \in Cells \ {c} : cell'[d] = cell[d]
    <2>1. first \in Cells \cup {Null} /\ Null \in Cells \cup {Null}
      BY <1>t DEF Types
    <2>2. cell' = [cell EXCEPT ![c].next = first, ![c].prev = Null]
      BY <1>0
    <2> HIDE DEF c
    <2> QED  BY <1>3, <2>1, <2>2 DEF Entry
  <1>6. Types'
    BY <1>0, <1>5, <1>t DEF Types, BackendPc
  <1>7. Owners'
    BY <1>0, <1>2, <1>3, <1>5, <1>t DEF Owners, Owning, Linked, BackendPc
  <1>8. Distinct'
    BY <1>0, <1>t DEF Distinct
  <1>9. Forwards'
    BY <1>0, <1>2, <1>4, <1>5, <1>t DEF Forwards, Locked
  <1>10. Backwards'
    BY <1>0, <1>2, <1>4, <1>5, <1>t DEF Backwards, Locked
  <1>11. Counted'
    BY <1>0, <1>2, <1>t DEF Counted, Locked
  <1> QED  BY <1>1, <1>6, <1>7, <1>8, <1>9, <1>10, <1>11 DEF Inv

\* The entry that was first gets its conn_prev.
LEMMA AddPrevInv ==
    ASSUME Inv, NEW b \in Backends, AddPrev(b)
    PROVE  Inv'
  <1> DEFINE c == info[b]
  <1>0. /\ pc[b] = "a_prev" /\ pc' = [pc EXCEPT ![b] = "a_first"] /\ mutex' = mutex
        /\ cell' = IF first # Null THEN [cell EXCEPT ![first].prev = c] ELSE cell
        /\ UNCHANGED <<up, first, nconns, alloc, info, killed, tool, order>>
    BY DEF AddPrev, Goto
  <1>t. Types /\ Mutex /\ Owners /\ Distinct /\ Forwards /\ Backwards /\ Counted /\ Walks
    BY DEF Inv
  <1>m. mutex = b
    BY <1>0, <1>t DEF Mutex, Locked
  <1>1. Mutex' /\ Walks'
    BY <1>0, <1>m, <1>t, MutexStep DEF Types, Locked
  <1>2. pc'[b] = "a_first" /\ \A x \in Backends \ {b} : pc'[x] = pc[x] /\ pc[x] \notin Locked
    BY <1>0, <1>m, <1>t, Alone DEF Types
  <1>3. c \in Cells /\ c \in alloc /\ cell[c].pid = b /\ cell \in [Cells -> Entry]
    BY <1>0, <1>t DEF Owners, Types, Owning, BackendPc
  <1>4. \A i \in 1 .. Len(order) : order[i] # c /\ order[i] \in Cells
    BY <1>0, <1>t, NotListed DEF Owning, Linked, BackendPc, Types
  <1>5. first = IF Len(order) = 0 THEN Null ELSE order[1]
    BY <1>t DEF Forwards
  <1>l. Len(order) \in Nat
    BY <1>t DEF Types
  <1>6. /\ cell' \in [Cells -> Entry]
        /\ \A d \in Cells : cell'[d].pid = cell[d].pid /\ cell'[d].next = cell[d].next
        /\ \A d \in Cells \ {first} : cell'[d] = cell[d]
        /\ Len(order) > 0 => cell'[first].prev = c
    <2>1. CASE Len(order) = 0
      BY <1>0, <1>3, <1>5, <2>1
    <2>2. CASE Len(order) > 0
      <3>1. first \in Cells /\ first # Null
        BY <1>4, <1>5, <1>l, <2>2, SessionAssumption DEF Cells, Null
      <3>2. cell' = [cell EXCEPT ![first].prev = c]
        BY <1>0, <3>1
      <3> QED  BY <1>3, <3>1, <3>2 DEF Entry
    <2> QED  BY <1>l, <2>1, <2>2
  <1>f. Len(order) > 0 => first # c
    BY <1>4, <1>5, <1>l
  <1>7. Types'
    BY <1>0, <1>6, <1>t DEF Types, BackendPc
  <1>8. Owners'
    BY <1>0, <1>2, <1>3, <1>6, <1>t DEF Owners, Owning, Linked, BackendPc
  <1>9. Distinct'
    BY <1>0, <1>t DEF Distinct
  <1>10. Forwards'
    <2>1. cell'[c].prev = cell[c].prev
      BY <1>3, <1>5, <1>6, <1>f, <1>l, SessionAssumption DEF Cells, Null
    <2> QED  BY <1>0, <1>2, <1>3, <1>4, <1>6, <1>t, <2>1 DEF Forwards, Locked
  <1>11. Backwards'
    <2>1. \A i \in 2 .. Len(order) : order[i] # first
      BY <1>5, <1>l, <1>t DEF Distinct
    <2>2. \A i \in 2 .. Len(order) : cell'[order[i]] = cell[order[i]]
      BY <1>4, <1>6, <2>1
    <2>3. Len(order) > 0 => cell'[order[1]].prev = c
      BY <1>5, <1>6, <1>l
    <2>4. \A i \in 2 .. Len(order) : cell[order[i]].prev = order[i - 1]
      BY <1>0, <1>2, <1>t DEF Backwards, Locked
    <2>5. \A x \in Backends : (pc'[x] = "a_first" <=> x = b) /\ pc'[x] # "s_prev"
      BY <1>2 DEF Locked
    <2>6. \A i \in 2 .. Len(order') : cell'[order'[i]].prev = order'[i - 1]
      BY <1>0, <2>2, <2>4
    <2>7. Len(order') > 0 => cell'[order'[1]].prev = info'[b]
      BY <1>0, <2>3
    <2> QED  BY <2>5, <2>6, <2>7 DEF Backwards
  <1>12. Counted'
    BY <1>0, <1>2, <1>t DEF Counted, Locked
  <1> QED  BY <1>1, <1>7, <1>8, <1>9, <1>10, <1>11, <1>12 DEF Inv

\* The new entry is the first.
LEMMA AddFirstInv ==
    ASSUME Inv, NEW b \in Backends, AddFirst(b)
    PROVE  Inv'
  <1> DEFINE c == info[b]
  <1>0. /\ pc[b] = "a_first" /\ pc' = [pc EXCEPT ![b] = "a_count"] /\ mutex' = mutex
        /\ first' = c /\ order' = <<c>> \o order
        /\ UNCHANGED <<up, nconns, cell, alloc, info, killed, tool>>
    BY DEF AddFirst, Goto
  <1>t. Types /\ Mutex /\ Owners /\ Distinct /\ Forwards /\ Backwards /\ Counted /\ Walks
    BY DEF Inv
  <1>m. mutex = b
    BY <1>0, <1>t DEF Mutex, Locked
  <1>1. Mutex' /\ Walks'
    BY <1>0, <1>m, <1>t, MutexStep DEF Types, Locked
  <1>2. pc'[b] = "a_count" /\ \A x \in Backends \ {b} : pc'[x] = pc[x] /\ pc[x] \notin Locked
    BY <1>0, <1>m, <1>t, Alone DEF Types
  <1>3. c \in Cells /\ c \in alloc /\ cell[c].pid = b /\ cell \in [Cells -> Entry]
    BY <1>0, <1>t DEF Owners, Types, Owning, BackendPc
  <1>4. \A i \in 1 .. Len(order) : order[i] # c /\ order[i] \in Cells
    <2>1. pc[b] \in Owning /\ pc[b] \notin Linked
      BY <1>0 DEF Owning, Linked, BackendPc
    <2>2. \A i \in 1 .. Len(order) : order[i] \in Cells
      BY <1>t DEF Types
    <2> QED  BY <1>t, <2>1, <2>2, NotListed
  <1>l. Len(order) \in Nat /\ order \in Seq(Cells)
    BY <1>t DEF Types
  <1>5. /\ order' \in Seq(Cells) /\ Len(order') = Len(order) + 1 /\ order'[1] = c
        /\ \A i \in 2 .. Len(order') : order'[i] = order[i - 1]
        /\ \A i \in 1 .. Len(order) : order'[i + 1] = order[i]
    BY <1>0, <1>3, <1>l, PrependIs
  <1>6. Types'
    BY <1>0, <1>3, <1>5, <1>t DEF Types, BackendPc
  <1>7. Owners'
    <2>1. \A x \in Backends : pc'[x] \in Owning =>
             info'[x] \in alloc' /\ info'[x] \in Cells /\ cell'[info'[x]].pid = x
      BY <1>0, <1>2, <1>3, <1>t DEF Owners
    <2>2. ASSUME NEW x \in Backends, pc'[x] \in Linked
          PROVE  \E i \in 1 .. Len(order') : order'[i] = info'[x]
      <3>1. CASE x = b
        <4>1. 1 \in 1 .. Len(order') /\ order'[1] = info'[x]
          BY <1>0, <1>5, <1>l, <3>1
        <4> QED  BY <4>1
      <3>2. CASE x # b
        <4>1. PICK i \in 1 .. Len(order) : order[i] = info[x]
          BY <1>2, <1>t, <2>2, <3>2 DEF Owners
        <4>2. i + 1 \in 1 .. Len(order') /\ order'[i + 1] = info'[x]
          BY <1>0, <1>5, <1>l, <4>1
        <4> QED  BY <4>2
      <3> QED  BY <3>1, <3>2
    <2>3. ASSUME NEW i \in 1 .. Len(order')
          PROVE  \E x \in Backends : pc'[x] \in Linked /\ order'[i] = info'[x]
      <3>1. CASE i = 1
        BY <1>0, <1>2, <1>5, <3>1 DEF Linked
      <3>2. CASE i # 1
        <4>1. i - 1 \in 1 .. Len(order) /\ order'[i] = order[i - 1]
          BY <1>5, <1>l, <3>2
        <4>2. PICK x \in Backends : pc[x] \in Linked /\ order[i - 1] = info[x]
          BY <1>t, <4>1 DEF Owners
        <4>3. x # b
          BY <1>0, <4>2 DEF Linked
        <4> QED  BY <1>0, <1>2, <4>1, <4>2, <4>3
      <3> QED  BY <3>1, <3>2
    <2> QED  BY <2>1, <2>2, <2>3 DEF Owners
  <1>8. Distinct'
    <2>1. ASSUME NEW i \in 1 .. Len(order'), NEW j \in 1 .. Len(order'), order'[i] = order'[j], i < j
          PROVE  FALSE
      <3>1. j - 1 \in 1 .. Len(order) /\ order'[j] = order[j - 1]
        BY <1>5, <1>l, <2>1
      <3>2. i = 1 \/ (i - 1 \in 1 .. Len(order) /\ order'[i] = order[i - 1])
        BY <1>5, <1>l, <2>1
      <3> QED  BY <1>4, <1>5, <1>t, <2>1, <3>1, <3>2 DEF Distinct
    <2> QED  BY <1>5, <1>l, <2>1 DEF Distinct
  <1>9. Forwards'
    <2>1. first' = IF Len(order') = 0 THEN Null ELSE order'[1]
      BY <1>0, <1>5, <1>l
    <2>2. ASSUME NEW i \in 1 .. Len(order')
          PROVE  cell'[order'[i]].next = IF i = Len(order') THEN Null ELSE order'[i + 1]
      <3>1. CASE i = 1
        <4>1. cell[c].next = IF Len(order) = 0 THEN Null ELSE order[1]
          BY <1>0, <1>t DEF Forwards
        <4> QED  BY <1>0, <1>5, <1>l, <3>1, <4>1
      <3>2. CASE i # 1
        <4>1. i - 1 \in 1 .. Len(order) /\ order'[i] = order[i - 1]
          BY <1>5, <1>l, <3>2
        <4>2. cell[order[i - 1]].next = IF i - 1 = Len(order) THEN Null ELSE order[i]
          BY <1>l, <1>t, <4>1 DEF Forwards
        <4>3. i # Len(order') => order'[i + 1] = order[i]
          BY <1>5, <1>l, <4>1
        <4> QED  BY <1>0, <1>5, <1>l, <4>1, <4>2, <4>3
      <3> QED  BY <3>1, <3>2
    <2>3. \A x \in Backends : pc'[x] \notin {"a_prev", "a_first"}
      BY <1>2 DEF Locked
    <2> QED  BY <2>1, <2>2, <2>3 DEF Forwards
  <1>10. Backwards'
    <2>1. \A x \in Backends : pc'[x] # "a_first" /\ pc'[x] # "s_prev"
      BY <1>2 DEF Locked
    <2>2. \A x \in Backends : pc[x] # "s_prev"
      BY <1>0, <1>2 DEF Locked
    <2>3. cell'[order'[1]].prev = Null
      BY <1>0, <1>5, <1>t DEF Forwards
    <2>4. ASSUME NEW i \in 2 .. Len(order')
          PROVE  cell'[order'[i]].prev = order'[i - 1]
      <3>1. CASE i = 2
        <4>1. order'[2] = order[1] /\ Len(order) > 0
          BY <1>5, <1>l, <3>1
        <4>2. cell[order[1]].prev = c
          BY <1>0, <1>t, <4>1 DEF Backwards
        <4> QED  BY <1>0, <1>5, <3>1, <4>1, <4>2
      <3>2. CASE i # 2
        <4>0. i - 1 \in 2 .. Len(order) /\ i - 1 \in 2 .. Len(order')
          BY <1>5, <1>l, <3>2
        <4>1. order'[i] = order[i - 1] /\ order'[i - 1] = order[(i - 1) - 1]
          BY <1>5, <4>0
        <4>2. cell[order[i - 1]].prev = order[(i - 1) - 1]
          BY <1>t, <2>2, <4>0 DEF Backwards
        <4> QED  BY <1>0, <4>1, <4>2
      <3> QED  BY <3>1, <3>2
    <2> QED  BY <2>1, <2>3, <2>4 DEF Backwards
  <1>11. Counted'
    <2>1. nconns = Len(order)
      BY <1>0, <1>2, <1>t DEF Counted, Locked
    <2> QED  BY <1>0, <1>2, <1>5, <1>l, <2>1 DEF Counted, Locked
  <1> QED  BY <1>1, <1>6, <1>7, <1>8, <1>9, <1>10, <1>11 DEF Inv

\* A backend goes on, and leaves the list and the entries alone.
LEMMA MoveInv ==
    ASSUME Inv, NEW b \in Backends, NEW q \in Owning, pc[b] \in Owning,
           pc' = [pc EXCEPT ![b] = q],
           UNCHANGED <<up, first, cell, alloc, info, killed, tool, order>>, nconns' \in Nat,
           pc[b] \in Linked <=> q \in Linked,
           pc[b] \notin {"a_prev", "a_first", "s_prev"}, q \notin {"a_prev", "a_first", "s_prev"},
           Mutex', Walks', Counted'
    PROVE  Inv'
  <1>t. Types /\ Owners /\ Distinct /\ Forwards /\ Backwards
    BY DEF Inv
  <1>1. pc'[b] = q /\ \A x \in Backends \ {b} : pc'[x] = pc[x]
    BY <1>t DEF Types
  <1>2. Types'
    BY <1>t DEF Types, Owning
  <1>3. Owners'
    BY <1>1, <1>t DEF Owners
  <1>4. Distinct'
    BY <1>t DEF Distinct
  <1>5. Forwards'
    BY <1>1, <1>t DEF Forwards
  <1>6. Backwards'
    <2>1. \A x \in Backends : /\ pc'[x] = "a_first" <=> pc[x] = "a_first"
                              /\ pc'[x] = "s_prev" <=> pc[x] = "s_prev"
      BY <1>1
    <2> QED  BY <1>t, <2>1 DEF Backwards
  <1> QED  BY <1>2, <1>3, <1>4, <1>5, <1>6 DEF Inv

\* nconns catches up with the list.
LEMMA AddCountInv ==
    ASSUME Inv, NEW b \in Backends, AddCount(b)
    PROVE  Inv'
  <1>0. /\ pc[b] = "a_count" /\ pc' = [pc EXCEPT ![b] = "a_unlock"] /\ mutex' = mutex
        /\ nconns' = nconns + 1
        /\ UNCHANGED <<up, first, cell, alloc, info, killed, tool, order>>
    BY DEF AddCount, Goto
  <1>t. Types /\ Mutex /\ Counted /\ Walks
    BY DEF Inv
  <1>m. mutex = b
    BY <1>0, <1>t DEF Mutex, Locked
  <1>1. Mutex' /\ Walks'
    BY <1>0, <1>m, <1>t, MutexStep DEF Types, Locked
  <1>2. pc'[b] = "a_unlock" /\ \A x \in Backends \ {b} : pc'[x] = pc[x] /\ pc[x] \notin Locked
    BY <1>0, <1>m, <1>t, Alone DEF Types
  <1>3. nconns' = Len(order') /\ nconns' \in Nat
    BY <1>0, <1>t DEF Counted, Types
  <1>4. Counted'
    BY <1>2, <1>3 DEF Counted, Locked
  <1> QED  BY <1>0, <1>1, <1>3, <1>4, MoveInv DEF Owning, Linked, BackendPc

\* The client is connected: its entry is in the list, and the mutex is given back.
LEMMA AddUnlockInv ==
    ASSUME Inv, NEW b \in Backends, AddUnlock(b)
    PROVE  Inv'
  <1>0. /\ pc[b] = "a_unlock" /\ pc' = [pc EXCEPT ![b] = "connected"] /\ mutex' = Free
        /\ UNCHANGED <<up, first, nconns, cell, alloc, info, killed, tool, order>>
    BY DEF AddUnlock, Goto, log
  <1>t. Types /\ Mutex /\ Counted /\ Walks
    BY DEF Inv
  <1>m. mutex = b
    BY <1>0, <1>t DEF Mutex, Locked
  <1>1. Mutex' /\ Walks'
    BY <1>0, <1>m, <1>t, MutexStep DEF Types, Locked
  <1>2. pc'[b] = "connected" /\ \A x \in Backends \ {b} : pc'[x] = pc[x] /\ pc[x] \notin Locked
    BY <1>0, <1>m, <1>t, Alone DEF Types
  <1>3. Counted'
    BY <1>0, <1>2, <1>t DEF Counted, Locked
  <1> QED  BY <1>0, <1>1, <1>3, <1>t, MoveInv DEF Owning, Linked, BackendPc, Types

\* A connected backend quits or crashes, whatever the others do; a status that
\* walks the list has one connected client less to see.
LEMMA LeaveInv ==
    ASSUME Inv, NEW b \in Backends, Quit(b) \/ Crash(b)
    PROVE  Inv'
  <1> DEFINE q == pc'[b]
  <1>t. Types /\ Mutex /\ Counted /\ Walks
    BY DEF Inv
  <1>0. /\ pc[b] = "connected" /\ q \in {"quit", "dead"} /\ pc' = [pc EXCEPT ![b] = q]
        /\ UNCHANGED <<up, first, nconns, cell, alloc, info, killed, tool, order, mutex>>
    BY <1>t DEF Quit, Crash, Goto, log, Types
  <1> HIDE DEF q
  <1>1. pc'[b] = q /\ \A x \in Backends \ {b} : pc'[x] = pc[x]
    BY <1>0, <1>t DEF Types
  <1>2. Mutex'
    BY <1>0, <1>1, <1>t DEF Mutex, Locked
  <1>3. \A x \in Backends : pc'[x] = "connected" => pc[x] = "connected"
    BY <1>0, <1>1
  <1>4. \A t \in Tools, k \in Nat : SeenFrom(t, k) => SeenFrom(t, k)'
    BY <1>0, <1>3 DEF SeenFrom
  <1>5. Walks'
    <2>1. \A k : At(k)' = At(k)
      BY <1>0 DEF At
    <2>2. \A k \in 0 .. Len(order) : k \in Nat
      BY <1>t DEF Types
    <2>3. ASSUME NEW t \in Tools, Walk(t) PROVE Walk(t)'
      BY <1>0, <1>4, <2>1, <2>2, <2>3 DEF Walk
    <2> QED  BY <1>0, <1>t, <2>3 DEF Walks
  <1>6. Counted'
    BY <1>0, <1>1, <1>t DEF Counted
  <1> QED  BY <1>0, <1>2, <1>5, <1>6, <1>t, MoveInv DEF Owning, Linked, BackendPc, Types

\* SessionLog::suppress: the mutex.
LEMMA SupLockInv ==
    ASSUME Inv, NEW b \in Backends, SupLock(b)
    PROVE  Inv'
  <1>0. /\ pc[b] = "quit" /\ pc' = [pc EXCEPT ![b] = "s_next"] /\ mutex = Free /\ mutex' = b
        /\ UNCHANGED <<up, first, nconns, cell, alloc, info, killed, tool, order>>
    BY DEF SupLock, Goto, log
  <1>t. Types /\ Mutex /\ Counted /\ Walks
    BY DEF Inv
  <1>1. Mutex' /\ Walks'
    BY <1>0, <1>t, MutexStep DEF Types, Locked
  <1>2. pc'[b] = "s_next" /\ \A x \in Backends \ {b} : pc'[x] = pc[x]
    BY <1>0, <1>t DEF Types
  <1>3. Counted'
    BY <1>0, <1>2, <1>t DEF Counted
  <1> QED  BY <1>0, <1>1, <1>3, <1>t, MoveInv DEF Owning, Linked, BackendPc, Types

\* nconns catches up with the list from which the entry was taken.
LEMMA SupCountInv ==
    ASSUME Inv, NEW b \in Backends, SupCount(b)
    PROVE  Inv'
  <1>0. /\ pc[b] = "s_count" /\ pc' = [pc EXCEPT ![b] = "s_unlock"] /\ mutex' = mutex
        /\ nconns' = nconns - 1
        /\ UNCHANGED <<up, first, cell, alloc, info, killed, tool, order>>
    BY DEF SupCount, Goto
  <1>t. Types /\ Mutex /\ Counted /\ Walks
    BY DEF Inv
  <1>m. mutex = b
    BY <1>0, <1>t DEF Mutex, Locked
  <1>1. Mutex' /\ Walks'
    BY <1>0, <1>m, <1>t, MutexStep DEF Types, Locked
  <1>2. pc'[b] = "s_unlock" /\ \A x \in Backends \ {b} : pc'[x] = pc[x] /\ pc[x] \notin Locked
    BY <1>0, <1>m, <1>t, Alone DEF Types
  <1>3. nconns' = Len(order') /\ nconns' \in Nat
    BY <1>0, <1>t DEF Counted, Types
  <1>4. Counted'
    BY <1>2, <1>3 DEF Counted, Locked
  <1> QED  BY <1>0, <1>1, <1>3, <1>4, MoveInv DEF Owning, Linked, BackendPc

\* The mutex and the entry are given back: the entry is in the list no more.
LEMMA SupUnlockInv ==
    ASSUME Inv, NEW b \in Backends, SupUnlock(b)
    PROVE  Inv'
  <1>0. /\ pc[b] = "s_unlock" /\ pc' = [pc EXCEPT ![b] = "gone"] /\ mutex' = Free
        /\ alloc' = alloc \ {info[b]}
        /\ UNCHANGED <<up, first, nconns, cell, info, killed, tool, order>>
    BY DEF SupUnlock, Goto
  <1>t. Types /\ Mutex /\ Owners /\ Distinct /\ Forwards /\ Backwards /\ Counted /\ Walks
    BY DEF Inv
  <1>m. mutex = b
    BY <1>0, <1>t DEF Mutex, Locked
  <1>1. Mutex' /\ Walks'
    BY <1>0, <1>m, <1>t, MutexStep DEF Types, Locked
  <1>2. pc'[b] = "gone" /\ \A x \in Backends \ {b} : pc'[x] = pc[x] /\ pc[x] \notin Locked
    BY <1>0, <1>m, <1>t, Alone DEF Types
  <1>3. pc[b] \in Owning /\ "gone" \notin Owning /\ "gone" \notin Linked /\ pc[b] \notin Linked
    BY <1>0 DEF Owning, Linked, BackendPc
  <1>4. \A x \in Backends \ {b} : pc[x] \in Owning => info[x] # info[b]
    BY <1>3, <1>t, OwnEntry
  <1>5. Types'
    BY <1>0, <1>t DEF Types, BackendPc
  <1>6. Owners'
    BY <1>0, <1>2, <1>3, <1>4, <1>t DEF Owners
  <1>7. Distinct' /\ Forwards'
    BY <1>0, <1>2, <1>t DEF Distinct, Forwards
  <1>8. Backwards'
    <2>1. \A x \in Backends : /\ pc'[x] = "a_first" <=> pc[x] = "a_first"
                              /\ pc'[x] = "s_prev" <=> pc[x] = "s_prev"
      BY <1>0, <1>2
    <2> QED  BY <1>0, <1>t, <2>1 DEF Backwards
  <1>9. Counted'
    BY <1>0, <1>2, <1>t DEF Counted, Locked
  <1> QED  BY <1>1, <1>5, <1>6, <1>7, <1>8, <1>9 DEF Inv

\* What a backend without an entry does, while the others may be inside add or
\* suppress and status may walk: what they read is the same.
LEMMA AsideWalks ==
    ASSUME Inv, NEW b \in Backends, pc[b] = "start", NEW q \in {"alloc", "refused"},
           pc' = [pc EXCEPT ![b] = q], \A x \in Backends \ {b} : info'[x] = info[x],
           UNCHANGED <<first, mutex, tool, order>>
    PROVE  Mutex' /\ Walks'
  <1>t. Types /\ Mutex /\ Walks
    BY DEF Inv
  <1>1. pc'[b] = q /\ \A x \in Backends \ {b} : pc'[x] = pc[x]
    BY <1>t DEF Types
  <1>2. Mutex'
    BY <1>1, <1>t DEF Mutex, Locked
  <1>3. \A x \in Backends : pc'[x] = "connected" => pc[x] = "connected" /\ info'[x] = info[x]
    BY <1>1
  <1>4. \A t \in Tools, k \in Nat : SeenFrom(t, k) => SeenFrom(t, k)'
    BY <1>3 DEF SeenFrom
  <1>5. Walks'
    <2>1. \A k : At(k)' = At(k)
      BY DEF At
    <2>2. \A k \in 0 .. Len(order) : k \in Nat
      BY <1>t DEF Types
    <2>3. ASSUME NEW t \in Tools, Walk(t) PROVE Walk(t)'
      BY <1>4, <2>1, <2>2, <2>3 DEF Walk
    <2> QED  BY <1>t, <2>3 DEF Walks
  <1> QED  BY <1>2, <1>5

\* XMAlloc: the entry that is given out is in nobody's hands and not in the list.
LEMMA AllocInv ==
    ASSUME Inv, NEW b \in Backends, Alloc(b)
    PROVE  Inv'
  <1>t. Types /\ Mutex /\ Owners /\ Distinct /\ Forwards /\ Backwards /\ Counted /\ Walks
    BY DEF Inv
  <1>s. pc[b] = "start" /\ UNCHANGED <<up, first, nconns, mutex, killed, tool, order>>
    BY DEF Alloc, Goto
  <1>1. CASE pc' = [pc EXCEPT ![b] = "refused"] /\ UNCHANGED <<cell, alloc, info>>
    <2>1. pc'[b] = "refused" /\ \A x \in Backends \ {b} : pc'[x] = pc[x]
      BY <1>1, <1>t DEF Types
    <2>2. Mutex' /\ Walks'
      BY <1>1, <1>s, AsideWalks
    <2>3. Types'
      BY <1>1, <1>s, <1>t DEF Types, BackendPc
    <2>4. Owners'
      <3>1. "refused" \notin Owning /\ "refused" \notin Linked /\ "start" \notin Linked
        BY DEF Owning, Linked
      <3> QED  BY <1>1, <1>s, <1>t, <2>1, <3>1 DEF Owners
    <2>5. Distinct' /\ Forwards' /\ Counted'
      BY <1>1, <1>s, <1>t, <2>1 DEF Distinct, Forwards, Counted
    <2>6. Backwards'
      <3>1. \A x \in Backends : /\ pc'[x] = "a_first" <=> pc[x] = "a_first"
                                /\ pc'[x] = "s_prev" <=> pc[x] = "s_prev"
        BY <1>s, <2>1
      <3> QED  BY <1>1, <1>s, <1>t, <3>1 DEF Backwards
    <2> QED  BY <2>2, <2>3, <2>4, <2>5, <2>6 DEF Inv
  <1>2. ASSUME NEW c \in Cells \ alloc, alloc' = alloc \cup {c}, info' = [info EXCEPT ![b] = c],
               pc' = [pc EXCEPT ![b] = "alloc"],
               cell' = [cell EXCEPT ![c] = [next |-> Null, prev |-> Null, pid |-> b]]
        PROVE  Inv'
    <2>1. /\ pc'[b] = "alloc" /\ info'[b] = c
          /\ \A x \in Backends \ {b} : pc'[x] = pc[x] /\ info'[x] = info[x]
      BY <1>2, <1>t DEF Types
    <2>2. Mutex' /\ Walks'
      BY <1>2, <1>s, <2>1, AsideWalks
    <2>3. /\ cell' \in [Cells -> Entry] /\ cell'[c].pid = b
          /\ \A d \in Cells \ {c} : cell'[d] = cell[d]
      BY <1>2, <1>t DEF Types, Entry
    <2>4. \A x \in Backends \ {b} : pc[x] \in Owning => info[x] # c /\ info[x] \in Cells
      BY <1>2, <1>t DEF Owners
    <2>5. \A i \in 1 .. Len(order) : order[i] # c /\ order[i] \in Cells
      <3>1. "start" \notin Linked /\ Linked \subseteq Owning
        BY DEF Linked, Owning, BackendPc
      <3> QED  BY <1>s, <1>t, <2>4, <3>1 DEF Owners, Types
    <2>6. Types'
      BY <1>2, <1>s, <1>t, <2>3 DEF Types, BackendPc
    <2>7. Owners'
      <3>1. "alloc" \notin Linked /\ "start" \notin Linked
        BY DEF Linked
      <3>2. \A x \in Backends : pc'[x] \in Owning =>
               info'[x] \in alloc' /\ info'[x] \in Cells /\ cell'[info'[x]].pid = x
        BY <1>2, <1>t, <2>1, <2>3, <2>4 DEF Owners
      <3>3. \A x \in Backends : pc'[x] \in Linked => pc[x] \in Linked /\ info'[x] = info[x]
        BY <2>1, <3>1
      <3>4. \A x \in Backends : pc[x] \in Linked => pc'[x] \in Linked /\ info'[x] = info[x]
        BY <1>s, <2>1, <3>1
      <3> QED  BY <1>s, <1>t, <3>2, <3>3, <3>4 DEF Owners
    <2>8. Distinct' /\ Counted'
      BY <1>s, <1>t, <2>1 DEF Distinct, Counted
    <2>9. Forwards'
      <3>1. \A x \in Backends : pc'[x] \in {"a_prev", "a_first"} =>
               /\ pc[x] \in {"a_prev", "a_first"} /\ info'[x] = info[x]
               /\ cell'[info[x]] = cell[info[x]]
        BY <2>1, <2>3, <2>4 DEF Owning, BackendPc
      <3>2. \A i \in 1 .. Len(order) : cell'[order[i]] = cell[order[i]]
        BY <2>3, <2>5
      <3> QED  BY <1>s, <1>t, <3>1, <3>2 DEF Forwards
    <2>10. Backwards'
      <3>1. \A x \in Backends : /\ pc'[x] = "a_first" <=> pc[x] = "a_first"
                                /\ pc'[x] = "s_prev" <=> pc[x] = "s_prev"
                                /\ pc[x] \in {"a_first", "s_prev"} =>
                                      info'[x] = info[x] /\ cell'[info[x]] = cell[info[x]]
        BY <1>s, <2>1, <2>3, <2>4 DEF Owning, BackendPc
      <3>2. \A i \in 1 .. Len(order) : cell'[order[i]] = cell[order[i]]
        BY <2>3, <2>5
      <3>3. \A i \in 2 .. Len(order) : i \in 1 .. Len(order)
        BY <1>t DEF Types
      <3>4. Len(order) > 0 => 1 \in 1 .. Len(order)
        BY <1>t DEF Types
      <3> QED  BY <1>s, <1>t, <3>1, <3>2, <3>3, <3>4 DEF Backwards
    <2> QED  BY <2>2, <2>6, <2>7, <2>8, <2>9, <2>10 DEF Inv
  <1> QED  BY <1>1, <1>2 DEF Alloc, Goto

\* Where the entry of a backend that is in the list is.
LEMMA PlaceOf ==
    ASSUME Inv, NEW b \in Backends, pc[b] \in Linked
    PROVE  \E k \in 1 .. Len(order) : order[k] = info[b]
  BY DEF Inv, Owners

\* SessionLog::suppress: the entry after this one gets this one's conn_prev.
LEMMA SupNextInv ==
    ASSUME Inv, NEW b \in Backends, SupNext(b)
    PROVE  Inv'
  <1> DEFINE c == info[b]
             e == cell[c]
  <1>0. /\ pc[b] = "s_next" /\ pc' = [pc EXCEPT ![b] = "s_prev"] /\ mutex' = mutex
        /\ cell' = IF e.next # Null THEN [cell EXCEPT ![e.next].prev = e.prev] ELSE cell
        /\ UNCHANGED <<up, first, nconns, alloc, info, killed, tool, order>>
    BY DEF SupNext, Goto
  <1>t. Types /\ Mutex /\ Owners /\ Distinct /\ Forwards /\ Backwards /\ Counted /\ Walks
    BY DEF Inv
  <1>m. mutex = b
    BY <1>0, <1>t DEF Mutex, Locked
  <1>1. Mutex' /\ Walks'
    BY <1>0, <1>m, <1>t, MutexStep DEF Types, Locked
  <1>2. pc'[b] = "s_prev" /\ \A x \in Backends \ {b} : pc'[x] = pc[x] /\ pc[x] \notin Locked
    BY <1>0, <1>m, <1>t, Alone DEF Types
  <1>3. c \in Cells /\ c \in alloc /\ e.pid = b /\ cell \in [Cells -> Entry]
    BY <1>0, <1>t DEF Owners, Types, Owning, BackendPc
  <1>l. Len(order) \in Nat /\ \A i \in 1 .. Len(order) : order[i] \in Cells /\ order[i] # Null
    BY <1>t, SessionAssumption DEF Types, Cells, Null
  <1>4. PICK k \in 1 .. Len(order) : order[k] = c
    BY <1>0, PlaceOf DEF Linked
  <1>5. e.next = IF k = Len(order) THEN Null ELSE order[k + 1]
    BY <1>4, <1>t DEF Forwards
  <1>6. /\ cell' \in [Cells -> Entry]
        /\ \A d \in Cells : cell'[d].pid = cell[d].pid /\ cell'[d].next = cell[d].next
        /\ \A d \in Cells : d # e.next => cell'[d] = cell[d]
        /\ k < Len(order) => cell'[order[k + 1]].prev = e.prev
    <2>1. CASE k = Len(order)
      BY <1>0, <1>3, <1>5, <2>1
    <2>2. CASE k # Len(order)
      <3>1. k + 1 \in 1 .. Len(order) /\ e.next = order[k + 1]
        BY <1>4, <1>5, <1>l, <2>2
      <3>2. e.next \in Cells /\ e.next # Null /\ e.prev \in Cells \cup {Null}
        BY <1>3, <1>l, <3>1 DEF Entry
      <3>3. cell' = [cell EXCEPT ![e.next].prev = e.prev]
        BY <1>0, <3>2
      <3> QED  BY <1>3, <3>1, <3>2, <3>3 DEF Entry
    <2> QED  BY <2>1, <2>2
  <1>7. Types'
    BY <1>0, <1>6, <1>t DEF Types, BackendPc
  <1>8. Owners'
    <2>1. \A x \in Backends : /\ pc'[x] \in Owning <=> pc[x] \in Owning
                              /\ pc'[x] \in Linked <=> pc[x] \in Linked
      BY <1>0, <1>2 DEF Owning, Linked, BackendPc
    <2> QED  BY <1>0, <1>6, <1>t, <2>1 DEF Owners
  <1>9. Distinct'
    BY <1>0, <1>t DEF Distinct
  <1>10. Forwards'
    BY <1>0, <1>2, <1>6, <1>l, <1>t DEF Forwards, Locked
  <1>11. Backwards'
    <2>1. \A x \in Backends : (pc'[x] = "s_prev" <=> x = b) /\ pc'[x] # "a_first"
      BY <1>2 DEF Locked
    <2>2. \A x \in Backends : pc[x] # "s_prev" /\ pc[x] # "a_first"
      BY <1>0, <1>2 DEF Locked
    <2>3. \A i \in 1 .. Len(order) : i # k + 1 => cell'[order[i]] = cell[order[i]]
      <3> TAKE i \in 1 .. Len(order)
      <3>1. k + 1 \in 1 .. Len(order) => (order[i] = order[k + 1] => i = k + 1)
        BY <1>t DEF Distinct
      <3> QED  BY <1>4, <1>5, <1>6, <1>l, <3>1
    <2>4. Len(order) > 0 => cell'[order[1]].prev = Null
      <3>1. 1 # k + 1
        BY <1>4
      <3>2. Len(order) > 0 => cell[order[1]].prev = Null
        BY <1>t, <2>2 DEF Backwards
      <3> QED  BY <1>l, <2>3, <3>1, <3>2
    <2>5. \A i \in 2 .. Len(order) : i # k + 1 => cell'[order[i]].prev = order[i - 1]
      BY <1>l, <1>t, <2>2, <2>3 DEF Backwards
    <2>6. \A i \in 2 .. Len(order) : order[i - 1] = c <=> i = k + 1
      <3> TAKE i \in 2 .. Len(order)
      <3>1. i - 1 \in 1 .. Len(order)
        BY <1>l
      <3> QED  BY <1>4, <1>l, <1>t, <3>1 DEF Distinct
    <2>7. c # e.next /\ cell'[c] = cell[c]
      <3>1. k < Len(order) => order[k + 1] # order[k]
        BY <1>4, <1>l, <1>t DEF Distinct
      <3>2. c # e.next
        BY <1>4, <1>5, <1>l, <3>1
      <3> QED  BY <1>3, <1>6, <3>2
    <2>8. ASSUME NEW i \in 2 .. Len(order)
          PROVE  IF order[i - 1] = c THEN cell'[order[i]].prev = cell'[c].prev
                 ELSE cell'[order[i]].prev = order[i - 1]
      BY <1>4, <1>6, <1>l, <2>5, <2>6, <2>7
    <2>9. order' = order /\ info' = info
      BY <1>0
    <2> QED  BY <2>1, <2>4, <2>8, <2>9 DEF Backwards
  <1>12. Counted'
    BY <1>0, <1>2, <1>t DEF Counted, Locked
  <1> QED  BY <1>1, <1>7, <1>8, <1>9, <1>10, <1>11, <1>12 DEF Inv

\* The entry is taken out of the list: the one before it, or conn_first, skips it.
LEMMA SupPrevInv ==
    ASSUME Inv, NEW b \in Backends, SupPrev(b)
    PROVE  Inv'
  <1> DEFINE c == info[b]
             e == cell[c]
             n == Len(order) - 1
  <1>0. /\ pc[b] = "s_prev" /\ pc' = [pc EXCEPT ![b] = "s_count"] /\ mutex' = mutex
        /\ IF e.prev # Null THEN cell' = [cell EXCEPT ![e.prev].next = e.next] /\ first' = first
           ELSE first' = e.next /\ cell' = cell
        /\ order' = Drop(order, c)
        /\ UNCHANGED <<up, nconns, alloc, info, killed, tool>>
    BY DEF SupPrev, Goto
  <1>t. Types /\ Mutex /\ Owners /\ Distinct /\ Forwards /\ Backwards /\ Counted /\ Walks
    BY DEF Inv
  <1>m. mutex = b
    BY <1>0, <1>t DEF Mutex, Locked
  <1>1. Mutex' /\ Walks'
    BY <1>0, <1>m, <1>t, MutexStep DEF Types, Locked
  <1>2. pc'[b] = "s_count" /\ \A x \in Backends \ {b} : pc'[x] = pc[x] /\ pc[x] \notin Locked
    BY <1>0, <1>m, <1>t, Alone DEF Types
  <1>3. c \in Cells /\ c \in alloc /\ e.pid = b /\ cell \in [Cells -> Entry]
    BY <1>0, <1>t DEF Owners, Types, Owning, BackendPc
  <1>l. /\ Len(order) \in Nat /\ order \in Seq(Cells)
        /\ \A i \in 1 .. Len(order) : order[i] \in Cells /\ order[i] # Null
    BY <1>t, SessionAssumption DEF Types, Cells, Null
  <1>4. PICK k \in 1 .. Len(order) : order[k] = c
    BY <1>0, PlaceOf DEF Linked
  <1>5. e.next = IF k = Len(order) THEN Null ELSE order[k + 1]
    BY <1>4, <1>t DEF Forwards
  <1>6. \A i \in 1 .. Len(order) : order[i] = c => i = k
    BY <1>4, <1>t DEF Distinct
  <1>7. /\ order' \in Seq(Cells) /\ Len(order') = n /\ n \in Nat
        /\ \A i \in 1 .. n : order'[i] = IF i < k THEN order[i] ELSE order[i + 1]
    BY <1>0, <1>4, <1>l, <1>t, DropIs DEF Distinct
  <1>8. \A x \in Backends : (pc[x] = "s_prev" <=> x = b) /\ pc[x] # "a_first"
    BY <1>0, <1>2 DEF Locked
  <1>9. /\ cell[order[1]].prev = Null
        /\ \A i \in 2 .. Len(order) : i # k + 1 => cell[order[i]].prev = order[i - 1]
        /\ k < Len(order) => cell[order[k + 1]].prev = e.prev
    <2>1. Len(order) > 0
      BY <1>4, <1>l
    <2>2. cell[order[1]].prev = Null
      BY <1>8, <1>t, <2>1 DEF Backwards
    <2>3. ASSUME NEW i \in 2 .. Len(order), i # k + 1 PROVE cell[order[i]].prev = order[i - 1]
      <3>1. i - 1 \in 1 .. Len(order) /\ i - 1 # k
        BY <1>4, <1>l, <2>3
      <3>2. order[i - 1] # c
        BY <1>6, <3>1
      <3> QED  BY <1>8, <1>t, <3>2 DEF Backwards
    <2>4. k < Len(order) => cell[order[k + 1]].prev = e.prev
      <3>1. SUFFICES ASSUME k < Len(order) PROVE cell[order[k + 1]].prev = e.prev
        OBVIOUS
      <3>2. k + 1 \in 2 .. Len(order) /\ (k + 1) - 1 = k
        BY <1>4, <1>l, <3>1
      <3>3. pc[b] = "s_prev" /\ info[b] = order[(k + 1) - 1]
        BY <1>0, <1>4, <3>2
      <3>4. \A i \in 2 .. Len(order) : \A x \in Backends :
              pc[x] = "s_prev" /\ info[x] = order[i - 1] => cell[order[i]].prev = cell[info[x]].prev
        BY <1>t DEF Backwards
      <3> QED  BY <3>2, <3>3, <3>4
    <2> QED  BY <2>2, <2>3, <2>4
  <1>10. e.prev = IF k = 1 THEN Null ELSE order[k - 1]
    <2>1. k # 1 => k \in 2 .. Len(order) /\ k # k + 1
      BY <1>4, <1>l
    <2> QED  BY <1>4, <1>9, <2>1
  <1>11. /\ cell' \in [Cells -> Entry]
         /\ \A d \in Cells : cell'[d].pid = cell[d].pid /\ cell'[d].prev = cell[d].prev
         /\ \A d \in Cells : d # e.prev => cell'[d] = cell[d]
         /\ k > 1 => cell'[order[k - 1]].next = e.next /\ first' = first
         /\ k = 1 => first' = e.next
    <2>1. CASE k = 1
      BY <1>0, <1>3, <1>10, <2>1
    <2>2. CASE k # 1
      <3>1. k - 1 \in 1 .. Len(order) /\ e.prev = order[k - 1]
        BY <1>4, <1>10, <1>l, <2>2
      <3>2. e.prev \in Cells /\ e.prev # Null /\ e.next \in Cells \cup {Null}
        BY <1>3, <1>l, <3>1 DEF Entry
      <3>3. cell' = [cell EXCEPT ![e.prev].next = e.next] /\ first' = first
        BY <1>0, <3>2
      <3> QED  BY <1>3, <2>2, <3>1, <3>2, <3>3 DEF Entry
    <2> QED  BY <2>1, <2>2
  <1>12. first' = IF n = 0 THEN Null ELSE order'[1]
    <2>1. CASE k = 1
      BY <1>4, <1>5, <1>7, <1>11, <1>l, <2>1
    <2>2. CASE k # 1
      <3>1. first' = order[1] /\ n # 0 /\ 1 \in 1 .. n /\ 1 < k
        BY <1>4, <1>11, <1>l, <1>t, <2>2 DEF Forwards
      <3> QED  BY <1>7, <3>1
    <2> QED  BY <2>1, <2>2
  <1>13. Types'
    <2>1. first' \in Cells \cup {Null}
      BY <1>7, <1>12
    <2> QED  BY <1>0, <1>7, <1>11, <1>t, <2>1 DEF Types, BackendPc
  <1>14. Distinct'
    <2>1. SUFFICES ASSUME NEW i \in 1 .. n, NEW j \in 1 .. n, order'[i] = order'[j] PROVE i = j
      BY <1>7 DEF Distinct
    <2>2. i \in 1 .. Len(order) /\ i + 1 \in 1 .. Len(order)
      BY <1>l
    <2>3. j \in 1 .. Len(order) /\ j + 1 \in 1 .. Len(order)
      BY <1>l
    <2>4. \A x, y \in 1 .. Len(order) : order[x] = order[y] => x = y
      BY <1>t DEF Distinct
    <2>5. CASE i < k /\ j < k
      BY <1>7, <2>1, <2>2, <2>3, <2>4, <2>5
    <2>6. CASE i < k /\ ~(j < k)
      <3>1. order[i] = order[j + 1]
        BY <1>7, <2>1, <2>6
      <3>2. i = j + 1
        BY <2>2, <2>3, <2>4, <3>1
      <3> QED  BY <1>4, <2>6, <3>2
    <2>7. CASE ~(i < k) /\ j < k
      <3>1. order[i + 1] = order[j]
        BY <1>7, <2>1, <2>7
      <3>2. i + 1 = j
        BY <2>2, <2>3, <2>4, <3>1
      <3> QED  BY <1>4, <2>7, <3>2
    <2>8. CASE ~(i < k) /\ ~(j < k)
      <3>1. order[i + 1] = order[j + 1]
        BY <1>7, <2>1, <2>8
      <3>2. i + 1 = j + 1
        BY <2>2, <2>3, <2>4, <3>1
      <3> QED  BY <3>2
    <2> QED  BY <2>5, <2>6, <2>7, <2>8
  <1>15. Owners'
    <2>1. pc[b] \in Linked /\ pc'[b] \in Owning /\ pc'[b] \notin Linked
      BY <1>0, <1>2 DEF Linked, Owning, BackendPc
    <2>2. \A x \in Backends : pc'[x] \in Owning =>
             info'[x] \in alloc' /\ info'[x] \in Cells /\ cell'[info'[x]].pid = x
      BY <1>0, <1>2, <1>3, <1>11, <1>t DEF Owners
    <2>3. ASSUME NEW x \in Backends, pc'[x] \in Linked
          PROVE  \E i \in 1 .. Len(order') : order'[i] = info'[x]
      <3>1. x # b /\ pc[x] \in Linked
        BY <1>2, <2>1, <2>3
      <3>2. PICK i \in 1 .. Len(order) : order[i] = info[x]
        BY <1>t, <3>1 DEF Owners
      <3>3. info[x] # c
        BY <1>t, <2>1, <3>1, OwnEntry, Places
      <3>4. i # k
        BY <1>4, <3>2, <3>3
      <3>5. CASE i < k
        <4>1. i \in 1 .. n /\ order'[i] = order[i]
          BY <1>4, <1>7, <1>l, <3>5
        <4> QED  BY <1>0, <1>7, <3>2, <4>1
      <3>6. CASE i > k
        <4>1. i - 1 \in 1 .. n /\ ~(i - 1 < k) /\ (i - 1) + 1 = i
          BY <1>4, <1>7, <1>l, <3>6
        <4>2. order'[i - 1] = order[i]
          BY <1>7, <4>1
        <4> QED  BY <1>0, <1>7, <3>2, <4>1, <4>2
      <3> QED  BY <3>4, <3>5, <3>6
    <2>4. ASSUME NEW i \in 1 .. Len(order')
          PROVE  \E x \in Backends : pc'[x] \in Linked /\ order'[i] = info'[x]
      <3>1. PICK j \in 1 .. Len(order) : order'[i] = order[j] /\ j # k
        <4>1. i \in 1 .. n /\ i \in 1 .. Len(order) /\ i + 1 \in 1 .. Len(order)
          BY <1>7, <1>l
        <4>2. CASE i < k
          BY <1>7, <4>1, <4>2
        <4>3. CASE ~(i < k)
          BY <1>7, <4>1, <4>3
        <4> QED  BY <4>2, <4>3
      <3>2. PICK x \in Backends : pc[x] \in Linked /\ order[j] = info[x]
        BY <1>t DEF Owners
      <3>3. x # b
        BY <1>6, <3>1, <3>2
      <3> QED  BY <1>0, <1>2, <3>1, <3>2, <3>3
    <2> QED  BY <2>2, <2>3, <2>4 DEF Owners
  <1>16. Forwards'
    <2>1. \A x \in Backends : pc'[x] \notin {"a_prev", "a_first"}
      BY <1>2 DEF Locked
    <2>2. ASSUME NEW i \in 1 .. n
          PROVE  cell'[order'[i]].next = IF i = n THEN Null ELSE order'[i + 1]
      <3>0. i \in 1 .. Len(order) /\ i + 1 \in 1 .. Len(order) /\ (i # n => i + 1 \in 1 .. n)
        BY <1>7, <1>l
      <3>n. \A j \in 1 .. Len(order) : cell[order[j]].next = IF j = Len(order) THEN Null ELSE order[j + 1]
        BY <1>t DEF Forwards
      <3>p. \A j \in 1 .. Len(order) : j # k - 1 => cell'[order[j]] = cell[order[j]]
        <4> TAKE j \in 1 .. Len(order)
        <4>1. k # 1 => k - 1 \in 1 .. Len(order)
          BY <1>4, <1>l
        <4>2. k # 1 /\ order[j] = order[k - 1] => j = k - 1
          BY <1>t, <4>1 DEF Distinct
        <4> QED  BY <1>10, <1>11, <1>l, <4>1, <4>2
      <3>1. CASE i < k - 1
        <4>1. order'[i] = order[i] /\ i # n /\ order'[i + 1] = order[i + 1] /\ i # Len(order) /\ i # k - 1
          BY <1>4, <1>7, <1>l, <3>0, <3>1
        <4> QED  BY <3>0, <3>n, <3>p, <4>1
      <3>2. CASE i = k - 1
        <4>1. order'[i] = order[k - 1] /\ k > 1 /\ (i = n <=> k = Len(order)) /\ i + 1 = k
          BY <1>4, <1>7, <1>l, <3>0, <3>2
        <4>2. cell'[order'[i]].next = IF k = Len(order) THEN Null ELSE order[k + 1]
          BY <1>5, <1>11, <4>1
        <4>3. i # n => order'[i + 1] = order[k + 1]
          BY <1>7, <3>0, <4>1
        <4> QED  BY <4>1, <4>2, <4>3
      <3>3. CASE i > k - 1
        <4>1. order'[i] = order[i + 1] /\ (i = n <=> i + 1 = Len(order)) /\ i + 1 # k - 1
          BY <1>4, <1>7, <1>l, <3>0, <3>3
        <4>2. i # n => order'[i + 1] = order[(i + 1) + 1]
          BY <1>4, <1>7, <1>l, <3>0, <3>3
        <4>3. cell'[order[i + 1]].next = IF i + 1 = Len(order) THEN Null ELSE order[(i + 1) + 1]
          BY <3>0, <3>n, <3>p, <4>1
        <4> QED  BY <4>1, <4>2, <4>3
      <3> QED  BY <1>4, <1>l, <3>1, <3>2, <3>3
    <2> QED  BY <1>7, <1>12, <2>1, <2>2 DEF Forwards
  <1>17. Backwards'
    <2>1. \A x \in Backends : pc'[x] # "s_prev" /\ pc'[x] # "a_first"
      BY <1>2 DEF Locked
    <2>2. \A j \in 1 .. Len(order) : cell'[order[j]].prev = cell[order[j]].prev
      BY <1>11, <1>l
    <2>3. n > 0 => cell'[order'[1]].prev = Null
      <3>1. SUFFICES ASSUME n > 0 PROVE cell'[order'[1]].prev = Null
        OBVIOUS
      <3>2. 1 \in 1 .. n /\ 1 \in 1 .. Len(order) /\ 2 \in 1 .. Len(order)
        BY <1>7, <1>l, <3>1
      <3>3. CASE k = 1
        <4>1. order'[1] = order[k + 1] /\ k + 1 = 2 /\ k < Len(order)
          BY <1>7, <1>l, <3>2, <3>3
        <4> QED  BY <1>9, <1>10, <2>2, <3>2, <3>3, <4>1
      <3>4. CASE k # 1
        <4>1. order'[1] = order[1]
          BY <1>4, <1>7, <1>l, <3>2, <3>4
        <4> QED  BY <1>9, <2>2, <3>2, <4>1
      <3> QED  BY <3>3, <3>4
    <2>4. ASSUME NEW i \in 2 .. n PROVE cell'[order'[i]].prev = order'[i - 1]
      <3>0. /\ i \in 1 .. n /\ i - 1 \in 1 .. n /\ i \in 1 .. Len(order) /\ i + 1 \in 1 .. Len(order)
            /\ i \in 2 .. Len(order) /\ i + 1 \in 2 .. Len(order)
        BY <1>7, <1>l
      <3>1. CASE i < k
        <4>1. order'[i] = order[i] /\ order'[i - 1] = order[i - 1] /\ i # k + 1
          BY <1>4, <1>7, <3>0, <3>1
        <4> QED  BY <1>9, <2>2, <3>0, <4>1
      <3>2. CASE i = k
        <4>1. order'[i] = order[k + 1] /\ order'[i - 1] = order[k - 1] /\ k < Len(order) /\ k # 1
          BY <1>4, <1>7, <1>l, <3>0, <3>2
        <4> QED  BY <1>9, <1>10, <2>2, <3>0, <3>2, <4>1
      <3>3. CASE i > k
        <4>1. order'[i] = order[i + 1] /\ i + 1 # k + 1 /\ (i + 1) - 1 = i
          BY <1>4, <1>7, <3>0, <3>3
        <4>2. order'[i - 1] = order[i]
          <5>1. ~(i - 1 < k) /\ (i - 1) + 1 = i
            BY <1>4, <3>3
          <5> QED  BY <1>7, <3>0, <5>1
        <4>3. cell[order[i + 1]].prev = order[(i + 1) - 1]
          BY <1>9, <3>0, <4>1
        <4> QED  BY <2>2, <3>0, <4>1, <4>2, <4>3
      <3> QED  BY <1>4, <3>1, <3>2, <3>3
    <2> QED  BY <1>7, <2>1, <2>3, <2>4 DEF Backwards
  <1>18. Counted'
    <2>1. nconns = Len(order)
      BY <1>0, <1>2, <1>t DEF Counted, Locked
    <2>2. nconns' = Len(order') + 1
      BY <1>0, <1>7, <1>l, <2>1
    <2> QED  BY <1>2, <2>2 DEF Counted, Locked
  <1> QED  BY <1>1, <1>13, <1>14, <1>15, <1>16, <1>17, <1>18 DEF Inv

-----------------------------------------------------------------------------
(* The steps of eyedbctl, which only reads the list.                        *)

\* A step of eyedbctl that leaves the list and the backends alone.
LEMMA ToolStep ==
    ASSUME Inv, NEW t \in Tools, NEW r \in ToolType, tool' = [tool EXCEPT ![t] = r],
           UNCHANGED <<up, first, nconns, cell, alloc, pc, info, order>>,
           killed' \subseteq Backends \cup {Master}, Mutex', r.cmd = "status" => Walk(t)'
    PROVE  Inv'
  <1>t. Types /\ Mutex /\ Owners /\ Distinct /\ Forwards /\ Backwards /\ Counted /\ Walks
    BY DEF Inv
  <1>1. tool'[t] = r /\ \A u \in Tools \ {t} : tool'[u] = tool[u]
    BY <1>t DEF Types
  <1>2. Types'
    BY <1>t DEF Types
  <1>3. Owners' /\ Distinct' /\ Counted'
    BY <1>t DEF Owners, Distinct, Counted
  <1>4. Forwards' /\ Backwards'
    BY <1>t DEF Forwards, Backwards
  <1>5. ASSUME NEW u \in Tools \ {t}, Walk(u) PROVE Walk(u)'
    <2>1. \A k : SeenFrom(u, k) => SeenFrom(u, k)'
      BY <1>1 DEF SeenFrom
    <2>2. \A k : At(k)' = At(k)
      BY DEF At
    <2> QED  BY <1>1, <1>5, <2>1, <2>2 DEF Walk
  <1>6. Walks'
    BY <1>1, <1>5, <1>t DEF Walks
  <1> QED  BY <1>2, <1>3, <1>4, <1>6 DEF Inv

\* The mutex stays where it is while a tool goes on with its command.
LEMMA ToolMutex ==
    ASSUME Inv, NEW t \in Tools, NEW r \in ToolType, tool' = [tool EXCEPT ![t] = r],
           pc' = pc, mutex' = mutex,
           r.cmd = "status" /\ r.pc \in Walking <=> tool[t].cmd = "status" /\ tool[t].pc \in Walking,
           r.pc \in {"lock", "listed", "down"} => r.cmd = "status",
           r.cmd = "status" => r.pc \in Walking \cup {"lock", "done"}
    PROVE  Mutex'
  <1>t. Types /\ Mutex
    BY DEF Inv
  <1>1. tool'[t] = r /\ \A u \in Tools \ {t} : tool'[u] = tool[u]
    BY <1>t DEF Types
  <1>2. \A u \in Tools : tool'[u].cmd = "status" /\ tool'[u].pc \in Walking <=> mutex' = u
    BY <1>1, <1>t DEF Mutex
  <1> QED  BY <1>1, <1>2, <1>t DEF Mutex

\* While status holds the mutex the list is whole and nconns is its length.
LEMMA Calm ==
    ASSUME Inv, NEW t \in Tools, tool[t].cmd = "status", tool[t].pc \in Walking
    PROVE  /\ Len(order) \in Nat /\ nconns = Len(order)
           /\ \A i \in 1 .. Len(order) : order[i] \in Cells /\ order[i] # Null
           /\ first = IF Len(order) = 0 THEN Null ELSE order[1]
           /\ \A i \in 1 .. Len(order) :
                cell[order[i]].next = IF i = Len(order) THEN Null ELSE order[i + 1]
           /\ \A i \in 1 .. Len(order) : cell[order[i]].prev = At(i - 1)
  <1>t. Types /\ Mutex /\ Owners /\ Distinct /\ Forwards /\ Backwards /\ Counted /\ Walks
    BY DEF Inv
  <1>1. mutex = t
    BY <1>t DEF Mutex
  <1>2. \A b \in Backends : pc[b] \notin Locked
    BY <1>1, <1>t, SessionAssumption DEF Mutex
  <1>3. \A b \in Backends : pc[b] \notin {"a_first", "s_prev", "a_count", "s_count"}
    BY <1>2 DEF Locked
  <1>4. Len(order) \in Nat /\ \A i \in 1 .. Len(order) : order[i] \in Cells /\ order[i] # Null
    BY <1>t, SessionAssumption DEF Types, Cells, Null
  <1>5. nconns = Len(order)
    BY <1>3, <1>t DEF Counted
  <1>6. ASSUME NEW i \in 1 .. Len(order) PROVE cell[order[i]].prev = At(i - 1)
    <2>1. CASE i = 1
      BY <1>3, <1>4, <1>t, <2>1 DEF Backwards, At
    <2>2. CASE i # 1
      <3>1. i \in 2 .. Len(order) /\ i - 1 # 0
        BY <1>4, <2>2
      <3>2. cell[order[i]].prev = order[i - 1]
        BY <1>3, <1>t, <3>1 DEF Backwards
      <3> QED  BY <3>1, <3>2 DEF At
    <2> QED  BY <2>1, <2>2
  <1> QED  BY <1>4, <1>5, <1>6, <1>t DEF Forwards

\* The command starts: eyedbctl stop goes on without the mutex.
LEMMA StartInv ==
    ASSUME Inv, NEW t \in Tools, Start(t)
    PROVE  Inv'
  <1>t. Types /\ Mutex
    BY DEF Inv
  <1>1. PICK cmd \in Commands :
           /\ tool[t].pc = "idle"
           /\ tool' = [tool EXCEPT ![t] = [NoTool EXCEPT !.pc = IF cmd = "status" THEN "lock" ELSE "first",
                                                         !.cmd = cmd, !.before = Connected]]
    BY DEF Start, Step
  <1>2. UNCHANGED <<up, first, nconns, cell, alloc, pc, info, order, mutex, killed>>
    BY DEF Start, log
  <1> DEFINE q == IF cmd = "status" THEN "lock" ELSE "first"
             r == [NoTool EXCEPT !.pc = q, !.cmd = cmd, !.before = Connected]
  <1>3. tool' = [tool EXCEPT ![t] = r]
    BY <1>1
  <1>q. q \in ToolPc /\ (cmd = "status" => q = "lock") /\ (cmd # "status" => q = "first")
    BY DEF ToolPc
  <1> HIDE DEF q
  <1>4. NoTool \in ToolType /\ NoTool.seen = {} /\ NoTool.nb = 0
    BY SessionAssumption DEF ToolType, ToolPc, NoTool
  <1>5. cmd \in CommandNames /\ Connected \in SUBSET Backends
    BY SessionAssumption DEF Connected
  <1>6. r \in ToolType /\ r.cmd = cmd /\ r.pc = q /\ r.seen = {} /\ r.nb = 0
    BY <1>4, <1>5, <1>q DEF ToolType
  <1> HIDE DEF r
  <1>7. tool'[t] = r
    BY <1>3, <1>t DEF Types
  <1>8. tool[t].cmd # "status"
    BY <1>1, <1>t DEF Mutex, Walking
  <1>9. Mutex'
    BY <1>2, <1>3, <1>6, <1>8, <1>q, ToolMutex DEF Walking
  <1>10. r.cmd = "status" => Walk(t)'
    BY <1>6, <1>7, <1>q DEF Walk
  <1> QED  BY <1>2, <1>3, <1>6, <1>9, <1>10, <1>t, ToolStep DEF Types

\* status takes the mutex.
LEMMA DisplayLockInv ==
    ASSUME Inv, NEW t \in Tools, DisplayLock(t)
    PROVE  Inv'
  <1> DEFINE q == IF up THEN "first" ELSE "down"
             r == [tool[t] EXCEPT !.pc = q]
  <1>t. Types /\ Mutex /\ Walks
    BY DEF Inv
  <1>1. /\ tool[t].pc = "lock" /\ tool' = [tool EXCEPT ![t] = r] /\ mutex = Free /\ mutex' = t
        /\ UNCHANGED <<up, first, nconns, cell, alloc, pc, info, order, killed>>
    BY DEF DisplayLock, Step, log
  <1>2. tool[t] \in ToolType /\ tool[t].cmd = "status"
    BY <1>1, <1>t DEF Types, Mutex
  <1>q. q \in {"first", "down"}
    OBVIOUS
  <1> HIDE DEF q
  <1>3. /\ r \in ToolType /\ r.cmd = "status" /\ r.pc \in {"first", "down"}
        /\ r.seen = tool[t].seen /\ r.nb = tool[t].nb
    BY <1>2, <1>q DEF ToolType, ToolPc
  <1> HIDE DEF r
  <1>4. tool'[t] = r /\ \A u \in Tools \ {t} : tool'[u] = tool[u]
    BY <1>1, <1>t DEF Types
  <1>5. \A b \in Backends : mutex' # b /\ mutex # b
    BY <1>1, SessionAssumption, ProcessAssumption
  <1>6. \A u \in Tools : mutex # u /\ (mutex' = u <=> u = t)
    BY <1>1, ProcessAssumption
  <1>7. Mutex'
    <2>1. \A b \in Backends : pc'[b] \in Locked <=> mutex' = b
      BY <1>1, <1>5, <1>t DEF Mutex
    <2>2. \A u \in Tools : tool'[u].cmd = "status" /\ tool'[u].pc \in Walking <=> mutex' = u
      BY <1>3, <1>4, <1>6, <1>t DEF Mutex, Walking
    <2>3. \A u \in Tools : /\ tool'[u].pc \in {"lock", "listed", "down"} => tool'[u].cmd = "status"
                           /\ tool'[u].cmd = "status" => tool'[u].pc \in Walking \cup {"lock", "done"}
      BY <1>3, <1>4, <1>t DEF Mutex, Walking
    <2> QED  BY <1>1, <2>1, <2>2, <2>3 DEF Mutex
  <1>8. Walk(t)'
    <2>1. tool[t].seen = {} /\ tool[t].nb = 0
      BY <1>1, <1>2, <1>t DEF Walks, Walk
    <2> QED  BY <1>3, <1>4, <2>1 DEF Walk
  <1> QED  BY <1>1, <1>3, <1>7, <1>8, <1>t, ToolStep DEF Types

\* The first entry is read.
LEMMA CountFirstInv ==
    ASSUME Inv, NEW t \in Tools, CountFirst(t)
    PROVE  Inv'
  <1> DEFINE r == [tool[t] EXCEPT !.pc = "nconns", !.p = first]
  <1>t. Types /\ Mutex /\ Walks
    BY DEF Inv
  <1>1. /\ tool[t].pc = "first" /\ tool' = [tool EXCEPT ![t] = r] /\ mutex' = mutex
        /\ UNCHANGED <<up, first, nconns, cell, alloc, pc, info, order, killed>>
    BY DEF CountFirst, Step, log
  <1>2. tool[t] \in ToolType
    BY <1>t DEF Types
  <1>3. /\ r \in ToolType /\ r.cmd = tool[t].cmd /\ r.pc = "nconns" /\ r.p = first
        /\ r.seen = tool[t].seen /\ r.nb = tool[t].nb
    BY <1>2, <1>t DEF ToolType, ToolPc, Types
  <1> HIDE DEF r
  <1>4. tool'[t] = r
    BY <1>1, <1>t DEF Types
  <1>5. Mutex'
    BY <1>1, <1>3, ToolMutex DEF Walking
  <1>6. r.cmd = "status" => Walk(t)'
    <2>1. r.cmd = "status" => tool[t].seen = {} /\ tool[t].nb = 0
      BY <1>1, <1>3, <1>t DEF Walks, Walk
    <2> QED  BY <1>1, <1>3, <1>4, <2>1 DEF Walk
  <1> QED  BY <1>1, <1>3, <1>5, <1>6, <1>t, ToolStep DEF Types

\* The number of entries is read: with the mutex, it is the length of the list.
LEMMA CountNconnsInv ==
    ASSUME Inv, NEW t \in Tools, CountNconns(t)
    PROVE  Inv'
  <1> DEFINE m == nconns - 1
             r == [tool[t] EXCEPT !.pc = "forward", !.n = m]
  <1>t. Types /\ Mutex /\ Walks
    BY DEF Inv
  <1>1. /\ tool[t].pc = "nconns" /\ tool' = [tool EXCEPT ![t] = r] /\ mutex' = mutex
        /\ UNCHANGED <<up, first, nconns, cell, alloc, pc, info, order, killed>>
    BY DEF CountNconns, Step, log
  <1>2. tool[t] \in ToolType /\ nconns \in Nat
    BY <1>t DEF Types
  <1>m. m \in Int /\ m = nconns - 1
    BY <1>2
  <1> HIDE DEF m
  <1>3. /\ r \in ToolType /\ r.cmd = tool[t].cmd /\ r.pc = "forward" /\ r.p = tool[t].p
        /\ r.n = m /\ r.seen = tool[t].seen /\ r.nb = tool[t].nb
    BY <1>2, <1>m DEF ToolType, ToolPc
  <1> HIDE DEF r
  <1>4. tool'[t] = r
    BY <1>1, <1>t DEF Types
  <1>5. Mutex'
    BY <1>1, <1>3, ToolMutex DEF Walking
  <1>6. r.cmd = "status" => Walk(t)'
    <2>1. SUFFICES ASSUME tool[t].cmd = "status" PROVE Walk(t)'
      BY <1>3
    <2>2. tool[t].seen = {} /\ tool[t].nb = 0 /\ tool[t].p = first
      BY <1>1, <1>t, <2>1 DEF Walks, Walk
    <2>3. /\ Len(order) \in Nat /\ nconns = Len(order)
          /\ first = IF Len(order) = 0 THEN Null ELSE order[1]
      BY <1>1, <2>1, Calm DEF Walking
    <2>4. CASE Len(order) = 0
      BY <1>1, <1>3, <1>4, <1>m, <2>2, <2>3, <2>4 DEF Walk
    <2>5. CASE Len(order) # 0
      <3>1. r.n \in 0 .. Len(order) - 1 /\ Len(order) - r.n = 1 /\ r.p = order[1]
        BY <1>3, <1>m, <2>2, <2>3, <2>5
      <3>2. r.p = order[Len(order) - r.n]
        BY <3>1
      <3> QED  BY <1>1, <1>3, <1>4, <2>2, <2>5, <3>1, <3>2 DEF Walk
    <2> QED  BY <2>4, <2>5
  <1> QED  BY <1>1, <1>3, <1>5, <1>6, <1>t, ToolStep DEF Types

\* The walk to the last entry: under the mutex, it is nconns - 1 times conn_next,
\* and no entry on the way is null.
LEMMA ForwardInv ==
    ASSUME Inv, NEW t \in Tools, Forward(t)
    PROVE  Inv'
  <1> DEFINE p == tool[t].p
             n == tool[t].n
  <1>t. Types /\ Mutex /\ Walks
    BY DEF Inv
  <1>1. /\ tool[t].pc = "forward" /\ mutex' = mutex
        /\ UNCHANGED <<up, first, nconns, cell, alloc, pc, info, order, killed>>
    BY DEF Forward, Step, log
  <1>2. tool[t] \in ToolType /\ p \in Cells \cup {Null} /\ n \in Int /\ cell \in [Cells -> Entry]
    BY <1>t DEF Types, ToolType
  <1>3. CASE n < 1
    <2> DEFINE s == [tool[t] EXCEPT !.pc = "backward"]
    <2>1. tool' = [tool EXCEPT ![t] = s]
      BY <1>3 DEF Forward, Step
    <2>2. /\ s \in ToolType /\ s.cmd = tool[t].cmd /\ s.pc = "backward" /\ s.p = p
          /\ s.seen = tool[t].seen /\ s.nb = tool[t].nb
      BY <1>2 DEF ToolType, ToolPc
    <2> HIDE DEF s
    <2>3. tool'[t] = s
      BY <1>t, <2>1 DEF Types
    <2>4. Mutex'
      BY <1>1, <2>1, <2>2, ToolMutex DEF Walking
    <2>5. s.cmd = "status" => Walk(t)'
      <3>1. SUFFICES ASSUME tool[t].cmd = "status" PROVE Walk(t)'
        BY <2>2
      <3>2. tool[t].seen = {} /\ tool[t].nb = 0 /\ Len(order) \in Nat
        BY <1>1, <1>t, <3>1, Calm DEF Walks, Walk, Walking
      <3>3. p = At(Len(order))
        BY <1>1, <1>3, <1>t, <3>1, <3>2 DEF Walks, Walk, At
      <3>4. SeenFrom(t, Len(order))'
        <4>1. Cardinality({}) = 0
          BY FS_EmptySet
        <4>2. \A i : i \notin Len(order) + 1 .. Len(order)
          BY <3>2
        <4> QED  BY <1>1, <2>2, <2>3, <3>2, <4>1, <4>2 DEF SeenFrom
      <3>5. At(Len(order))' = At(Len(order)) /\ Len(order) \in 0 .. Len(order)
        BY <1>1, <3>2 DEF At
      <3> QED  BY <1>1, <2>2, <2>3, <3>3, <3>4, <3>5 DEF Walk
    <2> QED  BY <1>1, <1>t, <2>1, <2>2, <2>4, <2>5, ToolStep DEF Types
  <1>4. ASSUME tool[t].cmd = "status", ~(n < 1)
        PROVE  /\ n \in 1 .. Len(order) - 1 /\ Len(order) - n \in 1 .. Len(order)
               /\ p = order[Len(order) - n] /\ p # Null /\ cell[p].next = order[Len(order) - (n - 1)]
               /\ tool[t].seen = {} /\ tool[t].nb = 0 /\ Len(order) \in Nat
    <2>1. /\ Len(order) \in Nat
          /\ \A i \in 1 .. Len(order) : order[i] \in Cells /\ order[i] # Null
          /\ \A i \in 1 .. Len(order) :
                cell[order[i]].next = IF i = Len(order) THEN Null ELSE order[i + 1]
      BY <1>1, <1>4, Calm DEF Walking
    <2>2. Walk(t)
      BY <1>4, <1>t DEF Walks
    <2>3. n \in 1 .. Len(order) - 1 /\ p = order[Len(order) - n]
      BY <1>1, <1>2, <1>4, <2>1, <2>2 DEF Walk
    <2>4. /\ Len(order) - n \in 1 .. Len(order) /\ Len(order) - n # Len(order)
          /\ (Len(order) - n) + 1 = Len(order) - (n - 1)
      BY <2>1, <2>3
    <2>5. cell[p].next = order[(Len(order) - n) + 1]
      BY <2>1, <2>3, <2>4
    <2> QED  BY <1>1, <2>1, <2>2, <2>3, <2>4, <2>5 DEF Walk
  <1>5. CASE ~(n < 1) /\ p = Null
    <2> DEFINE s == [tool[t] EXCEPT !.pc = "segv"]
    <2>1. tool' = [tool EXCEPT ![t] = s]
      BY <1>5 DEF Forward, Step
    <2>2. s \in ToolType /\ s.cmd = tool[t].cmd /\ s.pc = "segv"
      BY <1>2 DEF ToolType, ToolPc
    <2> HIDE DEF s
    <2>3. tool[t].cmd # "status"
      BY <1>4, <1>5
    <2>4. Mutex'
      BY <1>1, <2>1, <2>2, <2>3, ToolMutex DEF Walking
    <2> QED  BY <1>1, <1>t, <2>1, <2>2, <2>3, <2>4, ToolStep DEF Types
  <1>6. CASE ~(n < 1) /\ p # Null
    <2> DEFINE m == n - 1
               d == cell[p].next
               s == [tool[t] EXCEPT !.p = d, !.n = m]
    <2>0. m \in Int /\ m = n - 1 /\ d \in Cells \cup {Null} /\ d = cell[p].next
      BY <1>2, <1>6 DEF Entry
    <2>1. tool' = [tool EXCEPT ![t] = s]
      BY <1>2, <1>6 DEF Forward, Step, ToolType
    <2> HIDE DEF m, d
    <2>2. /\ s \in ToolType /\ s.cmd = tool[t].cmd /\ s.pc = "forward" /\ s.p = d /\ s.n = m
          /\ s.seen = tool[t].seen /\ s.nb = tool[t].nb
      BY <1>1, <1>2, <2>0 DEF ToolType, ToolPc
    <2> HIDE DEF s
    <2>3. tool'[t] = s
      BY <1>t, <2>1 DEF Types
    <2>4. Mutex'
      BY <1>1, <2>1, <2>2, ToolMutex DEF Walking
    <2>5. s.cmd = "status" => Walk(t)'
      <3>1. SUFFICES ASSUME tool[t].cmd = "status" PROVE Walk(t)'
        BY <2>2
      <3>2. /\ tool[t].seen = {} /\ tool[t].nb = 0 /\ Len(order) # 0
            /\ m \in 0 .. Len(order) - 1
        <4>1. n \in 1 .. Len(order) - 1 /\ Len(order) \in Nat
          BY <1>4, <1>6, <3>1
        <4>2. m \in 0 .. Len(order) - 1 /\ Len(order) # 0
          BY <2>0, <4>1
        <4> QED  BY <1>4, <1>6, <3>1, <4>2
      <3>3. d = order[Len(order) - m]
        BY <1>4, <1>6, <2>0, <3>1
      <3> QED  BY <1>1, <2>2, <2>3, <3>2, <3>3 DEF Walk
    <2> QED  BY <1>1, <1>t, <2>1, <2>2, <2>4, <2>5, ToolStep DEF Types
  <1> QED  BY <1>3, <1>5, <1>6

\* The walk back to the first entry: every entry whose process is alive is counted
\* once, and the process of a connected client is.
LEMMA BackwardInv ==
    ASSUME Inv, NEW t \in Tools, Backward(t)
    PROVE  Inv'
  <1> DEFINE p == tool[t].p
             e == cell[p]
             live == CheckServer(e.pid)
  <1>t. Types /\ Mutex /\ Owners /\ Distinct /\ Walks
    BY DEF Inv
  <1>1. /\ tool[t].pc = "backward" /\ mutex' = mutex
        /\ UNCHANGED <<up, first, nconns, cell, alloc, pc, info, order, killed>>
    BY DEF Backward, Step, log
  <1>2. /\ tool[t] \in ToolType /\ p \in Cells \cup {Null} /\ cell \in [Cells -> Entry]
        /\ tool[t].nb \in Nat /\ tool[t].seen \subseteq Cells
    BY <1>t DEF Types, ToolType
  <1>3. tool[t].cmd = "status" =>
           /\ Len(order) \in Nat
           /\ \A i \in 1 .. Len(order) : order[i] \in Cells /\ order[i] # Null
           /\ \A i \in 1 .. Len(order) : cell[order[i]].prev = At(i - 1)
           /\ \E k \in 0 .. Len(order) : p = At(k) /\ SeenFrom(t, k)
    <2>1. SUFFICES ASSUME tool[t].cmd = "status"
                   PROVE  /\ Len(order) \in Nat
                          /\ \A i \in 1 .. Len(order) : order[i] \in Cells /\ order[i] # Null
                          /\ \A i \in 1 .. Len(order) : cell[order[i]].prev = At(i - 1)
                          /\ \E k \in 0 .. Len(order) : p = At(k) /\ SeenFrom(t, k)
      OBVIOUS
    <2>2. Walk(t)
      BY <1>t, <2>1 DEF Walks
    <2>3. \E k \in 0 .. Len(order) : p = At(k) /\ SeenFrom(t, k)
      BY <1>1, <2>2 DEF Walk
    <2> QED  BY <1>1, <2>1, <2>3, Calm DEF Walking
  <1>4. CASE p = Null
    <2> DEFINE s == [tool[t] EXCEPT !.pc = "decide"]
    <2>1. tool' = [tool EXCEPT ![t] = s]
      BY <1>4 DEF Backward, Step
    <2>2. /\ s \in ToolType /\ s.cmd = tool[t].cmd /\ s.pc = "decide"
          /\ s.seen = tool[t].seen /\ s.nb = tool[t].nb
      BY <1>2 DEF ToolType, ToolPc
    <2> HIDE DEF s
    <2>3. tool'[t] = s
      BY <1>t, <2>1 DEF Types
    <2>4. Mutex'
      BY <1>1, <2>1, <2>2, ToolMutex DEF Walking
    <2>5. s.cmd = "status" => Walk(t)'
      <3>1. SUFFICES ASSUME tool[t].cmd = "status" PROVE Walk(t)'
        BY <2>2
      <3>2. SeenFrom(t, 0)
        BY <1>3, <1>4, <3>1 DEF At
      <3>3. SeenFrom(t, 0)'
        BY <1>1, <2>2, <2>3, <3>2 DEF SeenFrom
      <3> QED  BY <2>2, <2>3, <3>3 DEF Walk
    <2> QED  BY <1>1, <1>t, <2>1, <2>2, <2>4, <2>5, ToolStep DEF Types
  <1>5. CASE p # Null
    <2> DEFINE q == IF live THEN tool[t].nb + 1 ELSE tool[t].nb
               w == IF live THEN tool[t].seen \cup {p} ELSE tool[t].seen
               s == [tool[t] EXCEPT !.pc = "previous", !.nb = q, !.seen = w]
    <2>0. q \in Nat /\ w \in SUBSET Cells /\ p \in Cells
      BY <1>2, <1>5
    <2>1. tool' = [tool EXCEPT ![t] = s]
      <3>1. CASE live
        BY <1>2, <1>5, <3>1 DEF Backward, Step, ToolType
      <3>2. CASE ~live
        <4>1. q = tool[t].nb /\ w = tool[t].seen
          BY <3>2
        <4>2. s = [tool[t] EXCEPT !.pc = "previous"]
          BY <1>2, <4>1 DEF ToolType
        <4> QED  BY <1>5, <3>2, <4>2 DEF Backward, Step
      <3> QED  BY <3>1, <3>2
    <2>q. live => q = tool[t].nb + 1 /\ w = tool[t].seen \cup {p}
      OBVIOUS
    <2>w. ~live => q = tool[t].nb /\ w = tool[t].seen
      OBVIOUS
    <2> HIDE DEF q, w, live
    <2>2. /\ s \in ToolType /\ s.cmd = tool[t].cmd /\ s.pc = "previous" /\ s.p = p
          /\ s.seen = w /\ s.nb = q
      BY <1>1, <1>2, <2>0 DEF ToolType, ToolPc
    <2> HIDE DEF s
    <2>3. tool'[t] = s
      BY <1>t, <2>1 DEF Types
    <2>4. Mutex'
      BY <1>1, <2>1, <2>2, ToolMutex DEF Walking
    <2>5. s.cmd = "status" => Walk(t)'
      <3>1. SUFFICES ASSUME tool[t].cmd = "status" PROVE Walk(t)'
        BY <2>2
      <3>2. PICK k \in 0 .. Len(order) : p = At(k) /\ SeenFrom(t, k)
        BY <1>3, <3>1
      <3>3. k \in 1 .. Len(order) /\ p = order[k] /\ Len(order) \in Nat
        BY <1>3, <1>5, <3>1, <3>2 DEF At
      <3>4. p \notin tool[t].seen
        <4>1. \A c \in tool[t].seen : \E i \in k + 1 .. Len(order) : order[i] = c
          BY <3>2 DEF SeenFrom
        <4>2. \A i \in k + 1 .. Len(order) : order[i] # order[k]
          BY <1>t, <3>3 DEF Distinct
        <4> QED  BY <3>3, <4>1, <4>2
      <3>5. q = Cardinality(w)
        <4>1. IsFiniteSet(tool[t].seen)
          <5>1. MaxCells \in Int
            BY SessionAssumption
          <5>2. IsFiniteSet(Cells)
            BY <5>1, FS_Interval DEF Cells
          <5> QED  BY <1>2, <5>2, FS_Subset
        <4>2. Cardinality(tool[t].seen \cup {p}) = Cardinality(tool[t].seen) + 1
          BY <3>4, <4>1, FS_AddElement
        <4>3. tool[t].nb = Cardinality(tool[t].seen)
          BY <3>2 DEF SeenFrom
        <4> QED  BY <2>q, <2>w, <4>2, <4>3
      <3>6. \A c \in w : \E i \in (k - 1) + 1 .. Len(order) : order[i] = c
        <4>1. \A c \in tool[t].seen : \E i \in k + 1 .. Len(order) : order[i] = c
          BY <3>2 DEF SeenFrom
        <4>2. \A i \in k + 1 .. Len(order) : i \in (k - 1) + 1 .. Len(order)
          BY <3>3
        <4>3. k \in (k - 1) + 1 .. Len(order)
          BY <3>3
        <4>4. \A c \in w : c \in tool[t].seen \/ c = p
          BY <2>q, <2>w
        <4> QED  BY <3>3, <4>1, <4>2, <4>3, <4>4
      <3>7. ASSUME NEW i \in (k - 1) + 1 .. Len(order), NEW b \in Backends,
                   pc[b] = "connected", info[b] = order[i]
            PROVE  order[i] \in w
        <4>1. CASE i = k
          <5>1. cell[info[b]].pid = b
            BY <1>t, <3>7 DEF Owners, Owning, BackendPc
          <5>2. e.pid = b
            BY <3>3, <3>7, <4>1, <5>1
          <5>3. live
            BY <3>7, <5>2, ProcessAssumption DEF CheckServer, live
          <5> QED  BY <2>q, <3>3, <4>1, <5>3
        <4>2. CASE i # k
          <5>1. i \in k + 1 .. Len(order)
            BY <3>3, <4>2
          <5>2. order[i] \in tool[t].seen
            BY <3>2, <3>7, <5>1 DEF SeenFrom
          <5> QED  BY <2>q, <2>w, <5>2
        <4> QED  BY <4>1, <4>2
      <3>8. SeenFrom(t, k - 1)'
        BY <1>1, <2>2, <2>3, <3>5, <3>6, <3>7 DEF SeenFrom
      <3>9. tool'[t].p = order'[k] /\ k \in 1 .. Len(order')
        BY <1>1, <2>2, <2>3, <3>3
      <3> QED  BY <2>2, <2>3, <3>8, <3>9 DEF Walk
    <2> QED  BY <1>1, <1>t, <2>1, <2>2, <2>4, <2>5, ToolStep DEF Types
  <1> QED  BY <1>4, <1>5

\* The entry before the one that was counted.
LEMMA PreviousInv ==
    ASSUME Inv, NEW t \in Tools, Previous(t)
    PROVE  Inv'
  <1> DEFINE p == tool[t].p
             d == cell[p].prev
             s == [tool[t] EXCEPT !.pc = "backward", !.p = d]
  <1>t. Types /\ Mutex /\ Owners /\ Distinct /\ Walks
    BY DEF Inv
  <1>1. /\ tool[t].pc = "previous" /\ mutex' = mutex
        /\ tool' = [tool EXCEPT ![t] = s]
        /\ UNCHANGED <<up, first, nconns, cell, alloc, pc, info, order, killed>>
    BY DEF Previous, Step, log
  <1>2. tool[t] \in ToolType /\ cell \in [Cells -> Entry]
    BY <1>t DEF Types
  <1>3. p # Null /\ p \in Cells
    BY <1>2 DEF Previous, ToolType
  <1>4. d \in Cells \cup {Null}
    BY <1>2, <1>3 DEF Entry
  <1> HIDE DEF d
  <1>5. /\ s \in ToolType /\ s.cmd = tool[t].cmd /\ s.pc = "backward" /\ s.p = d
        /\ s.seen = tool[t].seen /\ s.nb = tool[t].nb
    BY <1>2, <1>4 DEF ToolType, ToolPc
  <1> HIDE DEF s
  <1>6. tool'[t] = s
    BY <1>1, <1>t DEF Types
  <1>7. Mutex'
    BY <1>1, <1>5, ToolMutex DEF Walking
  <1>8. s.cmd = "status" => Walk(t)'
    <2>1. SUFFICES ASSUME tool[t].cmd = "status" PROVE Walk(t)'
      BY <1>5
    <2>2. /\ Len(order) \in Nat
          /\ \A i \in 1 .. Len(order) : cell[order[i]].prev = At(i - 1)
      BY <1>1, <2>1, Calm DEF Walking
    <2>3. PICK k \in 1 .. Len(order) : p = order[k] /\ SeenFrom(t, k - 1)
      BY <1>1, <1>t, <2>1 DEF Walks, Walk
    <2>4. d = At(k - 1) /\ k - 1 \in 0 .. Len(order)
      BY <2>2, <2>3 DEF d
    <2>5. SeenFrom(t, k - 1)'
      BY <1>1, <1>5, <1>6, <2>3 DEF SeenFrom
    <2>6. At(k - 1)' = At(k - 1) /\ k - 1 \in 0 .. Len(order')
      BY <1>1, <2>4 DEF At
    <2>7. tool'[t].p = At(k - 1)'
      BY <1>5, <1>6, <2>4, <2>6
    <2> QED  BY <1>5, <1>6, <2>5, <2>6, <2>7 DEF Walk
  <1> QED  BY <1>1, <1>5, <1>7, <1>8, <1>t, ToolStep DEF Types

\* status has come back to the first entry; stop goes on only if it may.
LEMMA DecideInv ==
    ASSUME Inv, NEW t \in Tools, Decide(t)
    PROVE  Inv'
  <1> DEFINE q == IF tool[t].cmd = "status" THEN "listed"
                  ELSE IF tool[t].nb > 0 /\ tool[t].cmd = "stop" THEN "refused"
                  ELSE "scan"
             r == [tool[t] EXCEPT !.pc = q]
  <1>t. Types /\ Mutex /\ Walks
    BY DEF Inv
  <1>1. /\ tool[t].pc = "decide" /\ tool' = [tool EXCEPT ![t] = r] /\ mutex' = mutex
        /\ UNCHANGED <<up, first, nconns, cell, alloc, pc, info, order, killed>>
    BY DEF Decide, Step, log
  <1>2. tool[t] \in ToolType
    BY <1>t DEF Types
  <1>q. (tool[t].cmd = "status" /\ q = "listed") \/ (tool[t].cmd # "status" /\ q \in {"refused", "scan"})
    OBVIOUS
  <1> HIDE DEF q
  <1>3. /\ r \in ToolType /\ r.cmd = tool[t].cmd /\ r.pc = q
        /\ r.seen = tool[t].seen /\ r.nb = tool[t].nb
    BY <1>2, <1>q DEF ToolType, ToolPc
  <1> HIDE DEF r
  <1>4. tool'[t] = r
    BY <1>1, <1>t DEF Types
  <1>5. Mutex'
    BY <1>1, <1>3, <1>q, ToolMutex DEF Walking
  <1>6. r.cmd = "status" => Walk(t)'
    <2>1. SUFFICES ASSUME tool[t].cmd = "status" PROVE Walk(t)'
      BY <1>3
    <2>2. SeenFrom(t, 0)
      BY <1>1, <1>t, <2>1 DEF Walks, Walk
    <2>3. SeenFrom(t, 0)'
      BY <1>1, <1>3, <1>4, <2>2 DEF SeenFrom
    <2> QED  BY <1>3, <1>4, <1>q, <2>1, <2>3 DEF Walk
  <1> QED  BY <1>1, <1>3, <1>5, <1>6, <1>t, ToolStep DEF Types

\* status gives the mutex back.
LEMMA DisplayUnlockInv ==
    ASSUME Inv, NEW t \in Tools, DisplayUnlock(t)
    PROVE  Inv'
  <1> DEFINE r == [tool[t] EXCEPT !.pc = "done"]
  <1>t. Types /\ Mutex /\ Walks
    BY DEF Inv
  <1>1. /\ tool[t].pc \in {"listed", "down"} /\ tool' = [tool EXCEPT ![t] = r] /\ mutex' = Free
        /\ UNCHANGED <<up, first, nconns, cell, alloc, pc, info, order, killed>>
    BY DEF DisplayUnlock, log
  <1>2. tool[t] \in ToolType /\ tool[t].cmd = "status"
    BY <1>1, <1>t DEF Types, Mutex
  <1>m. mutex = t
    BY <1>1, <1>2, <1>t DEF Mutex, Walking
  <1>3. r \in ToolType /\ r.cmd = "status" /\ r.pc = "done"
    BY <1>2 DEF ToolType, ToolPc
  <1> HIDE DEF r
  <1>4. tool'[t] = r /\ \A u \in Tools \ {t} : tool'[u] = tool[u]
    BY <1>1, <1>t DEF Types
  <1>5. \A b \in Backends : mutex' # b /\ mutex # b
    BY <1>1, <1>m, SessionAssumption, ProcessAssumption
  <1>6. \A u \in Tools : mutex' # u /\ (mutex = u <=> u = t)
    BY <1>1, <1>m, ProcessAssumption
  <1>7. Mutex'
    <2>1. \A b \in Backends : pc'[b] \in Locked <=> mutex' = b
      BY <1>1, <1>5, <1>t DEF Mutex
    <2>2. \A u \in Tools : tool'[u].cmd = "status" /\ tool'[u].pc \in Walking <=> mutex' = u
      BY <1>3, <1>4, <1>6, <1>t DEF Mutex, Walking
    <2>3. \A u \in Tools : /\ tool'[u].pc \in {"lock", "listed", "down"} => tool'[u].cmd = "status"
                           /\ tool'[u].cmd = "status" => tool'[u].pc \in Walking \cup {"lock", "done"}
      BY <1>3, <1>4, <1>t DEF Mutex
    <2> QED  BY <1>1, <2>1, <2>2, <2>3 DEF Mutex
  <1>8. Walk(t)'
    BY <1>3, <1>4 DEF Walk
  <1> QED  BY <1>1, <1>3, <1>7, <1>8, <1>t, ToolStep DEF Types

\* The scan of eyedbctl stop, which never has the mutex, and its kills.
LEMMA StopInv ==
    ASSUME Inv, NEW t \in Tools, ScanFirst(t) \/ KillOne(t) \/ KillNext(t) \/ KillMaster(t)
    PROVE  Inv'
  <1>t. Types /\ Mutex
    BY DEF Inv
  <1>1. /\ tool[t].pc \in {"scan", "kill", "advance"} /\ mutex' = mutex
        /\ UNCHANGED <<up, first, nconns, cell, alloc, pc, info, order>>
    BY DEF ScanFirst, KillOne, KillNext, KillMaster, Step, log
  <1>2. tool[t] \in ToolType /\ tool[t].p \in Cells \cup {Null} /\ tool[t].cmd # "status"
    BY <1>1, <1>t DEF Types, ToolType, Mutex, Walking
  <1>3. first \in Cells \cup {Null} /\ (tool[t].p # Null => cell[tool[t].p] \in Entry)
    BY <1>2, <1>t DEF Types
  <1>4. killed' \subseteq Backends \cup {Master}
    <2>1. killed \subseteq Backends \cup {Master}
      BY <1>t DEF Types
    <2>2. CASE ScanFirst(t) \/ KillNext(t) \/ KillMaster(t)
      BY <2>1, <2>2 DEF ScanFirst, KillNext, KillMaster
    <2>3. CASE KillOne(t)
      <3>1. cell[tool[t].p].pid \in Backends \cup {Null}
        BY <1>3, <2>3 DEF KillOne, Entry
      <3> QED  BY <2>1, <2>3, <3>1 DEF KillOne, CheckServer
    <2> QED  BY <2>2, <2>3
  <1>5. \E r \in ToolType : /\ tool' = [tool EXCEPT ![t] = r] /\ r.cmd = tool[t].cmd
                            /\ r.pc \in {"kill", "advance", "done"}
    <2>1. CASE ScanFirst(t)
      <3> DEFINE r == [tool[t] EXCEPT !.pc = "kill", !.p = first]
      <3>1. tool' = [tool EXCEPT ![t] = r]
        BY <2>1 DEF ScanFirst, Step
      <3>2. r \in ToolType /\ r.cmd = tool[t].cmd /\ r.pc = "kill"
        BY <1>2, <1>3 DEF ToolType, ToolPc
      <3> QED  BY <3>1, <3>2
    <2>2. CASE KillOne(t)
      <3> DEFINE r == [tool[t] EXCEPT !.pc = "advance"]
      <3>1. tool' = [tool EXCEPT ![t] = r]
        BY <2>2 DEF KillOne, Step
      <3>2. r \in ToolType /\ r.cmd = tool[t].cmd /\ r.pc = "advance"
        BY <1>2 DEF ToolType, ToolPc
      <3> QED  BY <3>1, <3>2
    <2>3. CASE KillNext(t)
      <3> DEFINE d == cell[tool[t].p].next
                 r == [tool[t] EXCEPT !.pc = "kill", !.p = d]
      <3>1. tool' = [tool EXCEPT ![t] = r]
        BY <2>3 DEF KillNext, Step
      <3>2. d \in Cells \cup {Null}
        BY <1>3, <2>3 DEF KillNext, Entry
      <3> HIDE DEF d
      <3>3. r \in ToolType /\ r.cmd = tool[t].cmd /\ r.pc = "kill"
        BY <1>2, <3>2 DEF ToolType, ToolPc
      <3> QED  BY <3>1, <3>3
    <2>4. CASE KillMaster(t)
      <3> DEFINE r == [tool[t] EXCEPT !.pc = "done"]
      <3>1. tool' = [tool EXCEPT ![t] = r]
        BY <2>4 DEF KillMaster, Step
      <3>2. r \in ToolType /\ r.cmd = tool[t].cmd /\ r.pc = "done"
        BY <1>2 DEF ToolType, ToolPc
      <3> QED  BY <3>1, <3>2
    <2> QED  BY <2>1, <2>2, <2>3, <2>4
  <1>6. PICK r \in ToolType : /\ tool' = [tool EXCEPT ![t] = r] /\ r.cmd = tool[t].cmd
                              /\ r.pc \in {"kill", "advance", "done"}
    BY <1>5
  <1>7. Mutex'
    BY <1>1, <1>2, <1>6, ToolMutex DEF Walking
  <1> QED  BY <1>1, <1>2, <1>4, <1>6, <1>7, ToolStep

\* A step that changes nothing but, at most, connhead->up: the main process marks
\* the log as down, or nothing happens.
LEMMA QuietInv ==
    ASSUME Inv, up' \in BOOLEAN,
           UNCHANGED <<first, nconns, cell, alloc, mutex, pc, info, killed, tool, order>>
    PROVE  Inv'
  <1>t. Types /\ Mutex /\ Owners /\ Distinct /\ Forwards /\ Backwards /\ Counted /\ Walks
    BY DEF Inv
  <1>1. Types' /\ Mutex'
    BY <1>t DEF Types, Mutex
  <1>2. Owners' /\ Distinct' /\ Counted'
    BY <1>t DEF Owners, Distinct, Counted
  <1>3. Forwards' /\ Backwards'
    BY <1>t DEF Forwards, Backwards
  <1>4. Walks'
    BY <1>t DEF Walks, Walk, SeenFrom, At
  <1> QED  BY <1>1, <1>2, <1>3, <1>4 DEF Inv

-----------------------------------------------------------------------------
(* The specification.                                                       *)

\* The log as the constructor leaves it.
LEMMA InitInv == Init => Inv
  <1> SUFFICES ASSUME Init PROVE Inv
    OBVIOUS
  <1>1. NoTool \in ToolType /\ NoTool.pc = "idle" /\ NoTool.cmd = "none"
    BY DEF NoTool, ToolType, ToolPc
  <1>2. \A t \in Tools : tool[t] = NoTool
    BY DEF Init
  <1>3. \A b \in Backends : pc[b] = "start"
    BY DEF Init
  <1>4. order = <<>> /\ Len(order) = 0
    BY DEF Init
  <1>5. Types
    <2>1. cell \in [Cells -> Entry]
      BY DEF Init, Entry
    <2>2. tool \in [Tools -> ToolType]
      BY <1>1 DEF Init
    <2>3. pc \in [Backends -> BackendPc]
      BY DEF Init, BackendPc
    <2> QED  BY <1>4, <2>1, <2>2, <2>3 DEF Init, Types
  <1>6. Mutex
    BY <1>1, <1>2, <1>3, ProcessAssumption DEF Init, Mutex, Locked, Walking
  <1>7. Owners /\ Distinct
    BY <1>3, <1>4 DEF Owners, Distinct, Owning, Linked
  <1>8. Forwards /\ Backwards /\ Counted
    BY <1>3, <1>4 DEF Forwards, Backwards, Counted, Init
  <1>9. Walks
    BY <1>1, <1>2 DEF Walks
  <1> QED  BY <1>5, <1>6, <1>7, <1>8, <1>9 DEF Inv

\* Every step of every process keeps the invariant.
LEMMA NextInv == Inv /\ [Next]_vars => Inv'
  <1> SUFFICES ASSUME Inv, [Next]_vars PROVE Inv'
    OBVIOUS
  <1>1. CASE UNCHANGED vars
    BY <1>1, QuietInv DEF vars, Inv, Types
  <1>2. ASSUME NEW b \in Backends, Backend(b) \/ Quit(b) \/ Crash(b) PROVE Inv'
    BY <1>2, AllocInv, AddLockInv, AddPrevInv, AddFirstInv, AddCountInv, AddUnlockInv, SupLockInv,
       SupNextInv, SupPrevInv, SupCountInv, SupUnlockInv, LeaveInv DEF Backend
  <1>3. ASSUME NEW t \in Tools, Tool(t) PROVE Inv'
    BY <1>3, StartInv, DisplayLockInv, CountFirstInv, CountNconnsInv, ForwardInv, BackwardInv,
       PreviousInv, DecideInv, DisplayUnlockInv, StopInv DEF Tool
  <1>4. CASE MasterQuit
    BY <1>4, QuietInv DEF MasterQuit, log
  <1> QED  BY <1>1, <1>2, <1>3, <1>4 DEF Next

\* The invariant holds in every state.
LEMMA Invariant == Spec => []Inv
  BY InitInv, NextInv, PTL DEF Spec

\* Len(order) entries are in the list, all different.
LEMMA ListedCount ==
    ASSUME Inv
    PROVE  Cardinality(Listed) = Len(order)
  <1>1. Len(order) \in Nat /\ order \in Seq(Cells) /\ \A i \in 1 .. Len(order) : order[i] \in Listed
    BY DEF Inv, Types, Listed
  <1> DEFINE f == [i \in 1 .. Len(order) |-> order[i]]
  <1>2. f \in [1 .. Len(order) -> Listed]
    BY <1>1
  <1>3. \A i, j \in 1 .. Len(order) : f[i] = f[j] => i = j
    BY DEF Inv, Distinct
  <1>4. \A c \in Listed : \E i \in 1 .. Len(order) : f[i] = c
    BY DEF Listed
  <1>5. f \in Bijection(1 .. Len(order), Listed)
    BY <1>2, <1>3, <1>4 DEF Bijection, Injection, Surjection, IsInjective
  <1>6. ExistsBijection(1 .. Len(order), Listed)
    BY <1>5 DEF ExistsBijection
  <1> QED  BY <1>1, <1>6, FS_CountingElements

\* Add and suppress keep one doubly linked list of nconns entries, whatever backends
\* and eyedbctl processes run, and however many.
THEOREM List == Spec => []LogIsList
  <1>1. Inv => LogIsList
    <2> SUFFICES ASSUME Inv PROVE LogIsList
      OBVIOUS
    <2>t. Types /\ Mutex /\ Owners /\ Distinct /\ Forwards /\ Backwards /\ Counted
      BY DEF Inv
    <2>1. TypeOK
      BY <2>t DEF TypeOK, Types, Mutex, ToolType
    <2>2. SUFFICES ASSUME mutex \notin Backends
                   PROVE  /\ first = IF order = <<>> THEN Null ELSE order[1]
                          /\ nconns = Len(order)
                          /\ Cardinality(Listed) = Len(order)
                          /\ Listed \subseteq alloc
                          /\ \A i \in 1 .. Len(order) :
                               /\ cell[order[i]].next = IF i = Len(order) THEN Null ELSE order[i + 1]
                               /\ cell[order[i]].prev = IF i = 1 THEN Null ELSE order[i - 1]
      BY <2>1 DEF LogIsList
    <2>3. \A b \in Backends : pc[b] \notin {"a_first", "s_prev", "a_count", "s_count"}
      BY <2>2, <2>t DEF Mutex, Locked
    <2>4. Len(order) \in Nat /\ (order = <<>> <=> Len(order) = 0)
      BY <2>t DEF Types
    <2>5. nconns = Len(order)
      BY <2>3, <2>t DEF Counted
    <2>6. Listed \subseteq alloc
      BY <2>t, Places DEF Listed, Owners
    <2>7. \A i \in 1 .. Len(order) : cell[order[i]].prev = IF i = 1 THEN Null ELSE order[i - 1]
      <3>1. Len(order) > 0 => cell[order[1]].prev = Null
        BY <2>3, <2>t DEF Backwards
      <3>2. \A i \in 2 .. Len(order) : cell[order[i]].prev = order[i - 1]
        BY <2>3, <2>t DEF Backwards
      <3> QED  BY <2>4, <3>1, <3>2
    <2> QED  BY <2>4, <2>5, <2>6, <2>7, <2>t, ListedCount DEF Forwards
  <1> QED  BY <1>1, Invariant, PTL

\* A connected client has an entry of its own in the list, which names its backend.
THEOREM Clients == Spec => []ClientsListed
  <1>1. Inv => ClientsListed
    <2> SUFFICES ASSUME Inv PROVE ClientsListed
      OBVIOUS
    <2>1. \A b \in Connected : b \in Backends /\ pc[b] \in Owning /\ pc[b] \in Linked
      BY DEF Connected, Owning, Linked, BackendPc
    <2> QED  BY <2>1, OwnEntry DEF Inv, ClientsListed, Owners, Listed
  <1> QED  BY <1>1, Invariant, PTL

\* What eyedbctl status lists when it has walked the list both ways: every connected
\* client, once each, and nobody who is not registered.
THEOREM Status == Spec => []StatusExact
  <1>1. Inv => StatusExact
    <2> SUFFICES ASSUME Inv, NEW t \in Tools, tool[t].cmd = "status"
                 PROVE  /\ tool[t].pc # "segv"
                        /\ tool[t].pc = "listed" =>
                              /\ {info[b] : b \in Connected} \subseteq tool[t].seen
                              /\ tool[t].seen \subseteq Listed
                              /\ tool[t].nb = Cardinality(tool[t].seen)
      BY DEF StatusExact
    <2>1. tool[t].pc # "segv"
      BY DEF Inv, Mutex, Walking
    <2>2. SUFFICES ASSUME tool[t].pc = "listed"
                   PROVE  /\ {info[b] : b \in Connected} \subseteq tool[t].seen
                          /\ tool[t].seen \subseteq Listed
                          /\ tool[t].nb = Cardinality(tool[t].seen)
      BY <2>1
    <2>3. SeenFrom(t, 0)
      BY <2>2 DEF Inv, Walks, Walk
    <2>4. \A b \in Connected : \E i \in 1 .. Len(order) : order[i] = info[b]
      BY DEF Inv, Owners, Connected, Linked
    <2>5. \A b \in Connected : info[b] \in tool[t].seen
      BY <2>3, <2>4 DEF SeenFrom, Connected
    <2>6. tool[t].seen \subseteq Listed
      BY <2>3 DEF SeenFrom, Listed
    <2> QED  BY <2>3, <2>5, <2>6 DEF SeenFrom
  <1> QED  BY <1>1, Invariant, PTL

=============================================================================
