---------------------------- MODULE RealizeProofs ----------------------------
(***************************************************************************)
(* Proofs about module Realize, for any number of objects and attributes,  *)
(* any graph, any RecMode and any number of calls: a call visits an object *)
(* once, a store that succeeds has written all it goes down to, what is    *)
(* stored refers to what is stored, and a remove that succeeds has removed *)
(* all it goes down to.                                                    *)
(***************************************************************************)
EXTENDS Realize, WellFoundedInduction, TLAPS

-----------------------------------------------------------------------------
(* The inductive invariant.                                                 *)

Frame == [o : Obj, i : 1 .. NAttr + 1, new : BOOLEAN]
Image == [st : {"none", "reserved", "written"}, val : {0, 1}, ref : [Attrs -> Obj \cup {Null}]]

LastType == [op : {"none", "store", "remove"}, root : Obj \cup {Null}, mode : SUBSET Attrs,
             clean : BOOLEAN, ok : BOOLEAN]

Types ==
    /\ obj \in [Obj -> Objects] /\ db \in [Obj -> Image]
    /\ op \in {"none", "store", "remove"} /\ mode \in SUBSET Attrs /\ realized \in SUBSET Obj
    /\ stack \in Seq(Frame) /\ ret \in {"none", "ok", "err", "refused"}
    /\ broken \in BOOLEAN /\ refused \in BOOLEAN /\ visits \in [Obj -> Nat]
    /\ last \in LastType

\* What the attribute that the activation k is at points to.
Target(k) == obj[stack[k].o].ptr[stack[k].i]

\* The objects that have an activation; those that the call under way creates.
Active == {stack[k].o : k \in 1 .. Len(stack)}
Fresh  == {stack[k].o : k \in {j \in 1 .. Len(stack) : stack[j].new}}

\* What a store has met: what has an activation or is in realizedMap.
Known == realized \cup Active

\* The call under way is the last one; between calls nothing is left of it.
Control ==
    /\ op = "none" => /\ Len(stack) = 0 /\ ret = "none" /\ realized = {}
                      /\ \A o \in Obj : visits[o] = 0
    /\ op = "remove" => /\ realized = {} /\ ret # "refused" /\ \A o \in Obj : visits[o] = 0
                        /\ Fresh = {}
    /\ op # "none" => last.op = op /\ last.mode = mode /\ last.root \in Obj /\ ~last.ok
    /\ (ret = "err" => broken) /\ (ret = "refused" => refused)

\* The activations are of different objects, each the target of the one below it.
Chained(m) ==
    /\ \A j, k \in 1 .. Len(stack) : stack[j].o = stack[k].o => j = k
    /\ \A k \in 1 .. Len(stack) : stack[k].i \in Attrs => stack[k].i \in m /\ Target(k) \in Obj
    /\ \A k \in 1 .. Len(stack) : k < Len(stack) => stack[k].i \in Attrs /\ stack[k + 1].o = Target(k)

Stack == Chained(mode) /\ (ret # "none" /\ Len(stack) > 0 => stack[Len(stack)].i \in Attrs)

\* What is being stored has its flag and is not yet in realizedMap.
Flagged == \A o \in Active : obj[o].realizing /\ o \notin realized

Visits ==
    /\ \A o \in Obj : visits[o] <= 1 /\ (visits[o] = 1 => o \in Known)
    /\ op = "store" => Flagged

\* What was removed is not in the database; an activation is of an object with its oid.
Removals ==
    \A o \in Obj : /\ obj[o].removed => obj[o].oid /\ db[o].st = "none"
                   /\ o \in Active => obj[o].oid

\* Nothing has failed that leaves objects behind with an oid only.
Intact == ~broken /\ ~refused

\* Who refers to an object refers to one that has its oid, and who has its oid is
\* in the database, is being created or was removed.
Oids ==
    /\ \A o \in Obj : db[o].st = "reserved" => o \in Fresh
    /\ \A o \in Obj : obj[o].oid /\ ~obj[o].removed => db[o].st # "none"
    /\ \A o \in Obj : \A a \in Attrs : obj[o].ref[a] # Null => obj[obj[o].ref[a]].oid
    /\ \A o \in Obj : \A a \in Attrs : db[o].ref[a] # Null => obj[db[o].ref[a]].oid
    /\ \A o \in Obj : obj[o].realizing \/ o \in Known => obj[o].oid

Refs == Intact =>
    Oids /\ (op = "store" /\ ret = "ok" /\ Len(stack) > 0 => obj[Target(Len(stack))].oid)

\* What objectCreate and objectWrite write of the object o.
Written(o) == db[o].st = "written" /\ db[o].val = obj[o].val /\ db[o].ref = obj[o].ref

\* An object that is not marked as modified is in the database as it is.
Saved == Intact =>
    \A o \in Obj : obj[o].oid /\ ~obj[o].modify /\ ~obj[o].removed /\ o \notin Fresh => Written(o)

\* The objects whose attribute a a store has dealt with, if it goes down it.
Linked(a) == {o \in Obj : obj[o].ptr[a] # Null =>
                              obj[o].ref[a] = obj[o].ptr[a] /\ obj[o].ptr[a] \in Known}

\* A store with mode m is done with what is in realizedMap, and in each activation
\* with the attributes before the one it is at.
Progress(m) ==
    /\ \A o \in Obj : obj[o].realizing => o \in Known
    /\ \A o \in realized : (obj[o].removed \/ Written(o)) /\ \A a \in m : o \in Linked(a)
    /\ \A k \in 1 .. Len(stack) : \A a \in m : a < stack[k].i => stack[k].o \in Linked(a)

\* The store under way, if it started clean and has met no error.
Storing == op = "store" /\ last.clean /\ ret \notin {"err", "refused"} =>
    /\ Intact /\ Progress(mode) /\ last.root \in Known
    /\ ret = "ok" /\ Len(stack) > 0 => Target(Len(stack)) \in Known

\* What a remove that has removed the objects of D need not go down to any more, and
\* the objects whose attribute a it has dealt with.
Handled(D)    == {o \in Obj : ~obj[o].oid} \cup D \cup Active
Settled(a, D) == {o \in Obj : obj[o].ptr[a] # Null => obj[o].ptr[a] \in Handled(D)}

Swept(m, D) ==
    /\ \A o \in D : obj[o].removed /\ \A a \in m : o \in Settled(a, D)
    /\ \A k \in 1 .. Len(stack) : \A a \in m : a < stack[k].i => stack[k].o \in Settled(a, D)

\* The remove under way, if it has met no error.
Sweeping == op = "remove" /\ ret # "err" => \E D \in SUBSET Obj :
    /\ Swept(mode, D) /\ last.root \in D \cup Active
    /\ ret = "ok" /\ Len(stack) > 0 => Target(Len(stack)) \in Handled(D)

Inv == /\ Types /\ Control /\ Stack /\ Visits /\ Removals /\ Refs /\ Saved /\ Storing /\ Sweeping
       /\ StoreComplete /\ RemoveComplete

-----------------------------------------------------------------------------
(* The attributes a call goes down, and the stack.                          *)

\* A non-empty set of naturals has a least element.
LEMMA LeastNatural ==
    ASSUME NEW T, T \subseteq Nat, T # {}
    PROVE  \E m \in T : \A y \in T : m <= y
  <1> DEFINE R == OpToRel(<, Nat)
  <1>1. IsWellFoundedOn(R, Nat)
    BY NatLessThanWellFounded
  <1>2. \A x, y \in Nat : x < y => <<x, y>> \in R
    BY DEF OpToRel
  <1> HIDE DEF R
  <1>3. PICK m \in T : \A y \in T : ~(<<y, m>> \in R)
    BY <1>1, WFMin
  <1>4. \A y \in T : ~(y < m)
    BY <1>2, <1>3
  <1>5. \A y \in T : m <= y
    BY <1>4
  <1> QED  BY <1>5

\* isAgregRecurs finds the next attribute of the mode with a pointer, or the end.
LEMMA DownIs ==
    ASSUME NEW o, NEW i \in 1 .. NAttr + 1, NEW m
    PROVE  /\ Down(o, i, m) \in i .. (NAttr + 1)
           /\ Down(o, i, m) \in Attrs => Down(o, i, m) \in m /\ obj[o].ptr[Down(o, i, m)] # Null
           /\ \A b \in i .. (Down(o, i, m) - 1) : b \notin m \/ obj[o].ptr[b] = Null
  <1> DEFINE P(a) == /\ a \in Attrs => a \in m /\ obj[o].ptr[a] # Null
                     /\ \A b \in i..(a - 1) : b \notin m \/ obj[o].ptr[b] = Null
             T == {a \in i .. (NAttr + 1) : a \in Attrs => a \in m /\ obj[o].ptr[a] # Null}
  <1>1. NAttr \in Nat /\ i \in Nat
    BY RealizeAssumption
  <1>2. NAttr + 1 \in T /\ T \subseteq Nat
    BY <1>1 DEF Attrs
  <1>3. PICK d \in T : \A y \in T : d <= y
    BY <1>2, LeastNatural
  <1>4. d \in i .. (NAttr + 1) /\ P(d)
    <2>1. ASSUME NEW b \in i .. (d - 1) PROVE b \notin m \/ obj[o].ptr[b] = Null
      <3>1. b \in i .. (NAttr + 1) /\ b \in Attrs /\ ~(d <= b)
        BY <1>1, <1>3 DEF Attrs
      <3> QED  BY <1>3, <3>1
    <2> QED  BY <1>3, <2>1
  <1>5. Down(o, i, m) = CHOOSE a \in i .. (NAttr + 1) : P(a)
    BY DEF Down
  <1> HIDE DEF P
  <1>6. Down(o, i, m) \in i .. (NAttr + 1) /\ P(Down(o, i, m))
    BY <1>4, <1>5
  <1> QED  BY <1>6 DEF P

\* An activation that is put on top of the others.
LEMMA PushIs ==
    ASSUME NEW s \in Seq(Frame), NEW f \in Frame
    PROVE  LET r == Append(s, f)
           IN  /\ r \in Seq(Frame) /\ Len(r) = Len(s) + 1 /\ r[Len(s) + 1] = f
               /\ \A k \in 1 .. Len(s) : r[k] = s[k]
  OBVIOUS

\* What is on the stack.
LEMMA FrameOf ==
    ASSUME NEW s \in Seq(Frame), NEW k \in 1 .. Len(s)
    PROVE  s[k] \in Frame /\ s[k].o \in Obj /\ s[k].i \in 1 .. NAttr + 1 /\ s[k].new \in BOOLEAN
  <1>1. s[k] \in Frame
    OBVIOUS
  <1> QED  BY <1>1 DEF Frame

\* The activations below the top one.
LEMMA BelowIs ==
    ASSUME stack \in Seq(Frame), Len(stack) > 0
    PROVE  /\ Below \in Seq(Frame) /\ Len(Below) = Len(stack) - 1 /\ Len(Below) \in Nat
           /\ \A k \in 1 .. Len(Below) : Below[k] = stack[k]
           /\ Top \in Frame /\ Len(stack) \in Nat /\ Len(stack) \in 1 .. Len(stack)
  <1>1. Len(stack) \in Nat /\ Len(stack) \in 1 .. Len(stack) /\ Top \in Frame
    BY DEF Top
  <1>2. \A k \in 1 .. Len(stack) - 1 : stack[k] \in Frame
    BY <1>1
  <1>3. Below = [k \in 1 .. Len(stack) - 1 |-> stack[k]]
    BY <1>1 DEF Below
  <1>4. Below \in Seq(Frame) /\ Len(Below) = Len(stack) - 1
    BY <1>1, <1>2, <1>3
  <1> QED  BY <1>1, <1>3, <1>4

\* isAgregRecurs from the first attribute on.
LEMMA DownFirst ==
    ASSUME NEW o, NEW m
    PROVE  /\ Down(o, 1, m) \in 1 .. (NAttr + 1)
           /\ Down(o, 1, m) \in Attrs => Down(o, 1, m) \in m /\ obj[o].ptr[Down(o, 1, m)] # Null
           /\ \A b \in 1 .. (Down(o, 1, m) - 1) : b \notin m \/ obj[o].ptr[b] = Null
  <1>1. 1 \in 1 .. NAttr + 1
    BY RealizeAssumption
  <1> QED  BY <1>1, DownIs

\* A new activation on t: the stack stays a chain of different objects, and no
\* attribute of the mode is skipped.
LEMMA PushChained ==
    ASSUME stack \in Seq(Frame), obj \in [Obj -> Objects],
           NEW t \in Obj, NEW m \in SUBSET Attrs, NEW n \in BOOLEAN, Chained(m), t \notin Active,
           Len(stack) > 0 => stack[Len(stack)].i \in Attrs /\ Target(Len(stack)) = t,
           stack' = Append(stack, [o |-> t, i |-> Down(t, 1, m), new |-> n]),
           \A o \in Obj : obj'[o].ptr = obj[o].ptr
    PROVE  /\ stack' \in Seq(Frame) /\ Len(stack') = Len(stack) + 1 /\ Len(stack) \in Nat
           /\ Active' = Active \cup {t} /\ (n => Fresh' = Fresh \cup {t}) /\ (~n => Fresh' = Fresh)
           /\ Chained(m)'
           /\ \A k \in 1 .. Len(stack) : stack'[k] = stack[k] /\ stack[k].o \in Obj
           /\ stack'[Len(stack) + 1].o = t
           /\ \A a \in m : a < stack'[Len(stack) + 1].i => obj[t].ptr[a] = Null
  <1> DEFINE d == Down(t, 1, m)
             f == [o |-> t, i |-> d, new |-> n]
  <1>1. NAttr \in Nat
    BY RealizeAssumption
  <1>2. /\ d \in 1 .. (NAttr + 1) /\ (d \in Attrs => d \in m /\ obj[t].ptr[d] # Null)
        /\ \A b \in 1 .. (d - 1) : b \notin m \/ obj[t].ptr[b] = Null
    BY DownFirst
  <1> HIDE DEF d
  <1>3. f \in Frame /\ f.o = t /\ f.i = d /\ f.new = n
    BY <1>2 DEF Frame
  <1>4. stack \in Seq(Frame) /\ Len(stack) \in Nat
    OBVIOUS
  <1>s. stack' = Append(stack, f)
    BY DEF d
  <1> HIDE DEF f
  <1>5. /\ stack' \in Seq(Frame) /\ Len(stack') = Len(stack) + 1 /\ stack'[Len(stack) + 1] = f
        /\ \A k \in 1 .. Len(stack) : stack'[k] = stack[k]
    BY <1>3, <1>4, <1>s, PushIs
  <1>6. \A k \in 1 .. Len(stack) : stack[k].o \in Obj
    BY <1>4, FrameOf
  <1>7. \A k \in 1 .. Len(stack) : Target(k)' = Target(k)
    BY <1>5, <1>6 DEF Target
  <1>8. \A k \in 1 .. Len(stack') : k \in 1 .. Len(stack) \/ k = Len(stack) + 1
    BY <1>4, <1>5
  <1>9. /\ Len(stack) + 1 \in 1 .. Len(stack')
        /\ \A k \in 1 .. Len(stack) : k \in 1 .. Len(stack') /\ k # Len(stack) + 1
    BY <1>4, <1>5
  <1>10. Active' = Active \cup {t}
    <2>1. \A o : o \in Active' <=> o \in Active \/ o = t
      BY <1>3, <1>5, <1>8, <1>9 DEF Active
    <2> QED  BY <2>1
  <1>11. (n => Fresh' = Fresh \cup {t}) /\ (~n => Fresh' = Fresh)
    <2>1. \A o : o \in Fresh' <=> o \in Fresh \/ (o = t /\ n)
      BY <1>3, <1>5, <1>8, <1>9 DEF Fresh
    <2> QED  BY <2>1
  <1>12. \A k \in 1 .. Len(stack) : stack[k].o # t
    BY DEF Active
  <1>13. Chained(m)'
    <2>1. \A j, k \in 1 .. Len(stack') : stack'[j].o = stack'[k].o => j = k
      BY <1>3, <1>5, <1>8, <1>12 DEF Chained
    <2>2. ASSUME NEW k \in 1 .. Len(stack'), stack'[k].i \in Attrs
          PROVE  stack'[k].i \in m /\ Target(k)' \in Obj
      <3>1. CASE k \in 1 .. Len(stack)
        <4>1. stack[k].i \in Attrs => stack[k].i \in m /\ Target(k) \in Obj
          BY <3>1 DEF Chained
        <4> QED  BY <1>5, <1>7, <2>2, <3>1, <4>1
      <3>2. CASE k = Len(stack) + 1
        <4>1. stack'[k].o = t /\ stack'[k].i = d
          BY <1>3, <1>5, <3>2
        <4>2. Target(k)' = obj[t].ptr[d]
          BY <4>1 DEF Target
        <4>3. d \in Attrs => obj[t].ptr[d] \in Obj
          BY <1>2 DEF Objects
        <4> QED  BY <1>2, <2>2, <4>1, <4>2, <4>3
      <3> QED  BY <1>8, <3>1, <3>2
    <2>3. ASSUME NEW k \in 1 .. Len(stack'), k < Len(stack')
          PROVE  stack'[k].i \in Attrs /\ stack'[k + 1].o = Target(k)'
      <3>1. k \in 1 .. Len(stack)
        BY <1>4, <1>5, <1>8, <2>3
      <3>2. CASE k = Len(stack)
        <4>1. Len(stack) > 0 /\ k + 1 = Len(stack) + 1
          BY <1>4, <3>1, <3>2
        <4>2. stack[k].i \in Attrs /\ Target(k) = t
          BY <3>2, <4>1
        <4>3. stack'[k + 1].o = t
          BY <1>3, <1>5, <4>1
        <4> QED  BY <1>5, <1>7, <3>1, <4>2, <4>3
      <3>3. CASE k # Len(stack)
        <4>1. k < Len(stack) /\ k + 1 \in 1 .. Len(stack)
          BY <1>4, <3>1, <3>3
        <4>2. stack[k].i \in Attrs /\ stack[k + 1].o = Target(k)
          BY <3>1, <4>1 DEF Chained
        <4>3. stack'[k + 1].o = Target(k) /\ stack'[k].i \in Attrs
          BY <1>5, <3>1, <4>1, <4>2
        <4> QED  BY <1>7, <3>1, <4>3
      <3> QED  BY <3>2, <3>3
    <2> QED  BY <2>1, <2>2, <2>3 DEF Chained
  <1>14. \A a \in m : a < d => obj[t].ptr[a] = Null
    <2>a. \A a \in m : a \in 1 .. NAttr
      BY DEF Attrs
    <2>d. d \in Nat
      BY <1>1, <1>2
    <2>1. \A a \in m : a < d => a \in 1 .. (d - 1)
      BY <1>1, <2>a, <2>d
    <2> QED  BY <1>2, <2>1
  <1> QED  BY <1>3, <1>4, <1>5, <1>6, <1>10, <1>11, <1>13, <1>14

\* The end of the activation on top: what is below it is at the attribute that
\* refers to its object.
LEMMA PopChained ==
    ASSUME stack \in Seq(Frame), Len(stack) > 0, NEW m, Chained(m), stack' = Below,
           \A o \in Obj : obj'[o].ptr = obj[o].ptr
    PROVE  /\ stack' \in Seq(Frame) /\ Len(stack') = Len(stack) - 1 /\ Len(stack') \in Nat
           /\ Active' = Active \ {Top.o} /\ Fresh' = Fresh \ {Top.o}
           /\ Top.o \in Active /\ Top.o \in Obj /\ (~Top.new => Top.o \notin Fresh)
           /\ Chained(m)'
           /\ \A k \in 1 .. Len(stack') : /\ stack'[k] = stack[k] /\ stack[k].o \in Obj
                                          /\ k \in 1 .. Len(stack)
           /\ Len(stack') > 0 => stack'[Len(stack')].i \in Attrs /\ Target(Len(stack))' = Top.o
  <1> DEFINE z == Len(stack)
  <1>1. /\ stack' \in Seq(Frame) /\ Len(stack') = z - 1 /\ Len(stack') \in Nat
        /\ z \in Nat /\ z \in 1 .. Len(stack)
        /\ \A k \in 1 .. Len(stack') : stack'[k] = stack[k]
    BY BelowIs
  <1>2. \A k \in 1 .. Len(stack) : stack[k].o \in Obj /\ stack[k].new \in BOOLEAN
    BY FrameOf
  <1>3. /\ \A k \in 1 .. Len(stack') : k \in 1 .. Len(stack) /\ k < z
        /\ \A k \in 1 .. Len(stack) : k \in 1 .. Len(stack') \/ k = z
    BY <1>1
  <1>4. \A k \in 1 .. Len(stack') : Target(k)' = Target(k)
    BY <1>1, <1>2, <1>3 DEF Target
  <1>5. \A j, k \in 1 .. Len(stack) : stack[j].o = stack[k].o => j = k
    BY DEF Chained
  <1>6. \A k \in 1 .. Len(stack') : stack[k].o # Top.o
    BY <1>1, <1>3, <1>5 DEF Top
  <1>7. Active' = Active \ {Top.o}
    <2>1. \A o : o \in Active' <=> o \in Active /\ o # Top.o
      BY <1>1, <1>3, <1>6 DEF Active, Top
    <2> QED  BY <2>1
  <1>8. Fresh' = Fresh \ {Top.o}
    <2>1. \A o : o \in Fresh' => o \in Fresh /\ o # Top.o
      BY <1>1, <1>3, <1>6 DEF Fresh
    <2>2. ASSUME NEW o \in Fresh, o # Top.o PROVE o \in Fresh'
      <3>1. PICK k \in 1 .. Len(stack) : stack[k].o = o /\ stack[k].new
        BY DEF Fresh
      <3>2. k \in 1 .. Len(stack')
        BY <1>3, <2>2, <3>1 DEF Top
      <3>3. stack'[k].o = o /\ stack'[k].new
        BY <1>1, <3>1, <3>2
      <3> QED  BY <3>2, <3>3 DEF Fresh
    <2> QED  BY <2>1, <2>2
  <1>9. Top.o \in Active /\ Top.o \in Obj /\ (~Top.new => Top.o \notin Fresh)
    BY <1>1, <1>2, <1>5 DEF Top, Active, Fresh
  <1>10. \A k \in 1 .. Len(stack') : stack[k].i \in Attrs /\ stack[k + 1].o = Target(k)
    BY <1>3 DEF Chained
  <1>11. Chained(m)'
    <2>1. ASSUME NEW j \in 1 .. Len(stack'), NEW k \in 1 .. Len(stack'), stack'[j].o = stack'[k].o
          PROVE  j = k
      <3>1. stack[j].o = stack[k].o /\ j \in 1 .. Len(stack) /\ k \in 1 .. Len(stack)
        BY <1>1, <1>3, <2>1
      <3> QED  BY <1>5, <3>1
    <2>2. \A k \in 1 .. Len(stack) : stack[k].i \in Attrs => stack[k].i \in m /\ Target(k) \in Obj
      BY DEF Chained
    <2>3. ASSUME NEW k \in 1 .. Len(stack'), stack'[k].i \in Attrs
          PROVE  stack'[k].i \in m /\ Target(k)' \in Obj
      BY <1>1, <1>3, <1>4, <2>2, <2>3
    <2>4. ASSUME NEW k \in 1 .. Len(stack'), k < Len(stack')
          PROVE  stack'[k].i \in Attrs /\ stack'[k + 1].o = Target(k)'
      <3>1. k + 1 \in 1 .. Len(stack')
        BY <1>1, <2>4
      <3>2. stack'[k].i \in Attrs /\ stack'[k + 1].o = Target(k)
        BY <1>1, <1>10, <3>1
      <3> QED  BY <1>4, <3>2
    <2> QED  BY <2>1, <2>3, <2>4 DEF Chained
  <1>12. ASSUME Len(stack') > 0
         PROVE  stack'[Len(stack')].i \in Attrs /\ Target(Len(stack))' = Top.o
    <2> DEFINE y == Len(stack')
    <2>1. y \in 1 .. Len(stack') /\ y + 1 = z
      BY <1>1, <1>12
    <2>2. stack'[y] = stack[y] /\ stack[y].i \in Attrs /\ stack[y + 1].o = Target(y) /\ stack[y].o \in Obj
      BY <1>1, <1>2, <1>3, <1>10, <2>1
    <2>3. obj'[stack'[y].o].ptr[stack'[y].i] = Top.o
      BY <2>1, <2>2 DEF Target, Top
    <2> QED  BY <2>2, <2>3 DEF Target
  <1> QED  BY <1>1, <1>2, <1>3, <1>7, <1>8, <1>9, <1>11, <1>12

\* The activation on top goes on to its next attribute.
LEMMA AdvanceChained ==
    ASSUME stack \in Seq(Frame), obj \in [Obj -> Objects], mode \in SUBSET Attrs, Chained(mode),
           AtAttr, Advance, \A o \in Obj : obj'[o].ptr = obj[o].ptr
    PROVE  /\ stack' \in Seq(Frame) /\ Len(stack') = Len(stack) /\ Len(stack) \in 1 .. Len(stack)
           /\ Active' = Active /\ Fresh' = Fresh /\ Top.o \in Active /\ Top.o \in Obj /\ Top.i \in Attrs
           /\ \A m : mode = m => Chained(m)'
           /\ \A k \in 1 .. Len(stack) : k # Len(stack) => stack'[k] = stack[k] /\ stack[k].o \in Obj
           /\ stack'[Len(stack)].o = Top.o
           /\ \A a \in mode : a < stack'[Len(stack)].i =>
                  a < Top.i \/ a = Top.i \/ obj[Top.o].ptr[a] = Null
  <1> DEFINE z == Len(stack)
             t == Top.o
             d == Down(Top.o, Top.i + 1, mode)
             f == [Top EXCEPT !.i = d]
  <1>1. /\ Below \in Seq(Frame) /\ Len(Below) = z - 1 /\ Len(Below) \in Nat
        /\ \A k \in 1 .. Len(Below) : Below[k] = stack[k]
        /\ Top \in Frame /\ z \in Nat /\ z \in 1 .. Len(stack)
    BY BelowIs DEF AtAttr
  <1>2. /\ NAttr \in Nat /\ t \in Obj /\ Top.new \in BOOLEAN
        /\ Top.i \in 1 .. NAttr + 1 /\ Top.i <= NAttr
    BY <1>1, RealizeAssumption, FrameOf DEF AtAttr, Top
  <1>3. Top.i \in Attrs /\ Top.i + 1 \in 1 .. NAttr + 1 /\ Top.i \in Nat
    BY <1>2 DEF Attrs
  <1>4. /\ d \in (Top.i + 1) .. (NAttr + 1) /\ (d \in Attrs => d \in mode /\ obj[t].ptr[d] # Null)
        /\ \A b \in (Top.i + 1) .. (d - 1) : b \notin mode \/ obj[t].ptr[b] = Null
    <2> DEFINE j == Top.i + 1
    <2>1. j \in 1 .. NAttr + 1
      BY <1>3
    <2> HIDE DEF j
    <2>2. /\ Down(t, j, mode) \in j .. (NAttr + 1)
          /\ Down(t, j, mode) \in Attrs => Down(t, j, mode) \in mode /\ obj[t].ptr[Down(t, j, mode)] # Null
          /\ \A b \in j .. (Down(t, j, mode) - 1) : b \notin mode \/ obj[t].ptr[b] = Null
      BY <2>1, DownIs
    <2> QED  BY <2>2 DEF j
  <1>5. stack' = Append(Below, f)
    BY DEF Advance
  <1> HIDE DEF d
  <1>6. d \in 1 .. NAttr + 1
    BY <1>2, <1>3, <1>4
  <1>7. f \in Frame /\ f.o = t /\ f.i = d /\ f.new = Top.new
    BY <1>1, <1>6 DEF Frame
  <1> HIDE DEF f
  <1>8. /\ stack' \in Seq(Frame) /\ Len(stack') = z /\ stack'[z] = f
        /\ \A k \in 1 .. Len(Below) : stack'[k] = stack[k]
    <2>1. Len(Below) + 1 = z
      BY <1>1
    <2> QED  BY <1>1, <1>5, <1>7, <2>1, PushIs
  <1>9. \A k \in 1 .. z : k # z => stack'[k] = stack[k]
    BY <1>1, <1>8
  <1>10. \A k \in 1 .. z : stack[k].o \in Obj /\ stack'[k].o = stack[k].o /\ stack'[k].new = stack[k].new
    <2>1. \A k \in 1 .. z : stack[k].o \in Obj
      BY FrameOf
    <2>2. stack'[z].o = stack[z].o /\ stack'[z].new = stack[z].new
      BY <1>7, <1>8 DEF Top
    <2> QED  BY <1>9, <2>1, <2>2
  <1>11. Active' = Active /\ t \in Active
    <2>1. \A o : o \in Active' <=> o \in Active
      BY <1>8, <1>10 DEF Active
    <2>2. t \in Active
      BY <1>1 DEF Active, Top
    <2> QED  BY <2>1, <2>2
  <1>12. Fresh' = Fresh
    <2>1. {j \in 1 .. Len(stack') : stack'[j].new} = {j \in 1 .. Len(stack) : stack[j].new}
      BY <1>8, <1>10
    <2>2. \A o : o \in Fresh' <=> o \in Fresh
      BY <1>8, <1>10, <2>1 DEF Fresh
    <2> QED  BY <2>2
  <1>13. ASSUME NEW m, mode = m PROVE Chained(m)'
    <2>0. /\ \A j, k \in 1 .. z : stack[j].o = stack[k].o => j = k
          /\ \A k \in 1 .. z : stack[k].i \in Attrs => stack[k].i \in m /\ Target(k) \in Obj
          /\ \A k \in 1 .. z : k < z => stack[k].i \in Attrs /\ stack[k + 1].o = Target(k)
      BY <1>13 DEF Chained
    <2>1. \A j, k \in 1 .. Len(stack') : stack'[j].o = stack'[k].o => j = k
      BY <1>8, <1>10, <2>0
    <2>t. \A k \in 1 .. z : k # z => Target(k)' = Target(k)
      BY <1>9, <1>10 DEF Target
    <2>2. ASSUME NEW k \in 1 .. Len(stack'), stack'[k].i \in Attrs
          PROVE  stack'[k].i \in m /\ Target(k)' \in Obj
      <3>0. k \in 1 .. z
        BY <1>8
      <3>1. CASE k = z
        <4>1. stack'[k].o = t /\ stack'[k].i = d /\ d \in Attrs
          BY <1>7, <1>8, <2>2, <3>1
        <4>2. Target(k)' = obj[t].ptr[d]
          BY <1>2, <4>1 DEF Target
        <4>3. obj[t].ptr[d] \in Obj
          BY <1>2, <1>4, <4>1 DEF Objects
        <4> QED  BY <1>4, <1>13, <4>1, <4>2, <4>3
      <3>2. CASE k # z
        BY <1>9, <2>0, <2>t, <2>2, <3>0, <3>2
      <3> QED  BY <3>1, <3>2
    <2>3. ASSUME NEW k \in 1 .. Len(stack'), k < Len(stack')
          PROVE  stack'[k].i \in Attrs /\ stack'[k + 1].o = Target(k)'
      <3>1. k \in 1 .. z /\ k + 1 \in 1 .. z /\ k < z /\ k # z
        BY <1>1, <1>8, <2>3
      <3>2. stack'[k].i \in Attrs /\ stack'[k + 1].o = Target(k)
        BY <1>9, <1>10, <2>0, <3>1
      <3> QED  BY <2>t, <3>1, <3>2
    <2> QED  BY <2>1, <2>2, <2>3 DEF Chained
  <1>14. ASSUME NEW a \in mode, a < d PROVE a < Top.i \/ a = Top.i \/ obj[t].ptr[a] = Null
    <2>1. a \in Nat /\ d \in Nat
      BY <1>2, <1>6 DEF Attrs
    <2>2. a < Top.i \/ a = Top.i \/ a \in (Top.i + 1) .. (d - 1)
      BY <1>3, <1>14, <2>1
    <2> QED  BY <1>4, <2>2
  <1> QED  BY <1>1, <1>2, <1>3, <1>7, <1>8, <1>9, <1>10, <1>11, <1>12, <1>13, <1>14

-----------------------------------------------------------------------------
(* Agregat::realize.                                                        *)

\* What holds when realize is called on t with mode m, from the application or from
\* the activation on top; l is the call.
Ready(t, m, l) ==
    /\ l \in LastType /\ l.op = "store" /\ l.mode = m /\ l.root \in Obj /\ ~l.ok
    /\ Chained(m) /\ Flagged
    /\ Len(stack) > 0 => stack[Len(stack)].i \in Attrs /\ Target(Len(stack)) = t
    /\ l.clean => Intact /\ Progress(m) /\ (l.root \in Known \/ l.root = t)

\* Setting or clearing the flag Realizing of t changes nothing else.
LEMMA FlagIs ==
    ASSUME obj \in [Obj -> Objects], NEW t \in Obj, NEW b \in BOOLEAN,
           obj' = [obj EXCEPT ![t].realizing = b]
    PROVE  /\ obj' \in [Obj -> Objects] /\ obj'[t].realizing = b
           /\ \A o \in Obj : /\ obj'[o].ptr = obj[o].ptr /\ obj'[o].ref = obj[o].ref
                             /\ obj'[o].val = obj[o].val /\ obj'[o].oid = obj[o].oid
                             /\ obj'[o].modify = obj[o].modify /\ obj'[o].removed = obj[o].removed
                             /\ o # t => obj'[o].realizing = obj[o].realizing
  <1>1. obj[t] \in Objects
    OBVIOUS
  <1> DEFINE x == [obj[t] EXCEPT !.realizing = b]
  <1>2. /\ x \in Objects /\ x.realizing = b /\ x.ptr = obj[t].ptr /\ x.ref = obj[t].ref
        /\ x.val = obj[t].val /\ x.oid = obj[t].oid /\ x.modify = obj[t].modify
        /\ x.removed = obj[t].removed
    BY <1>1 DEF Objects
  <1>3. obj' = [obj EXCEPT ![t] = x]
    OBVIOUS
  <1> HIDE DEF x
  <1>4. obj' \in [Obj -> Objects] /\ obj'[t] = x /\ \A o \in Obj : o # t => obj'[o] = obj[o]
    BY <1>2, <1>3
  <1> QED  BY <1>2, <1>4

\* t is being stored, or was stored by this call: the flag may be set, no more.
LEMMA KnownInv ==
    ASSUME Inv, NEW t \in Obj, NEW m \in SUBSET Attrs, NEW l, Ready(t, m, l),
           op' = "store", mode' = m, last' = l, ret' = "ok", stack' = stack,
           \/ obj[t].realizing /\ obj' = obj
           \/ t \in realized /\ obj' = [obj EXCEPT ![t].realizing = TRUE],
           UNCHANGED <<db, broken, refused, realized, visits>>
    PROVE  Inv'
  <1>t. Types /\ Control /\ Visits /\ Removals /\ Refs /\ Saved
    BY DEF Inv
  <1>r. /\ l \in LastType /\ l.op = "store" /\ l.mode = m /\ l.root \in Obj /\ ~l.ok
        /\ Chained(m) /\ Flagged
        /\ Len(stack) > 0 => stack[Len(stack)].i \in Attrs /\ Target(Len(stack)) = t
        /\ l.clean => Intact /\ Progress(m) /\ (l.root \in Known \/ l.root = t)
    BY DEF Ready
  <1>1. /\ obj' \in [Obj -> Objects]
        /\ \A o \in Obj : /\ obj'[o].ptr = obj[o].ptr /\ obj'[o].ref = obj[o].ref
                          /\ obj'[o].val = obj[o].val /\ obj'[o].oid = obj[o].oid
                          /\ obj'[o].modify = obj[o].modify /\ obj'[o].removed = obj[o].removed
                          /\ obj[o].realizing => obj'[o].realizing
                          /\ obj'[o].realizing => obj[o].realizing \/ o \in realized
    <2>1. CASE obj' = obj
      BY <1>t, <2>1 DEF Types
    <2>2. CASE t \in realized /\ obj' = [obj EXCEPT ![t].realizing = TRUE]
      <3>1. obj \in [Obj -> Objects] /\ TRUE \in BOOLEAN
        BY <1>t DEF Types
      <3>2. /\ obj' \in [Obj -> Objects] /\ obj'[t].realizing = TRUE
            /\ \A o \in Obj : /\ obj'[o].ptr = obj[o].ptr /\ obj'[o].ref = obj[o].ref
                              /\ obj'[o].val = obj[o].val /\ obj'[o].oid = obj[o].oid
                              /\ obj'[o].modify = obj[o].modify /\ obj'[o].removed = obj[o].removed
                              /\ o # t => obj'[o].realizing = obj[o].realizing
        BY <2>2, <3>1, FlagIs
      <3> QED  BY <2>2, <3>2
    <2> QED  BY <2>1, <2>2
  <1>2. \A k \in 1 .. Len(stack) : stack[k].o \in Obj
    BY <1>t, FrameOf DEF Types
  <1>3. \A k \in 1 .. Len(stack) : Target(k)' = Target(k)
    BY <1>1, <1>2 DEF Target
  <1>4. Active' = Active /\ Fresh' = Fresh /\ Known' = Known
    BY DEF Active, Fresh, Known
  <1>n. Len(stack) \in Nat /\ (Len(stack) > 0 => Len(stack) \in 1 .. Len(stack))
    BY <1>t DEF Types
  <1>z. Len(stack') > 0 => Target(Len(stack))' = t
    <2>1. Len(stack) > 0 => obj'[stack[Len(stack)].o].ptr = obj[stack[Len(stack)].o].ptr
      BY <1>1, <1>2, <1>n
    <2> QED  BY <1>r, <2>1 DEF Target
  <1>a. Active \subseteq Obj
    BY <1>2 DEF Active
  <1>5. Types'
    BY <1>1, <1>r, <1>t DEF Types, LastType
  <1>6. Control'
    BY <1>r, <1>t DEF Control
  <1>7. Stack'
    BY <1>3, <1>n, <1>r DEF Stack, Chained
  <1>8. Visits'
    <2>1. Flagged'
      BY <1>1, <1>4, <1>a, <1>r DEF Flagged
    <2> QED  BY <1>4, <1>t, <2>1 DEF Visits
  <1>9. Removals'
    BY <1>1, <1>4, <1>t DEF Removals
  <1>11. Refs'
    <2>1. SUFFICES ASSUME Intact' PROVE Oids' /\ obj'[t].oid
      BY <1>z DEF Refs
    <2>2. Oids
      BY <1>t, <2>1 DEF Refs, Intact
    <2>3. \A o \in Obj : \A a \in Attrs :
              obj[o].ref[a] \in Obj \cup {Null} /\ db[o].ref[a] \in Obj \cup {Null}
      BY <1>t DEF Types, Objects, Image
    <2>4. Oids'
      BY <1>1, <1>4, <2>2, <2>3 DEF Oids, Known
    <2>5. obj[t].oid
      BY <2>2 DEF Oids, Known
    <2> QED  BY <1>1, <2>4, <2>5
  <1>12. Saved'
    BY <1>1, <1>4, <1>t DEF Saved, Written, Intact
  <1>13. Storing'
    <2>1. SUFFICES ASSUME l.clean
                   PROVE  Intact' /\ Progress(mode)' /\ l.root \in Known' /\ t \in Known'
      BY <1>z DEF Storing
    <2>2. Progress(m) /\ Intact
      BY <1>r, <2>1
    <2>3. t \in Known
      BY <2>2 DEF Progress, Known
    <2>4. \A a \in m : Linked(a)' = Linked(a)
      BY <1>1, <1>4 DEF Linked
    <2>5. \A o \in Obj : Written(o)' <=> Written(o)
      BY <1>1 DEF Written
    <2>6. realized \subseteq Obj
      BY <1>t DEF Types
    <2>7. \A o \in Obj : obj'[o].realizing => o \in Known'
      BY <1>1, <1>4, <2>2 DEF Progress, Known
    <2>8. \A o \in realized : (obj'[o].removed \/ Written(o)') /\ \A a \in m : o \in Linked(a)'
      BY <1>1, <2>2, <2>4, <2>5, <2>6 DEF Progress
    <2>9. \A k \in 1 .. Len(stack) : \A a \in m : a < stack[k].i => stack[k].o \in Linked(a)'
      BY <2>2, <2>4 DEF Progress
    <2>10. Progress(mode)'
      BY <2>7, <2>8, <2>9 DEF Progress
    <2> QED  BY <1>4, <1>r, <2>1, <2>2, <2>3, <2>10 DEF Intact
  <1>14. Sweeping' /\ StoreComplete' /\ RemoveComplete'
    BY <1>r DEF Sweeping, StoreComplete, RemoveComplete, Stores
  <1> QED  BY <1>5, <1>6, <1>7, <1>8, <1>9, <1>11, <1>12, <1>13, <1>14 DEF Inv

\* t is visited for the first time by this store; a new object gets its oid.
LEMMA VisitInv ==
    ASSUME Inv, NEW t \in Obj, NEW m \in SUBSET Attrs, NEW l, Ready(t, m, l),
           op' = "store", mode' = m, last' = l, ret' = "none",
           ~obj[t].realizing, t \notin realized,
           stack' = Append(stack, [o |-> t, i |-> Down(t, 1, m), new |-> ~obj[t].oid]),
           obj' = [obj EXCEPT ![t].oid = TRUE, ![t].realizing = TRUE],
           db' = [db EXCEPT ![t].st = IF obj[t].oid THEN @ ELSE "reserved"],
           visits' = [visits EXCEPT ![t] = @ + 1],
           UNCHANGED <<broken, refused, realized>>
    PROVE  Inv'
  <1>t. Types /\ Control /\ Visits /\ Removals /\ Refs /\ Saved
    BY DEF Inv
  <1>r. /\ l \in LastType /\ l.op = "store" /\ l.mode = m /\ l.root \in Obj /\ ~l.ok
        /\ Chained(m) /\ Flagged
        /\ Len(stack) > 0 => stack[Len(stack)].i \in Attrs /\ Target(Len(stack)) = t
        /\ l.clean => Intact /\ Progress(m) /\ (l.root \in Known \/ l.root = t)
    BY DEF Ready
  <1>0. obj \in [Obj -> Objects] /\ db \in [Obj -> Image] /\ visits \in [Obj -> Nat] /\ stack \in Seq(Frame)
    BY <1>t DEF Types
  <1>1. /\ obj' \in [Obj -> Objects] /\ obj'[t].oid /\ obj'[t].realizing
        /\ \A o \in Obj : /\ obj'[o].ptr = obj[o].ptr /\ obj'[o].ref = obj[o].ref
                          /\ obj'[o].val = obj[o].val
                          /\ obj'[o].modify = obj[o].modify /\ obj'[o].removed = obj[o].removed
                          /\ obj[o].oid => obj'[o].oid
                          /\ o # t => obj'[o] = obj[o]
    <2> DEFINE x == [obj[t] EXCEPT !.oid = TRUE, !.realizing = TRUE]
    <2>1. obj[t] \in Objects
      BY <1>0
    <2>2. /\ x \in Objects /\ x.oid /\ x.realizing /\ x.ptr = obj[t].ptr /\ x.ref = obj[t].ref
          /\ x.val = obj[t].val /\ x.modify = obj[t].modify /\ x.removed = obj[t].removed
      BY <2>1 DEF Objects
    <2>3. obj' = [obj EXCEPT ![t] = x]
      BY <1>0
    <2> HIDE DEF x
    <2>4. obj' \in [Obj -> Objects] /\ obj'[t] = x /\ \A o \in Obj : o # t => obj'[o] = obj[o]
      BY <1>0, <2>2, <2>3
    <2> QED  BY <2>2, <2>4
  <1> DEFINE x == IF obj[t].oid THEN db[t].st ELSE "reserved"
  <1>2. /\ db' \in [Obj -> Image] /\ db'[t].st = x
        /\ \A o \in Obj : /\ db'[o].val = db[o].val /\ db'[o].ref = db[o].ref
                          /\ o # t => db'[o] = db[o]
    <2>1. db[t] \in Image
      BY <1>0
    <2>2. x \in {"none", "reserved", "written"} /\ db' = [db EXCEPT ![t].st = x]
      BY <2>1 DEF Image
    <2> HIDE DEF x
    <2> DEFINE y == [db[t] EXCEPT !.st = x]
    <2>3. y \in Image /\ y.st = x /\ y.val = db[t].val /\ y.ref = db[t].ref
      BY <2>1, <2>2 DEF Image
    <2>4. db' = [db EXCEPT ![t] = y]
      BY <1>0, <2>2
    <2> HIDE DEF y
    <2>5. db' \in [Obj -> Image] /\ db'[t] = y /\ \A o \in Obj : o # t => db'[o] = db[o]
      BY <1>0, <2>3, <2>4
    <2> QED  BY <2>3, <2>5
  <1>3. t \notin Active
    BY <1>r DEF Flagged
  <1>4. /\ stack' \in Seq(Frame) /\ Len(stack') = Len(stack) + 1 /\ Len(stack) \in Nat
        /\ Active' = Active \cup {t} /\ (IF obj[t].oid THEN Fresh' = Fresh ELSE Fresh' = Fresh \cup {t})
        /\ Chained(m)'
        /\ \A k \in 1 .. Len(stack) : stack'[k] = stack[k] /\ stack[k].o \in Obj
        /\ stack'[Len(stack) + 1].o = t
        /\ \A a \in m : a < stack'[Len(stack) + 1].i => obj[t].ptr[a] = Null
    <2>0. PICK n \in BOOLEAN : n = (~obj[t].oid)
      OBVIOUS
    <2>1. stack' = Append(stack, [o |-> t, i |-> Down(t, 1, m), new |-> n])
      BY <2>0
    <2>2. \A o \in Obj : obj'[o].ptr = obj[o].ptr
      BY <1>1
    <2>3. /\ stack' \in Seq(Frame) /\ Len(stack') = Len(stack) + 1 /\ Len(stack) \in Nat
          /\ Active' = Active \cup {t} /\ (n => Fresh' = Fresh \cup {t}) /\ (~n => Fresh' = Fresh)
          /\ Chained(m)'
          /\ \A k \in 1 .. Len(stack) : stack'[k] = stack[k] /\ stack[k].o \in Obj
          /\ stack'[Len(stack) + 1].o = t
          /\ \A a \in m : a < stack'[Len(stack) + 1].i => obj[t].ptr[a] = Null
      <3>1. stack \in Seq(Frame) /\ obj \in [Obj -> Objects] /\ Chained(m) /\ t \notin Active
        BY <1>0, <1>3, <1>r
      <3>2. Len(stack) > 0 => stack[Len(stack)].i \in Attrs /\ Target(Len(stack)) = t
        BY <1>r
      <3> QED  BY <2>1, <2>2, <3>1, <3>2, PushChained
    <2> QED  BY <2>0, <2>3
  <1>5. \A k \in 1 .. Len(stack') : k \in 1 .. Len(stack) \/ k = Len(stack) + 1
    BY <1>4
  <1>m. Known' = Known \cup {t}
    BY <1>4 DEF Known
  <1>7. Types'
    <2>1. visits' \in [Obj -> Nat]
      BY <1>0
    <2> QED  BY <1>1, <1>2, <1>4, <1>r, <1>t, <2>1 DEF Types, LastType
  <1>8. Control'
    BY <1>r, <1>t DEF Control
  <1>9. Stack'
    BY <1>4 DEF Stack, Chained
  <1>10. Visits'
    <2>1. visits[t] <= 1 /\ visits[t] # 1
      BY <1>3, <1>t DEF Visits, Known
    <2>2. visits'[t] = 1 /\ \A o \in Obj : o # t => visits'[o] = visits[o]
      BY <1>0, <2>1
    <2>3. \A o \in Obj : visits'[o] <= 1 /\ (visits'[o] = 1 => o \in Known')
      BY <1>m, <1>t, <2>2 DEF Visits
    <2>4. Active \subseteq Obj
      BY <1>4 DEF Active
    <2>5. Flagged'
      BY <1>1, <1>4, <1>r, <2>4 DEF Flagged
    <2> QED  BY <2>3, <2>5 DEF Visits
  <1>11. Removals'
    BY <1>1, <1>2, <1>4, <1>t DEF Removals
  <1>12. Refs'
    <2>1. SUFFICES ASSUME Intact' PROVE Oids'
      BY DEF Refs
    <2>2. Oids
      BY <1>t, <2>1 DEF Refs, Intact
    <2>3. \A o \in Obj : \A a \in Attrs :
              obj[o].ref[a] \in Obj \cup {Null} /\ db[o].ref[a] \in Obj \cup {Null}
      BY <1>0 DEF Objects, Image
    <2>4. \A o \in Obj : db'[o].st = "reserved" => o \in Fresh'
      BY <1>2, <1>4, <2>2 DEF Oids
    <2>5. \A o \in Obj : obj'[o].oid /\ ~obj'[o].removed => db'[o].st # "none"
      BY <1>1, <1>2, <2>2 DEF Oids
    <2>6. \A o \in Obj : \A a \in Attrs : obj'[o].ref[a] # Null => obj'[obj'[o].ref[a]].oid
      BY <1>1, <2>2, <2>3 DEF Oids
    <2>7. \A o \in Obj : \A a \in Attrs : db'[o].ref[a] # Null => obj'[db'[o].ref[a]].oid
      BY <1>1, <1>2, <2>2, <2>3 DEF Oids
    <2>8. \A o \in Obj : obj'[o].realizing \/ o \in Known' => obj'[o].oid
      BY <1>1, <1>m, <2>2 DEF Oids
    <2> QED  BY <2>4, <2>5, <2>6, <2>7, <2>8 DEF Oids
  <1>13. Saved'
    <2>1. \A o \in Obj : o # t /\ Written(o) => Written(o)'
      BY <1>1, <1>2 DEF Written
    <2>2. obj[t].oid /\ Written(t) => Written(t)'
      BY <1>1, <1>2 DEF Written
    <2>3. SUFFICES ASSUME Intact',
                          NEW o \in Obj, obj'[o].oid, ~obj'[o].modify, ~obj'[o].removed, o \notin Fresh'
                   PROVE  Written(o)'
      BY DEF Saved
    <2>4. o \notin Fresh /\ ~obj[o].modify /\ ~obj[o].removed /\ Intact
      BY <1>1, <1>4, <2>3 DEF Intact
    <2>5. obj[o].oid
      BY <1>1, <1>4, <2>3
    <2>6. Written(o)
      BY <1>t, <2>4, <2>5 DEF Saved
    <2> QED  BY <2>1, <2>2, <2>5, <2>6
  <1>14. Storing'
    <2>1. SUFFICES ASSUME l.clean PROVE Intact' /\ Progress(mode)' /\ l.root \in Known'
      BY DEF Storing
    <2>2. Progress(m) /\ Intact
      BY <1>r, <2>1
    <2>3. \A a \in m : Linked(a) \subseteq Linked(a)'
      BY <1>1, <1>m DEF Linked
    <2>4. \A o \in Obj : o # t /\ Written(o) => Written(o)'
      BY <1>1, <1>2 DEF Written
    <2>6. realized \subseteq Obj
      BY <1>t DEF Types
    <2>7. \A o \in Obj : obj'[o].realizing => o \in Known'
      BY <1>1, <1>m, <2>2 DEF Progress
    <2>8. \A o \in realized : (obj'[o].removed \/ Written(o)') /\ \A a \in m : o \in Linked(a)'
      BY <1>1, <2>2, <2>3, <2>4, <2>6 DEF Progress
    <2>9. ASSUME NEW k \in 1 .. Len(stack'), NEW a \in m, a < stack'[k].i
          PROVE  stack'[k].o \in Linked(a)'
      <3>1. CASE k \in 1 .. Len(stack)
        <4>1. stack'[k] = stack[k] /\ stack[k].o \in Linked(a)
          BY <1>4, <2>2, <2>9, <3>1 DEF Progress
        <4> QED  BY <2>3, <4>1
      <3>2. CASE k = Len(stack) + 1
        <4>1. stack'[k].o = t /\ obj'[t].ptr[a] = Null
          BY <1>1, <1>4, <2>9, <3>2
        <4> QED  BY <4>1 DEF Linked
      <3> QED  BY <1>5, <3>1, <3>2
    <2>10. Progress(mode)'
      BY <2>7, <2>8, <2>9 DEF Progress
    <2> QED  BY <1>m, <1>r, <2>1, <2>2, <2>10 DEF Intact
  <1>15. Sweeping' /\ StoreComplete' /\ RemoveComplete'
    BY <1>r DEF Sweeping, StoreComplete, RemoveComplete, Stores
  <1> QED  BY <1>7, <1>8, <1>9, <1>10, <1>11, <1>12, <1>13, <1>14, <1>15 DEF Inv

\* An activation of realize on t ends with an error: the transaction is marked, or a
\* constraint has refused t, and only the bounds of the recursion are left to keep.
LEMMA FailInv ==
    ASSUME Inv, NEW t \in Obj, NEW m \in SUBSET Attrs, NEW l, NEW r \in {"err", "refused"},
           l \in LastType, l.op = "store", l.mode = m, l.root \in Obj, ~l.ok, Flagged,
           op' = "store", mode' = m, last' = l,
           ret' = r, broken' = (broken \/ r = "err"), refused' = (refused \/ r = "refused"),
           obj' = [obj EXCEPT ![t].realizing = FALSE], realized' = realized \cup {t},
           visits' = visits, db' = db \/ db' = [db EXCEPT ![t] = Nothing],
           stack' \in Seq(Frame), Active' = Active \ {t}, Chained(m)',
           Len(stack') > 0 => stack'[Len(stack')].i \in Attrs
    PROVE  Inv'
  <1>t. Types /\ Control /\ Visits /\ Removals
    BY DEF Inv
  <1>0. obj \in [Obj -> Objects] /\ FALSE \in BOOLEAN
    BY <1>t DEF Types
  <1>1. /\ obj' \in [Obj -> Objects]
        /\ \A o \in Obj : /\ obj'[o].oid = obj[o].oid /\ obj'[o].removed = obj[o].removed
                          /\ o # t => obj'[o].realizing = obj[o].realizing
    <2>1. /\ obj' \in [Obj -> Objects] /\ obj'[t].realizing = FALSE
          /\ \A o \in Obj : /\ obj'[o].ptr = obj[o].ptr /\ obj'[o].ref = obj[o].ref
                            /\ obj'[o].val = obj[o].val /\ obj'[o].oid = obj[o].oid
                            /\ obj'[o].modify = obj[o].modify /\ obj'[o].removed = obj[o].removed
                            /\ o # t => obj'[o].realizing = obj[o].realizing
      BY <1>0, FlagIs
    <2> QED  BY <2>1
  <1>2. db' \in [Obj -> Image] /\ \A o \in Obj : db'[o].st \in {db[o].st, "none"}
    <2>1. db \in [Obj -> Image]
      BY <1>t DEF Types
    <2>2. Nothing \in Image /\ Nothing.st = "none"
      BY DEF Nothing, Image
    <2> QED  BY <2>1, <2>2
  <1>3. ~Intact' /\ broken' \in BOOLEAN /\ refused' \in BOOLEAN
    BY <1>t DEF Intact, Types
  <1>4. Types'
    BY <1>1, <1>2, <1>3, <1>t DEF Types, LastType
  <1>5. Control'
    BY DEF Control
  <1>6. Stack'
    BY DEF Stack, Chained
  <1>7. Visits'
    <2>1. Known \subseteq Known'
      BY DEF Known
    <2>2. Active \subseteq Obj
      BY <1>t, FrameOf DEF Types, Active
    <2>3. Flagged'
      BY <1>1, <2>2 DEF Flagged
    <2> QED  BY <1>t, <2>1, <2>3 DEF Visits
  <1>8. Removals'
    BY <1>1, <1>2, <1>t DEF Removals
  <1>9. Refs' /\ Saved'
    BY <1>3 DEF Refs, Saved
  <1>10. Storing' /\ Sweeping' /\ StoreComplete' /\ RemoveComplete'
    BY DEF Storing, Sweeping, StoreComplete, RemoveComplete, Stores
  <1> QED  BY <1>4, <1>5, <1>6, <1>7, <1>8, <1>9, <1>10 DEF Inv

\* Every way realize can begin on t.
LEMMA RealizeInv ==
    ASSUME Inv, NEW t \in Obj, NEW m \in SUBSET Attrs, NEW l, Ready(t, m, l),
           op' = "store", mode' = m, last' = l, Realize(t, stack, m)
    PROVE  Inv'
  <1>1. CASE /\ obj[t].realizing
             /\ ret' = "ok" /\ stack' = stack /\ UNCHANGED <<obj, db, broken, refused, realized, visits>>
    BY <1>1, KnownInv
  <1>2. CASE /\ ~obj[t].realizing /\ t \in realized
             /\ ret' = "ok" /\ stack' = stack /\ obj' = [obj EXCEPT ![t].realizing = TRUE]
             /\ UNCHANGED <<db, broken, refused, realized, visits>>
    BY <1>2, KnownInv
  <1>3. CASE /\ ~obj[t].realizing /\ t \notin realized
             /\ ret' = "none"
             /\ stack' = Append(stack, [o |-> t, i |-> Down(t, 1, m), new |-> ~obj[t].oid])
             /\ obj' = [obj EXCEPT ![t].oid = TRUE, ![t].realizing = TRUE]
             /\ db' = [db EXCEPT ![t].st = IF obj[t].oid THEN @ ELSE "reserved"]
             /\ visits' = [visits EXCEPT ![t] = @ + 1]
             /\ UNCHANGED <<broken, refused, realized>>
    BY <1>3, VisitInv
  <1>4. CASE /\ ~obj[t].realizing /\ Fails("err", t, stack) /\ UNCHANGED <<db, visits>>
    <2>1. /\ l \in LastType /\ l.op = "store" /\ l.mode = m /\ l.root \in Obj /\ ~l.ok
          /\ Chained(m) /\ Flagged
          /\ Len(stack) > 0 => stack[Len(stack)].i \in Attrs
      BY DEF Ready
    <2>2. stack \in Seq(Frame) /\ obj \in [Obj -> Objects]
      BY DEF Inv, Types
    <2>3. /\ ret' = "err" /\ broken' = (broken \/ "err" = "err") /\ refused' = (refused \/ "err" = "refused")
          /\ obj' = [obj EXCEPT ![t].realizing = FALSE] /\ realized' = realized \cup {t}
          /\ visits' = visits /\ db' = db /\ stack' = stack
      BY <1>4 DEF Fails
    <2>4. Active' = Active \ {t}
      <3>1. t \notin Active /\ Active' = Active
        BY <1>4, <2>1, <2>3 DEF Flagged, Active
      <3> QED  BY <3>1
    <2>5. Chained(m)'
      <3>1. \A o \in Obj : obj'[o].ptr = obj[o].ptr
        BY <2>2, <2>3 DEF Objects
      <3>2. \A k \in 1 .. Len(stack) : stack[k].o \in Obj
        BY <2>2, FrameOf
      <3>3. \A k \in 1 .. Len(stack) : Target(k)' = Target(k)
        BY <2>3, <3>1, <3>2 DEF Target
      <3> QED  BY <2>1, <2>3, <3>3 DEF Chained
    <2>6. stack' \in Seq(Frame) /\ (Len(stack') > 0 => stack'[Len(stack')].i \in Attrs)
      BY <2>1, <2>2, <2>3
    <2> QED  BY <2>1, <2>3, <2>4, <2>5, <2>6, FailInv
  <1> QED  BY <1>1, <1>2, <1>3, <1>4 DEF Realize

\* Object::store.
LEMMA StoreInv ==
    ASSUME Inv, NEW o \in Obj, NEW m \in Modes, Store(o, m)
    PROVE  Inv'
  <1> DEFINE c == ~refused /\ \A u \in Obj : ~obj[u].realizing
             l == [op |-> "store", root |-> o, mode |-> m, ok |-> FALSE, clean |-> c]
  <1>1. Types /\ Control
    BY DEF Inv
  <1>2. op = "none" /\ ~broken /\ op' = "store" /\ mode' = m /\ last' = l /\ Realize(o, <<>>, m)
    BY DEF Store
  <1>3. stack = <<>> /\ Len(stack) = 0 /\ realized = {}
    <2>1. stack \in Seq(Frame) /\ Len(stack) = 0 /\ realized = {}
      BY <1>1, <1>2 DEF Types, Control
    <2> QED  BY <2>1
  <1>4. m \in SUBSET Attrs
    BY RealizeAssumption DEF Attrs
  <1>5. c \in BOOLEAN /\ (c => ~refused /\ \A u \in Obj : ~obj[u].realizing)
    OBVIOUS
  <1> HIDE DEF c
  <1>6. l \in LastType /\ l.op = "store" /\ l.mode = m /\ l.root = o /\ l.ok = FALSE /\ l.clean = c
    BY <1>4, <1>5 DEF LastType
  <1> HIDE DEF l
  <1>7. Ready(o, m, l)
    <2>1. Active = {}
      BY <1>3 DEF Active
    <2>2. Chained(m) /\ Flagged
      BY <1>3, <2>1 DEF Chained, Flagged
    <2>3. c => Intact /\ Progress(m)
      BY <1>2, <1>3, <1>5 DEF Intact, Progress
    <2> QED  BY <1>2, <1>3, <1>6, <2>2, <2>3 DEF Ready
  <1>8. Realize(o, stack, m)
    BY <1>2, <1>3
  <1> QED  BY <1>2, <1>4, <1>7, <1>8, RealizeInv

\* AttrIndirect::realize: the call of realize on the target of an attribute.
LEMMA StoreDownInv ==
    ASSUME Inv, op = "store", AtAttr, ret = "none",
           Realize(obj[Top.o].ptr[Top.i], stack, mode), UNCHANGED <<op, mode, last>>
    PROVE  Inv'
  <1> DEFINE t == obj[Top.o].ptr[Top.i]
             m == mode
             l == last
  <1>1. Types /\ Control /\ Stack /\ Visits /\ Storing
    BY DEF Inv
  <1>2. stack \in Seq(Frame) /\ Len(stack) > 0 /\ Len(stack) \in 1 .. Len(stack)
    BY <1>1, BelowIs DEF AtAttr, Types
  <1>3. stack[Len(stack)].i \in Attrs
    <2>1. NAttr \in Nat /\ Top.i \in 1 .. NAttr + 1 /\ Top.i <= NAttr
      BY <1>2, FrameOf, RealizeAssumption DEF AtAttr, Top
    <2> QED  BY <2>1 DEF Attrs, Top
  <1>4. Target(Len(stack)) = t /\ t \in Obj
    BY <1>1, <1>2, <1>3 DEF Target, Top, Stack, Chained
  <1>5. m \in SUBSET Attrs /\ l \in LastType
    BY <1>1 DEF Types, LastType
  <1>6. l.op = "store" /\ l.mode = m /\ l.root \in Obj /\ ~l.ok
    BY <1>1 DEF Control
  <1>7. Chained(m) /\ Flagged
    BY <1>1 DEF Stack, Visits
  <1>8. l.clean => Intact /\ Progress(m) /\ l.root \in Known
    BY <1>1 DEF Storing
  <1>9. Ready(t, m, l)
    BY <1>3, <1>4, <1>5, <1>6, <1>7, <1>8 DEF Ready
  <1>10. op' = "store" /\ mode' = m /\ last' = l /\ Realize(t, stack, m)
    OBVIOUS
  <1> HIDE DEF t, m, l
  <1> QED  BY <1>4, <1>5, <1>9, <1>10, RealizeInv

\* What objectCreate or objectWrite, if c it is called, and the end of realize change.
WriteDone(t, c) ==
    /\ db' = IF c THEN [db EXCEPT ![t] = [st |-> "written", val |-> obj[t].val, ref |-> obj[t].ref]]
             ELSE db
    /\ obj' = [obj EXCEPT ![t].modify = IF c THEN FALSE ELSE @, ![t].realizing = FALSE]

\* The end of realize with success: the object joins realizedMap, written if it is
\* new or modified.
LEMMA WrittenInv ==
    ASSUME Inv, NEW t \in Obj, t = Top.o, op = "store", Len(stack) > 0, ret = "none", Top.i > NAttr,
           NEW c \in BOOLEAN, c = (Top.new \/ obj[t].modify),
           WriteDone(t, c),
           c => db[t].st # "none",
           ret' = "ok", stack' = Below, realized' = realized \cup {t},
           UNCHANGED <<broken, refused, op, mode, last, visits>>
    PROVE  Inv'
  <1>t. Types /\ Control /\ Stack /\ Visits /\ Removals /\ Refs /\ Saved /\ Storing
    BY DEF Inv
  <1>0. /\ obj \in [Obj -> Objects] /\ db \in [Obj -> Image] /\ stack \in Seq(Frame)
        /\ Chained(mode) /\ Flagged /\ mode \in SUBSET Attrs
    BY <1>t DEF Types, Stack, Visits
  <1>o. t \in Obj /\ Len(stack) \in 1 .. Len(stack)
    BY <1>0, BelowIs, FrameOf DEF Top
  <1>1. /\ obj' \in [Obj -> Objects] /\ ~obj'[t].realizing /\ (obj'[t].modify => ~c /\ obj[t].modify)
        /\ (~c => obj'[t].modify = obj[t].modify)
        /\ \A o \in Obj : /\ obj'[o].ptr = obj[o].ptr /\ obj'[o].ref = obj[o].ref
                          /\ obj'[o].val = obj[o].val /\ obj'[o].oid = obj[o].oid
                          /\ obj'[o].removed = obj[o].removed
                          /\ o # t => obj'[o] = obj[o]
    <2> DEFINE b == IF c THEN FALSE ELSE obj[t].modify
               x == [obj[t] EXCEPT !.modify = b, !.realizing = FALSE]
    <2>1. obj[t] \in Objects
      BY <1>0, <1>o
    <2>2. b \in BOOLEAN /\ (b => ~c /\ obj[t].modify) /\ (~c => b = obj[t].modify)
      BY <2>1 DEF Objects
    <2>3. obj' = [obj EXCEPT ![t] = x]
      BY <1>0, <1>o DEF WriteDone
    <2> HIDE DEF b
    <2>4. /\ x \in Objects /\ x.modify = b /\ ~x.realizing /\ x.ptr = obj[t].ptr /\ x.ref = obj[t].ref
          /\ x.val = obj[t].val /\ x.oid = obj[t].oid /\ x.removed = obj[t].removed
      BY <2>1, <2>2 DEF Objects
    <2> HIDE DEF x
    <2>5. obj' \in [Obj -> Objects] /\ obj'[t] = x /\ \A o \in Obj : o # t => obj'[o] = obj[o]
      BY <1>0, <1>o, <2>3, <2>4
    <2> QED  BY <2>2, <2>4, <2>5
  <1>2. /\ db' \in [Obj -> Image] /\ \A o \in Obj : o # t => db'[o] = db[o]
        /\ c => db'[t].st = "written" /\ db'[t].val = obj[t].val /\ db'[t].ref = obj[t].ref
        /\ ~c => db' = db
    <2> DEFINE x == [st |-> "written", val |-> obj[t].val, ref |-> obj[t].ref]
    <2>1. obj[t] \in Objects
      BY <1>0, <1>o
    <2>2. x \in Image /\ x.st = "written" /\ x.val = obj[t].val /\ x.ref = obj[t].ref
      BY <2>1 DEF Objects, Image
    <2>3. (c => db' = [db EXCEPT ![t] = x]) /\ (~c => db' = db)
      BY DEF WriteDone
    <2> HIDE DEF x
    <2> QED  BY <1>0, <1>o, <2>2, <2>3
  <1>3. /\ stack' \in Seq(Frame) /\ Len(stack') = Len(stack) - 1 /\ Len(stack') \in Nat
        /\ Active' = Active \ {t} /\ Fresh' = Fresh \ {t}
        /\ t \in Active /\ (~Top.new => t \notin Fresh)
        /\ \A k \in 1 .. Len(stack') : /\ stack'[k] = stack[k] /\ stack[k].o \in Obj
                                       /\ k \in 1 .. Len(stack)
        /\ Len(stack') > 0 => stack'[Len(stack')].i \in Attrs /\ Target(Len(stack))' = t
    BY <1>0, <1>1, PopChained
  <1>c. \A m : mode = m => Chained(m)'
    <2>1. SUFFICES ASSUME NEW m, mode = m PROVE Chained(m)'
      OBVIOUS
    <2>2. Chained(m)
      BY <1>0, <2>1
    <2> QED  BY <1>0, <1>1, <2>2, PopChained
  <1>m. Known' = Known /\ t \in Known
    BY <1>3 DEF Known
  <1>4. Types'
    BY <1>1, <1>2, <1>3, <1>o, <1>t DEF Types
  <1>5. Control'
    BY <1>t DEF Control
  <1>6. Stack'
    BY <1>3, <1>c DEF Stack, Chained
  <1>7. Visits'
    <2>1. Active \subseteq Obj
      BY <1>0, FrameOf DEF Active
    <2>2. Flagged'
      BY <1>0, <1>1, <1>3, <2>1 DEF Flagged
    <2> QED  BY <1>m, <1>t, <2>2 DEF Visits
  <1>8. Removals'
    <2>0. obj[t].removed => db[t].st = "none"
      BY <1>t DEF Removals
    <2>1. obj[t].removed => ~c
      BY <2>0
    <2> QED  BY <1>1, <1>2, <1>3, <1>t, <2>1 DEF Removals
  <1>w. ASSUME Intact
        PROVE  /\ Oids /\ obj[t].oid
               /\ obj'[t].removed \/ Written(t)'
               /\ ~c => t \notin Fresh
    <2>1. Oids
      BY <1>t, <1>w DEF Refs
    <2>2. obj[t].oid
      BY <1>m, <1>o, <2>1 DEF Oids
    <2>3. CASE c
      BY <1>1, <1>2, <1>o, <2>1, <2>2, <2>3 DEF Written
    <2>4. CASE ~c
      <3>1. ~obj[t].modify /\ t \notin Fresh
        BY <1>3, <2>4
      <3>2. obj[t].removed \/ Written(t)
        BY <1>o, <1>t, <1>w, <2>2, <3>1 DEF Saved
      <3>3. Written(t) => Written(t)'
        BY <1>1, <1>2, <1>o, <2>4 DEF Written
      <3> QED  BY <1>1, <1>o, <2>1, <2>2, <3>1, <3>2, <3>3
    <2> QED  BY <2>3, <2>4
  <1>9. Refs'
    <2>1. SUFFICES ASSUME Intact' PROVE Oids' /\ obj'[t].oid
      BY <1>3 DEF Refs
    <2>2. Oids /\ obj[t].oid /\ (~c => t \notin Fresh)
      BY <1>w, <2>1 DEF Intact
    <2>3. \A o \in Obj : \A a \in Attrs :
              obj[o].ref[a] \in Obj \cup {Null} /\ db[o].ref[a] \in Obj \cup {Null}
      BY <1>0 DEF Objects, Image
    <2>4. \A o \in Obj : db'[o].st = "reserved" => o \in Fresh'
      BY <1>2, <1>3, <2>2 DEF Oids
    <2>5. \A o \in Obj : obj'[o].oid /\ ~obj'[o].removed => db'[o].st # "none"
      BY <1>1, <1>2, <2>2 DEF Oids
    <2>r. \A o \in Obj : \A a \in Attrs :
              /\ obj[o].ref[a] # Null => obj[obj[o].ref[a]].oid
              /\ db[o].ref[a] # Null => obj[db[o].ref[a]].oid
      BY <2>2 DEF Oids
    <2>6. ASSUME NEW o \in Obj, NEW a \in Attrs, obj'[o].ref[a] # Null
          PROVE  obj'[obj'[o].ref[a]].oid
      <3>1. obj'[o].ref[a] = obj[o].ref[a] /\ obj[o].ref[a] \in Obj
        BY <1>1, <2>3, <2>6
      <3>2. obj[obj[o].ref[a]].oid
        BY <2>r, <2>6, <3>1
      <3>3. \A u \in Obj : obj'[u].oid = obj[u].oid
        BY <1>1
      <3> QED  BY <3>1, <3>2, <3>3
    <2>7. ASSUME NEW o \in Obj, NEW a \in Attrs, db'[o].ref[a] # Null
          PROVE  obj'[db'[o].ref[a]].oid
      <3>1. db'[o].ref = db[o].ref \/ db'[o].ref = obj[o].ref
        BY <1>2
      <3>2. db'[o].ref[a] \in Obj /\ obj[db'[o].ref[a]].oid
        BY <2>3, <2>r, <2>7, <3>1
      <3> QED  BY <1>1, <3>2
    <2>8. \A o \in Obj : obj'[o].realizing \/ o \in Known' => obj'[o].oid
      BY <1>1, <1>m, <2>2 DEF Oids
    <2>9. Oids'
      BY <2>4, <2>5, <2>6, <2>7, <2>8 DEF Oids
    <2> QED  BY <1>1, <1>o, <2>2, <2>9
  <1>10. Saved'
    <2>1. \A o \in Obj : o # t /\ Written(o) => Written(o)'
      BY <1>1, <1>2 DEF Written
    <2>2. SUFFICES ASSUME Intact',
                          NEW o \in Obj, obj'[o].oid, ~obj'[o].modify, ~obj'[o].removed, o \notin Fresh'
                   PROVE  Written(o)'
      BY DEF Saved
    <2>3. Intact
      BY <2>2 DEF Intact
    <2>4. CASE o = t
      BY <1>w, <2>2, <2>3, <2>4
    <2>5. CASE o # t
      BY <1>1, <1>3, <1>t, <2>1, <2>2, <2>3, <2>5 DEF Saved
    <2> QED  BY <2>4, <2>5
  <1>11. Storing'
    <2>1. SUFFICES ASSUME last.clean
                   PROVE  Intact' /\ Progress(mode)' /\ last.root \in Known' /\ t \in Known'
      BY <1>3 DEF Storing
    <2>2. Progress(mode) /\ Intact /\ last.root \in Known
      BY <1>t, <2>1 DEF Storing
    <2>3. \A a \in mode : Linked(a) \subseteq Linked(a)'
      BY <1>1, <1>m DEF Linked
    <2>4. \A o \in Obj : o # t /\ Written(o) => Written(o)'
      BY <1>1, <1>2 DEF Written
    <2>6. realized \subseteq Obj
      BY <1>t DEF Types
    <2>7. \A o \in Obj : obj'[o].realizing => o \in Known'
      BY <1>1, <1>m, <2>2 DEF Progress
    <2>8. t \notin realized
      BY <1>0, <1>3 DEF Flagged
    <2>9. \A o \in realized : (obj'[o].removed \/ Written(o)') /\ \A a \in mode : o \in Linked(a)'
      BY <1>1, <2>2, <2>3, <2>4, <2>6, <2>8 DEF Progress
    <2>10. \A a \in mode : t \in Linked(a)'
      <3>1. \A a \in mode : a \in 1 .. NAttr
        BY <1>0 DEF Attrs
      <3>2. NAttr \in Nat /\ stack[Len(stack)].i \in Nat /\ stack[Len(stack)].i > NAttr
        BY <1>0, <1>o, FrameOf, RealizeAssumption DEF Top
      <3>3. \A a \in mode : a < stack[Len(stack)].i
        BY <3>1, <3>2
      <3>4. \A a \in mode : stack[Len(stack)].o \in Linked(a)
        BY <1>o, <2>2, <3>3 DEF Progress
      <3> QED  BY <2>3, <3>4 DEF Top
    <2>11. \A o \in realized' : (obj'[o].removed \/ Written(o)') /\ \A a \in mode : o \in Linked(a)'
      BY <1>w, <2>2, <2>9, <2>10
    <2>12. \A k \in 1 .. Len(stack') : \A a \in mode : a < stack'[k].i => stack'[k].o \in Linked(a)'
      BY <1>3, <2>2, <2>3 DEF Progress
    <2>13. Progress(mode)'
      BY <2>7, <2>11, <2>12 DEF Progress
    <2> QED  BY <1>m, <2>2, <2>13 DEF Intact
  <1>12. Sweeping' /\ StoreComplete' /\ RemoveComplete'
    BY <1>t DEF Control, Sweeping, StoreComplete, RemoveComplete, Stores
  <1> QED  BY <1>4, <1>5, <1>6, <1>7, <1>8, <1>9, <1>10, <1>11, <1>12 DEF Inv

\* The activation on top, on t, ends with an error.
LEMMA TopFailsInv ==
    ASSUME Inv, op = "store", Len(stack) > 0, NEW t \in Obj, t = Top.o, NEW r \in {"err", "refused"},
           Fails(r, t, Below), db' = db \/ db' = [db EXCEPT ![t] = Nothing],
           UNCHANGED <<op, mode, last, visits>>
    PROVE  Inv'
  <1>1. Types /\ Control /\ Stack /\ Visits
    BY DEF Inv
  <1>2. /\ obj \in [Obj -> Objects] /\ stack \in Seq(Frame) /\ Flagged
        /\ mode \in SUBSET Attrs /\ last \in LastType
    BY <1>1 DEF Types, Visits, LastType
  <1>3. PICK m \in SUBSET Attrs : mode = m
    BY <1>2
  <1>4. PICK l \in LastType : last = l
    BY <1>2
  <1>5. l.op = "store" /\ l.mode = m /\ l.root \in Obj /\ ~l.ok
    BY <1>1, <1>3, <1>4 DEF Control
  <1>6. /\ ret' = r /\ stack' = Below /\ broken' = (broken \/ r = "err")
        /\ refused' = (refused \/ r = "refused")
        /\ obj' = [obj EXCEPT ![t].realizing = FALSE] /\ realized' = realized \cup {t}
        /\ op' = "store" /\ mode' = m /\ last' = l /\ visits' = visits
    BY <1>3, <1>4 DEF Fails
  <1>7. \A o \in Obj : obj'[o].ptr = obj[o].ptr
    BY <1>2, <1>6 DEF Objects
  <1>8. Chained(m)
    BY <1>1, <1>3 DEF Stack
  <1>9. /\ stack' \in Seq(Frame) /\ Active' = Active \ {t} /\ Chained(m)'
        /\ Len(stack') > 0 => stack'[Len(stack')].i \in Attrs
    BY <1>2, <1>6, <1>7, <1>8, PopChained
  <1> QED  BY <1>2, <1>5, <1>6, <1>9, FailInv

\* The end of Agregat::realize.
LEMMA WriteInv ==
    ASSUME Inv, Write
    PROVE  Inv'
  <1>1. op = "store" /\ Len(stack) > 0 /\ ret = "none" /\ Top.i > NAttr
        /\ UNCHANGED <<op, mode, last, visits>>
    BY DEF Write
  <1>2. PICK t \in Obj : t = Top.o
    <2>1. stack \in Seq(Frame)
      BY DEF Inv, Types
    <2>2. Top.o \in Obj
      BY <1>1, <2>1, BelowIs, FrameOf DEF Top
    <2> QED  BY <2>2
  <1>3. PICK c \in BOOLEAN : c = (Top.new \/ obj[t].modify)
    OBVIOUS
  <1>4. CASE /\ c => db[t].st # "none"
             /\ db' = IF c THEN [db EXCEPT ![t] = [st |-> "written", val |-> obj[t].val, ref |-> obj[t].ref]]
                      ELSE db
             /\ obj' = [obj EXCEPT ![t].modify = IF c THEN FALSE ELSE @, ![t].realizing = FALSE]
             /\ ret' = "ok" /\ stack' = Below /\ realized' = realized \cup {t}
             /\ UNCHANGED <<broken, refused>>
    <2>1. WriteDone(t, c)
      BY <1>4 DEF WriteDone
    <2> QED  BY <1>1, <1>2, <1>3, <1>4, <2>1, WrittenInv
  <1>5. CASE Fails("err", t, Below) /\ UNCHANGED db
    BY <1>1, <1>2, <1>5, TopFailsInv
  <1>6. CASE /\ Fails("refused", t, Below)
             /\ db' = IF Top.new THEN [db EXCEPT ![t] = Nothing] ELSE db
    BY <1>1, <1>2, <1>6, TopFailsInv
  <1> QED  BY <1>2, <1>3, <1>4, <1>5, <1>6 DEF Write

\* The assignment of Agregat::setItemOid.
ItemSet(t, i, v) == obj' = [obj EXCEPT ![t].ref[i] = v, ![t].modify = @ \/ obj[t].ref[i] # v]

\* What Agregat::setItemOid changes: the oid of one attribute, and the mark that the
\* object is modified if the oid is another one.
LEMMA ItemIs ==
    ASSUME obj \in [Obj -> Objects], NEW t \in Obj, NEW i \in Attrs, NEW v \in Obj \cup {Null},
           ItemSet(t, i, v)
    PROVE  /\ obj' \in [Obj -> Objects] /\ obj'[t].ref[i] = v
           /\ \A a \in Attrs : a # i => obj'[t].ref[a] = obj[t].ref[a]
           /\ ~obj'[t].modify => ~obj[t].modify /\ obj'[t].ref = obj[t].ref
           /\ \A o \in Obj : /\ obj'[o].ptr = obj[o].ptr /\ obj'[o].realizing = obj[o].realizing
                             /\ obj'[o].val = obj[o].val /\ obj'[o].oid = obj[o].oid
                             /\ obj'[o].removed = obj[o].removed
                             /\ o # t => obj'[o] = obj[o]
  <1> DEFINE b == obj[t].modify \/ obj[t].ref[i] # v
             f == [obj[t].ref EXCEPT ![i] = v]
             x == [obj[t] EXCEPT !.ref = f, !.modify = b]
  <1>1. obj[t] \in Objects /\ obj[t].ref \in [Attrs -> Obj \cup {Null}] /\ obj[t].modify \in BOOLEAN
    BY DEF Objects
  <1>2. /\ f \in [Attrs -> Obj \cup {Null}] /\ f[i] = v
        /\ \A a \in Attrs : a # i => f[a] = obj[t].ref[a]
        /\ obj[t].ref[i] = v => f = obj[t].ref
    BY <1>1
  <1>3. b \in BOOLEAN /\ (~b => ~obj[t].modify /\ obj[t].ref[i] = v)
    BY <1>1
  <1>4. obj' = [obj EXCEPT ![t] = x]
    BY <1>1 DEF ItemSet
  <1> HIDE DEF b, f
  <1>5. /\ x \in Objects /\ x.ref = f /\ x.modify = b /\ x.ptr = obj[t].ptr
        /\ x.realizing = obj[t].realizing /\ x.val = obj[t].val /\ x.oid = obj[t].oid
        /\ x.removed = obj[t].removed
    BY <1>1, <1>2, <1>3 DEF Objects
  <1> HIDE DEF x
  <1>6. obj' \in [Obj -> Objects] /\ obj'[t] = x /\ \A o \in Obj : o # t => obj'[o] = obj[o]
    BY <1>4, <1>5
  <1> QED  BY <1>2, <1>3, <1>5, <1>6

\* Agregat::setItemOid in a store: the target's oid is copied, and the object is
\* modified unless it had it.
LEMMA StoreItemInv ==
    ASSUME Inv, op = "store", AtAttr, ret = "ok", Advance, ret' = "none",
           NEW t \in Obj, t = Top.o, NEW i \in Attrs, i = Top.i, NEW v, v = obj[t].ptr[i],
           ItemSet(t, i, v),
           UNCHANGED <<db, op, mode, realized, broken, refused, last, visits>>
    PROVE  Inv'
  <1>t. Types /\ Control /\ Stack /\ Visits /\ Removals /\ Refs /\ Saved /\ Storing
    BY DEF Inv
  <1>0. /\ obj \in [Obj -> Objects] /\ db \in [Obj -> Image] /\ stack \in Seq(Frame)
        /\ Chained(mode) /\ Flagged /\ mode \in SUBSET Attrs
    BY <1>t DEF Types, Stack, Visits
  <1>v. v \in Obj /\ v # Null /\ Len(stack) > 0 /\ Target(Len(stack)) = v
    <2>1. Len(stack) > 0 /\ Len(stack) \in 1 .. Len(stack)
      BY <1>0, BelowIs DEF AtAttr
    <2>2. stack[Len(stack)].o = t /\ stack[Len(stack)].i = i
      BY DEF Top
    <2>3. Target(Len(stack)) = v
      BY <2>2 DEF Target
    <2>4. Target(Len(stack)) \in Obj
      BY <1>0, <2>1, <2>2 DEF Chained
    <2> QED  BY <2>1, <2>3, <2>4, RealizeAssumption
  <1>1. /\ obj' \in [Obj -> Objects] /\ obj'[t].ref[i] = v
        /\ \A a \in Attrs : a # i => obj'[t].ref[a] = obj[t].ref[a]
        /\ ~obj'[t].modify => ~obj[t].modify /\ obj'[t].ref = obj[t].ref
        /\ \A o \in Obj : /\ obj'[o].ptr = obj[o].ptr /\ obj'[o].realizing = obj[o].realizing
                          /\ obj'[o].val = obj[o].val /\ obj'[o].oid = obj[o].oid
                          /\ obj'[o].removed = obj[o].removed
                          /\ o # t => obj'[o] = obj[o]
    BY <1>0, <1>v, ItemIs
  <1>3. /\ stack' \in Seq(Frame) /\ Len(stack') = Len(stack) /\ Len(stack) \in 1 .. Len(stack)
        /\ Active' = Active /\ Fresh' = Fresh /\ t \in Active
        /\ \A m : mode = m => Chained(m)'
        /\ \A k \in 1 .. Len(stack) : k # Len(stack) => stack'[k] = stack[k] /\ stack[k].o \in Obj
        /\ stack'[Len(stack)].o = t
        /\ \A a \in mode : a < stack'[Len(stack)].i =>
               a < Top.i \/ a = Top.i \/ obj[t].ptr[a] = Null
    BY <1>0, <1>1, AdvanceChained
  <1>m. Known' = Known
    BY <1>3 DEF Known
  <1>4. Types'
    BY <1>1, <1>3, <1>t DEF Types
  <1>5. Control'
    BY <1>t DEF Control
  <1>6. Stack'
    BY <1>3 DEF Stack, Chained
  <1>7. Visits'
    <2>1. Active \subseteq Obj
      BY <1>0, FrameOf DEF Active
    <2>2. Flagged'
      BY <1>0, <1>1, <1>3, <2>1 DEF Flagged
    <2> QED  BY <1>m, <1>t, <2>2 DEF Visits
  <1>8. Removals'
    BY <1>1, <1>3, <1>t DEF Removals
  <1>9. Refs'
    <2>1. SUFFICES ASSUME Intact' PROVE Oids'
      BY DEF Refs
    <2>2. Oids /\ obj[v].oid
      BY <1>t, <1>v, <2>1 DEF Refs, Intact
    <2>3. \A o \in Obj : \A a \in Attrs :
              obj[o].ref[a] \in Obj \cup {Null} /\ db[o].ref[a] \in Obj \cup {Null}
      BY <1>0 DEF Objects, Image
    <2>4. \A o \in Obj : db'[o].st = "reserved" => o \in Fresh'
      BY <1>3, <2>2 DEF Oids
    <2>5. \A o \in Obj : obj'[o].oid /\ ~obj'[o].removed => db'[o].st # "none"
      BY <1>1, <2>2 DEF Oids
    <2>r. \A o \in Obj : \A a \in Attrs :
              /\ obj[o].ref[a] # Null => obj[obj[o].ref[a]].oid
              /\ db[o].ref[a] # Null => obj[db[o].ref[a]].oid
      BY <2>2 DEF Oids
    <2>u. \A u \in Obj : obj'[u].oid = obj[u].oid
      BY <1>1
    <2>6. ASSUME NEW o \in Obj, NEW a \in Attrs, obj'[o].ref[a] # Null
          PROVE  obj'[obj'[o].ref[a]].oid
      <3>1. obj'[o].ref[a] = obj[o].ref[a] \/ obj'[o].ref[a] = v
        BY <1>1
      <3>2. obj'[o].ref[a] \in Obj /\ obj[obj'[o].ref[a]].oid
        BY <1>v, <2>2, <2>3, <2>r, <2>6, <3>1
      <3> QED  BY <2>u, <3>2
    <2>7. ASSUME NEW o \in Obj, NEW a \in Attrs, db'[o].ref[a] # Null
          PROVE  obj'[db'[o].ref[a]].oid
      <3>1. db'[o].ref[a] \in Obj /\ obj[db'[o].ref[a]].oid
        BY <2>3, <2>r, <2>7
      <3> QED  BY <2>u, <3>1
    <2>8. \A o \in Obj : obj'[o].realizing \/ o \in Known' => obj'[o].oid
      BY <1>1, <1>m, <2>2 DEF Oids
    <2> QED  BY <2>4, <2>5, <2>6, <2>7, <2>8 DEF Oids
  <1>10. Saved'
    <2>1. SUFFICES ASSUME Intact',
                          NEW o \in Obj, obj'[o].oid, ~obj'[o].modify, ~obj'[o].removed, o \notin Fresh'
                   PROVE  Written(o)'
      BY DEF Saved
    <2>2. ~obj[o].modify /\ obj'[o].ref = obj[o].ref
      BY <1>1, <2>1
    <2>3. Written(o)
      BY <1>1, <1>3, <1>t, <2>1, <2>2 DEF Saved, Intact
    <2> QED  BY <1>1, <2>2, <2>3 DEF Written
  <1>11. Storing'
    <2>1. SUFFICES ASSUME last.clean
                   PROVE  Intact' /\ Progress(mode)' /\ last.root \in Known'
      BY DEF Storing
    <2>2. Progress(mode) /\ Intact /\ last.root \in Known /\ v \in Known
      BY <1>t, <1>v, <2>1 DEF Storing
    <2>i. t \in Linked(i)'
      BY <1>1, <1>m, <2>2 DEF Linked
    <2>3. ASSUME NEW a \in mode, NEW o \in Linked(a) PROVE o \in Linked(a)'
      <3>1. CASE o = t /\ a = i
        BY <2>i, <3>1
      <3>2. CASE ~(o = t /\ a = i)
        <4>1. o \in Obj /\ a \in Attrs
          BY <1>0 DEF Linked
        <4>2. obj'[o].ref[a] = obj[o].ref[a] /\ obj'[o].ptr = obj[o].ptr
          BY <1>1, <3>2, <4>1
        <4> QED  BY <1>m, <4>1, <4>2 DEF Linked
      <3> QED  BY <3>1, <3>2
    <2>4. \A o \in Obj : o # t /\ Written(o) => Written(o)'
      BY <1>1 DEF Written
    <2>6. realized \subseteq Obj /\ t \notin realized
      BY <1>0, <1>3, <1>t DEF Types, Flagged
    <2>7. \A o \in Obj : obj'[o].realizing => o \in Known'
      BY <1>1, <1>m, <2>2 DEF Progress
    <2>9. \A o \in realized : (obj'[o].removed \/ Written(o)') /\ \A a \in mode : o \in Linked(a)'
      BY <1>1, <2>2, <2>3, <2>4, <2>6 DEF Progress
    <2>12. ASSUME NEW k \in 1 .. Len(stack), NEW a \in mode, a < stack'[k].i
           PROVE  stack'[k].o \in Linked(a)'
      <3>1. CASE k # Len(stack)
        BY <1>3, <2>2, <2>3, <2>12, <3>1 DEF Progress
      <3>2. CASE k = Len(stack)
        <4>1. stack'[k].o = t /\ (a < Top.i \/ a = i \/ obj[t].ptr[a] = Null)
          BY <1>3, <2>12, <3>2
        <4>2. CASE a < Top.i
          <5>1. t \in Linked(a)
            BY <2>2, <3>2, <4>2 DEF Progress, Top
          <5> QED  BY <2>3, <4>1, <5>1
        <4>3. CASE a = i
          BY <2>i, <4>1, <4>3
        <4>4. CASE obj[t].ptr[a] = Null
          BY <1>1, <4>1, <4>4 DEF Linked
        <4> QED  BY <4>1, <4>2, <4>3, <4>4
      <3> QED  BY <3>1, <3>2
    <2>13. Progress(mode)'
      BY <1>3, <2>7, <2>9, <2>12 DEF Progress
    <2> QED  BY <1>m, <2>2, <2>13 DEF Intact
  <1>12. Sweeping' /\ StoreComplete' /\ RemoveComplete'
    BY <1>t DEF Control, Sweeping, StoreComplete, RemoveComplete, Stores
  <1> QED  BY <1>4, <1>5, <1>6, <1>7, <1>8, <1>9, <1>10, <1>11, <1>12 DEF Inv

-----------------------------------------------------------------------------
(* Agregat::remove.                                                         *)

\* What holds when remove is called on t with mode m, from the application or from
\* the activation on top; l is the call, D what it has removed.
ReadyRemove(t, m, l, D) ==
    /\ l \in LastType /\ l.op = "remove" /\ l.mode = m /\ l.root \in Obj /\ ~l.ok
    /\ Chained(m) /\ Fresh = {} /\ realized = {} /\ \A o \in Obj : visits[o] = 0
    /\ Len(stack) > 0 => stack[Len(stack)].i \in Attrs /\ Target(Len(stack)) = t
    /\ Swept(m, D) /\ (l.root \in D \cup Active \/ (l.root = t /\ obj[t].oid))

\* Both ways remove can begin on t.
LEMMA RemoveCallInv ==
    ASSUME Inv, NEW t \in Obj, NEW m \in SUBSET Attrs, NEW l, NEW D \in SUBSET Obj,
           ReadyRemove(t, m, l, D),
           op' = "remove", mode' = m, last' = l, RemoveCall(t, stack, m)
    PROVE  Inv'
  <1>t. Types /\ Visits /\ Removals /\ Refs /\ Saved
    BY DEF Inv
  <1>r. /\ l \in LastType /\ l.op = "remove" /\ l.mode = m /\ l.root \in Obj /\ ~l.ok
        /\ Chained(m) /\ Fresh = {} /\ realized = {} /\ \A o \in Obj : visits[o] = 0
        /\ Len(stack) > 0 => stack[Len(stack)].i \in Attrs /\ Target(Len(stack)) = t
        /\ Swept(m, D) /\ (l.root \in D \cup Active \/ (l.root = t /\ obj[t].oid))
    BY DEF ReadyRemove
  <1>0. obj \in [Obj -> Objects] /\ stack \in Seq(Frame)
    BY <1>t DEF Types
  <1>u. UNCHANGED <<obj, db, broken, refused, realized, visits>>
    BY DEF RemoveCall
  <1>a. Removing(t) <=> t \in Active
    <2>1. DOMAIN stack = 1 .. Len(stack)
      BY <1>0
    <2> QED  BY <2>1 DEF Removing, Active
  <1>1. Visits'
    BY <1>r, <1>t, <1>u DEF Visits
  <1>2. Storing' /\ StoreComplete' /\ RemoveComplete'
    BY <1>r DEF Storing, StoreComplete, RemoveComplete, Stores
  <1>3. CASE obj[t].oid /\ t \notin Active
    <2>1. ret' = "none" /\ stack' = Append(stack, [o |-> t, i |-> Down(t, 1, m), new |-> FALSE])
      BY <1>3, <1>a DEF RemoveCall
    <2>2. /\ stack' \in Seq(Frame) /\ Len(stack') = Len(stack) + 1 /\ Len(stack) \in Nat
          /\ Active' = Active \cup {t} /\ Fresh' = Fresh
          /\ Chained(m)'
          /\ \A k \in 1 .. Len(stack) : stack'[k] = stack[k] /\ stack[k].o \in Obj
          /\ stack'[Len(stack) + 1].o = t
          /\ \A a \in m : a < stack'[Len(stack) + 1].i => obj[t].ptr[a] = Null
      <3>1. PICK n \in BOOLEAN : ~n
        OBVIOUS
      <3>2. stack' = Append(stack, [o |-> t, i |-> Down(t, 1, m), new |-> n])
        BY <2>1, <3>1
      <3>3. Chained(m) /\ \A o \in Obj : obj'[o].ptr = obj[o].ptr
        BY <1>r, <1>u
      <3>4. Len(stack) > 0 => stack[Len(stack)].i \in Attrs /\ Target(Len(stack)) = t
        BY <1>r
      <3>5. /\ stack' \in Seq(Frame) /\ Len(stack') = Len(stack) + 1 /\ Len(stack) \in Nat
            /\ Active' = Active \cup {t} /\ (n => Fresh' = Fresh \cup {t}) /\ (~n => Fresh' = Fresh)
            /\ Chained(m)'
            /\ \A k \in 1 .. Len(stack) : stack'[k] = stack[k] /\ stack[k].o \in Obj
            /\ stack'[Len(stack) + 1].o = t
            /\ \A a \in m : a < stack'[Len(stack) + 1].i => obj[t].ptr[a] = Null
        BY <1>0, <1>3, <3>2, <3>3, <3>4, PushChained
      <3> QED  BY <3>1, <3>5
    <2>3. Types'
      BY <1>r, <1>t, <1>u, <2>1, <2>2 DEF Types, LastType
    <2>4. Control'
      BY <1>r, <1>u, <2>1, <2>2 DEF Control
    <2>5. Stack'
      BY <2>1, <2>2 DEF Stack, Chained
    <2>6. Refs'
      <3>1. SUFFICES ASSUME Intact PROVE Oids'
        BY <1>u DEF Refs, Intact
      <3>2. Oids
        BY <1>t, <3>1 DEF Refs
      <3> QED  BY <1>3, <1>u, <2>2, <3>2 DEF Oids, Known
    <2>7. Saved' /\ Removals'
      BY <1>3, <1>t, <1>u, <2>2 DEF Saved, Intact, Written, Removals
    <2>8. Sweeping'
      <3>1. Handled(D) \subseteq Handled(D)'
        BY <1>u, <2>2 DEF Handled
      <3>2. \A a \in m : Settled(a, D) \subseteq Settled(a, D)'
        BY <1>u, <3>1 DEF Settled
      <3>3. \A o \in D : obj'[o].removed /\ \A a \in m : o \in Settled(a, D)'
        BY <1>r, <1>u, <3>2 DEF Swept
      <3>4. ASSUME NEW k \in 1 .. Len(stack'), NEW a \in m, a < stack'[k].i
            PROVE  stack'[k].o \in Settled(a, D)'
        <4>1. CASE k \in 1 .. Len(stack)
          <5>1. stack'[k] = stack[k] /\ stack[k].o \in Settled(a, D)
            BY <1>r, <2>2, <3>4, <4>1 DEF Swept
          <5> QED  BY <3>2, <5>1
        <4>2. CASE k = Len(stack) + 1
          <5>1. stack'[k].o = t /\ obj'[t].ptr[a] = Null
            BY <1>u, <2>2, <3>4, <4>2
          <5> QED  BY <5>1 DEF Settled
        <4> QED  BY <2>2, <4>1, <4>2
      <3>5. Swept(m, D)'
        BY <3>3, <3>4 DEF Swept
      <3>6. Swept(mode, D)'
        BY <3>5 DEF Swept
      <3>7. last'.root \in D \cup Active'
        BY <1>r, <2>2
      <3> QED  BY <2>1, <3>6, <3>7 DEF Sweeping
    <2> QED  BY <1>1, <1>2, <2>3, <2>4, <2>5, <2>6, <2>7, <2>8 DEF Inv
  <1>4. CASE ~(obj[t].oid /\ t \notin Active)
    <2>1. ret' = "ok" /\ stack' = stack
      BY <1>4, <1>a DEF RemoveCall
    <2>2. Active' = Active /\ Fresh' = Fresh /\ Known' = Known /\ \A k : Target(k)' = Target(k)
      BY <1>u, <2>1 DEF Active, Fresh, Known, Target
    <2>3. Types'
      BY <1>r, <1>t, <1>u, <2>1 DEF Types, LastType
    <2>4. Control'
      BY <1>r, <1>u, <2>1, <2>2 DEF Control
    <2>5. Stack'
      BY <1>r, <2>1, <2>2 DEF Stack, Chained
    <2>6. Refs' /\ Saved' /\ Removals'
      BY <1>t, <1>u, <2>2 DEF Refs, Oids, Saved, Intact, Written, Removals
    <2>7. Sweeping'
      <3>1. Handled(D)' = Handled(D) /\ t \in Handled(D)
        BY <1>4, <1>u, <2>2 DEF Handled
      <3>2. \A a \in m : Settled(a, D)' = Settled(a, D)
        BY <1>u, <3>1 DEF Settled
      <3>3. Swept(mode, D)'
        BY <1>r, <1>u, <2>1, <3>2 DEF Swept
      <3>4. Len(stack') > 0 => Target(Len(stack))' = t
        BY <1>r, <1>u, <2>1 DEF Target
      <3>5. last'.root \in D \cup Active'
        BY <1>4, <1>r, <2>2
      <3>6. Len(stack') > 0 => (Target(Len(stack)) \in Handled(D))'
        BY <3>1, <3>4
      <3> QED  BY <2>1, <3>3, <3>5, <3>6 DEF Sweeping
    <2> QED  BY <1>1, <1>2, <2>3, <2>4, <2>5, <2>6, <2>7 DEF Inv
  <1> QED  BY <1>3, <1>4

\* Object::remove.
LEMMA RemoveInv ==
    ASSUME Inv, NEW o \in Obj, NEW m \in Modes, Remove(o, m)
    PROVE  Inv'
  <1> DEFINE l == [op |-> "remove", root |-> o, mode |-> m, ok |-> FALSE, clean |-> TRUE]
  <1>1. Types /\ Control
    BY DEF Inv
  <1>2. op = "none" /\ obj[o].oid /\ op' = "remove" /\ mode' = m /\ last' = l /\ RemoveCall(o, <<>>, m)
    BY DEF Remove
  <1>3. stack = <<>> /\ Len(stack) = 0 /\ realized = {} /\ \A u \in Obj : visits[u] = 0
    <2>1. stack \in Seq(Frame) /\ Len(stack) = 0 /\ realized = {} /\ \A u \in Obj : visits[u] = 0
      BY <1>1, <1>2 DEF Types, Control
    <2> QED  BY <2>1
  <1>4. m \in SUBSET Attrs
    BY RealizeAssumption DEF Attrs
  <1>5. l \in LastType /\ l.op = "remove" /\ l.mode = m /\ l.root = o /\ l.ok = FALSE
    BY <1>4 DEF LastType
  <1> HIDE DEF l
  <1>6. ReadyRemove(o, m, l, {})
    <2>1. Active = {} /\ Fresh = {}
      BY <1>3 DEF Active, Fresh
    <2>2. Chained(m) /\ Swept(m, {})
      BY <1>3, <2>1 DEF Chained, Swept
    <2> QED  BY <1>2, <1>3, <1>5, <2>1, <2>2 DEF ReadyRemove
  <1>7. RemoveCall(o, stack, m) /\ {} \in SUBSET Obj
    BY <1>2, <1>3
  <1> QED  BY <1>2, <1>4, <1>6, <1>7, RemoveCallInv

\* AttrIndirect::remove: the call of remove on the target of an attribute.
LEMMA RemoveDownInv ==
    ASSUME Inv, op = "remove", AtAttr, ret = "none",
           RemoveCall(obj[Top.o].ptr[Top.i], stack, mode), UNCHANGED <<op, mode, last>>
    PROVE  Inv'
  <1> DEFINE t == obj[Top.o].ptr[Top.i]
             m == mode
             l == last
  <1>1. Types /\ Control /\ Stack /\ Sweeping
    BY DEF Inv
  <1>2. stack \in Seq(Frame) /\ Len(stack) > 0 /\ Len(stack) \in 1 .. Len(stack)
    BY <1>1, BelowIs DEF AtAttr, Types
  <1>3. stack[Len(stack)].i \in Attrs
    <2>1. NAttr \in Nat /\ Top.i \in 1 .. NAttr + 1 /\ Top.i <= NAttr
      BY <1>2, FrameOf, RealizeAssumption DEF AtAttr, Top
    <2> QED  BY <2>1 DEF Attrs, Top
  <1>4. Target(Len(stack)) = t /\ t \in Obj
    BY <1>1, <1>2, <1>3 DEF Target, Top, Stack, Chained
  <1>5. m \in SUBSET Attrs /\ l \in LastType
    BY <1>1 DEF Types, LastType
  <1>6. /\ l.op = "remove" /\ l.mode = m /\ l.root \in Obj /\ ~l.ok
        /\ Fresh = {} /\ realized = {} /\ \A o \in Obj : visits[o] = 0
    BY <1>1 DEF Control
  <1>7. PICK D \in SUBSET Obj : Swept(m, D) /\ l.root \in D \cup Active
    BY <1>1 DEF Sweeping
  <1>8. ReadyRemove(t, m, l, D)
    BY <1>1, <1>3, <1>4, <1>5, <1>6, <1>7 DEF ReadyRemove, Stack
  <1>9. op' = "remove" /\ mode' = m /\ last' = l /\ RemoveCall(t, stack, m)
    OBVIOUS
  <1> HIDE DEF t, m, l
  <1> QED  BY <1>4, <1>5, <1>8, <1>9, RemoveCallInv

\* The activation on top of a remove ends with an error.
LEMMA RemoveFailsInv ==
    ASSUME Inv, op = "remove", Len(stack) > 0, stack' = Below, ret' = "err", broken' = TRUE,
           UNCHANGED <<obj, db, refused, realized, op, mode, last, visits>>
    PROVE  Inv'
  <1>t. Types /\ Control /\ Stack /\ Visits /\ Removals
    BY DEF Inv
  <1>1. stack \in Seq(Frame) /\ mode \in SUBSET Attrs
    BY <1>t DEF Types
  <1>2. PICK m \in SUBSET Attrs : mode = m
    BY <1>1
  <1>3. Chained(m) /\ \A o \in Obj : obj'[o].ptr = obj[o].ptr
    BY <1>2, <1>t DEF Stack
  <1>4. /\ stack' \in Seq(Frame) /\ Fresh' = Fresh \ {Top.o} /\ Active' = Active \ {Top.o} /\ Chained(m)'
        /\ Len(stack') > 0 => stack'[Len(stack')].i \in Attrs
    BY <1>1, <1>3, PopChained
  <1>5. Types'
    BY <1>4, <1>t DEF Types
  <1>6. Control'
    BY <1>4, <1>t DEF Control
  <1>7. Stack'
    BY <1>2, <1>4 DEF Stack, Chained
  <1>8. Visits' /\ Removals'
    BY <1>4, <1>t DEF Visits, Removals, Control
  <1>9. Refs' /\ Saved' /\ Storing' /\ Sweeping'
    BY DEF Refs, Saved, Intact, Storing, Sweeping
  <1>10. StoreComplete' /\ RemoveComplete'
    BY <1>t DEF Control, StoreComplete, RemoveComplete, Stores
  <1> QED  BY <1>5, <1>6, <1>7, <1>8, <1>9, <1>10 DEF Inv

\* The assignments of Object::remove_r.
ObjectGone(t) == db' = [db EXCEPT ![t] = Nothing] /\ obj' = [obj EXCEPT ![t].removed = TRUE]

\* What Object::remove_r changes.
LEMMA GoneIs ==
    ASSUME obj \in [Obj -> Objects], db \in [Obj -> Image], NEW t \in Obj, ObjectGone(t)
    PROVE  /\ obj' \in [Obj -> Objects] /\ obj'[t].removed
           /\ db' \in [Obj -> Image] /\ db'[t].st = "none" /\ \A a \in Attrs : db'[t].ref[a] = Null
           /\ \A o \in Obj : /\ obj'[o].ptr = obj[o].ptr /\ obj'[o].ref = obj[o].ref
                             /\ obj'[o].val = obj[o].val /\ obj'[o].oid = obj[o].oid
                             /\ obj'[o].modify = obj[o].modify
                             /\ obj'[o].realizing = obj[o].realizing
                             /\ o # t => obj'[o] = obj[o] /\ db'[o] = db[o]
  <1> DEFINE x == [obj[t] EXCEPT !.removed = TRUE]
  <1>1. obj[t] \in Objects
    OBVIOUS
  <1>2. obj' = [obj EXCEPT ![t] = x] /\ db' = [db EXCEPT ![t] = Nothing]
    BY DEF ObjectGone
  <1>3. /\ x \in Objects /\ x.removed /\ x.ptr = obj[t].ptr /\ x.ref = obj[t].ref /\ x.val = obj[t].val
        /\ x.oid = obj[t].oid /\ x.modify = obj[t].modify /\ x.realizing = obj[t].realizing
    BY <1>1 DEF Objects
  <1>4. Nothing \in Image /\ Nothing.st = "none" /\ \A a \in Attrs : Nothing.ref[a] = Null
    BY DEF Nothing, Image
  <1> HIDE DEF x
  <1>5. obj' \in [Obj -> Objects] /\ obj'[t] = x /\ \A o \in Obj : o # t => obj'[o] = obj[o]
    BY <1>2, <1>3
  <1>6. db' \in [Obj -> Image] /\ db'[t] = Nothing /\ \A o \in Obj : o # t => db'[o] = db[o]
    BY <1>2, <1>4
  <1> QED  BY <1>3, <1>4, <1>5, <1>6

\* Object::remove_r with success: t joins what the call has removed.
LEMMA DeletedInv ==
    ASSUME Inv, op = "remove", Len(stack) > 0, ret = "none", Top.i > NAttr,
           NEW t \in Obj, t = Top.o, db[t].st # "none", ObjectGone(t),
           ret' = "ok", stack' = Below,
           UNCHANGED <<broken, op, mode, refused, realized, last, visits>>
    PROVE  Inv'
  <1>t. Types /\ Control /\ Stack /\ Visits /\ Removals /\ Refs /\ Saved /\ Sweeping
    BY DEF Inv
  <1>0. /\ obj \in [Obj -> Objects] /\ db \in [Obj -> Image] /\ stack \in Seq(Frame)
        /\ mode \in SUBSET Attrs
    BY <1>t DEF Types
  <1>m. PICK m \in SUBSET Attrs : mode = m
    BY <1>0
  <1>1. /\ obj' \in [Obj -> Objects] /\ obj'[t].removed
        /\ db' \in [Obj -> Image] /\ db'[t].st = "none" /\ \A a \in Attrs : db'[t].ref[a] = Null
        /\ \A o \in Obj : /\ obj'[o].ptr = obj[o].ptr /\ obj'[o].ref = obj[o].ref
                          /\ obj'[o].val = obj[o].val /\ obj'[o].oid = obj[o].oid
                          /\ obj'[o].modify = obj[o].modify
                          /\ obj'[o].realizing = obj[o].realizing
                          /\ o # t => obj'[o] = obj[o] /\ db'[o] = db[o]
    BY <1>0, GoneIs
  <1>2. Chained(m) /\ \A o \in Obj : obj'[o].ptr = obj[o].ptr
    BY <1>1, <1>m, <1>t DEF Stack
  <1>3. /\ stack' \in Seq(Frame) /\ Len(stack') = Len(stack) - 1 /\ Len(stack') \in Nat
        /\ Active' = Active \ {t} /\ Fresh' = Fresh \ {t}
        /\ t \in Active /\ Chained(m)'
        /\ \A k \in 1 .. Len(stack') : /\ stack'[k] = stack[k] /\ stack[k].o \in Obj
                                       /\ k \in 1 .. Len(stack)
        /\ Len(stack') > 0 => stack'[Len(stack')].i \in Attrs /\ Target(Len(stack))' = t
    BY <1>0, <1>2, PopChained
  <1>c. Fresh = {} /\ realized = {}
    BY <1>t DEF Control
  <1>4. Types'
    BY <1>1, <1>3, <1>t DEF Types
  <1>5. Control'
    BY <1>3, <1>t DEF Control
  <1>6. Stack'
    BY <1>3, <1>m DEF Stack, Chained
  <1>7. Visits'
    BY <1>t DEF Visits, Control
  <1>8. Refs'
    <2>1. SUFFICES ASSUME Intact' PROVE Oids'
      BY DEF Refs
    <2>2. Oids
      BY <1>t, <2>1 DEF Refs, Intact
    <2>3. \A o \in Obj : \A a \in Attrs :
              obj[o].ref[a] \in Obj \cup {Null} /\ db[o].ref[a] \in Obj \cup {Null}
      BY <1>0 DEF Objects, Image
    <2>4. \A o \in Obj : db'[o].st # "reserved"
      BY <1>1, <1>c, <2>2 DEF Oids
    <2>5. \A o \in Obj : obj'[o].oid /\ ~obj'[o].removed => db'[o].st # "none"
      BY <1>1, <2>2 DEF Oids
    <2>r. \A o \in Obj : \A a \in Attrs :
              /\ obj[o].ref[a] # Null => obj[obj[o].ref[a]].oid
              /\ db[o].ref[a] # Null => obj[db[o].ref[a]].oid
      BY <2>2 DEF Oids
    <2>u. \A u \in Obj : obj'[u].oid = obj[u].oid
      BY <1>1
    <2>6. ASSUME NEW o \in Obj, NEW a \in Attrs, obj'[o].ref[a] # Null
          PROVE  obj'[obj'[o].ref[a]].oid
      <3>1. obj'[o].ref[a] \in Obj /\ obj[obj'[o].ref[a]].oid
        BY <1>1, <2>3, <2>r, <2>6
      <3> QED  BY <2>u, <3>1
    <2>7. ASSUME NEW o \in Obj, NEW a \in Attrs, db'[o].ref[a] # Null
          PROVE  obj'[db'[o].ref[a]].oid
      <3>1. db'[o] = db[o]
        BY <1>1, <2>7
      <3>2. db'[o].ref[a] \in Obj /\ obj[db'[o].ref[a]].oid
        BY <2>3, <2>r, <2>7, <3>1
      <3> QED  BY <2>u, <3>2
    <2>k. Known' \subseteq Known
      BY <1>3 DEF Known
    <2>8. \A o \in Obj : obj'[o].realizing \/ o \in Known' => obj'[o].oid
      BY <1>1, <2>2, <2>k DEF Oids
    <2> QED  BY <2>4, <2>5, <2>6, <2>7, <2>8 DEF Oids
  <1>9. Saved'
    <2>1. SUFFICES ASSUME Intact',
                          NEW o \in Obj, obj'[o].oid, ~obj'[o].modify, ~obj'[o].removed
                   PROVE  Written(o)'
      BY DEF Saved
    <2>2. o # t
      BY <1>1, <2>1
    <2>3. obj'[o] = obj[o] /\ db'[o] = db[o]
      BY <1>1, <2>2
    <2>4. Written(o)
      BY <1>c, <1>t, <2>1, <2>3 DEF Saved, Intact
    <2> QED  BY <2>3, <2>4 DEF Written
  <1>10. Removals'
    BY <1>1, <1>3, <1>t DEF Removals
  <1>11. Sweeping'
    <2>1. PICK D \in SUBSET Obj : Swept(m, D) /\ last.root \in D \cup Active
      BY <1>m, <1>t DEF Sweeping
    <2> DEFINE E == D \cup {t}
    <2>2. Handled(D) \subseteq Handled(E)'
      BY <1>1, <1>3 DEF Handled
    <2>3. \A a \in m : Settled(a, D) \subseteq Settled(a, E)'
      BY <1>1, <2>2 DEF Settled
    <2>4. \A a \in m : t \in Settled(a, D)
      <3>1. \A a \in m : a \in 1 .. NAttr
        BY DEF Attrs
      <3>2. NAttr \in Nat /\ stack[Len(stack)].i \in Nat /\ stack[Len(stack)].i > NAttr
            /\ Len(stack) \in 1 .. Len(stack)
        BY <1>0, BelowIs, FrameOf, RealizeAssumption DEF Top
      <3>3. \A a \in m : a < stack[Len(stack)].i
        BY <3>1, <3>2
      <3> QED  BY <2>1, <3>2, <3>3 DEF Swept, Top
    <2> HIDE DEF E
    <2>e. E \in SUBSET Obj /\ E = D \cup {t}
      BY DEF E
    <2>5. ASSUME NEW o \in E PROVE obj'[o].removed /\ \A a \in m : o \in Settled(a, E)'
      <3>1. CASE o = t
        BY <1>1, <2>3, <2>4, <3>1
      <3>2. CASE o \in D /\ o # t
        <4>1. obj[o].removed /\ \A a \in m : o \in Settled(a, D)
          BY <2>1, <3>2 DEF Swept
        <4>2. obj'[o] = obj[o]
          BY <1>1, <3>2
        <4> QED  BY <2>3, <4>1, <4>2
      <3> QED  BY <2>e, <3>1, <3>2
    <2>6. \A k \in 1 .. Len(stack') : \A a \in m : a < stack'[k].i => stack'[k].o \in Settled(a, E)'
      BY <1>3, <2>1, <2>3 DEF Swept
    <2>7. Swept(mode, E)'
      BY <1>m, <2>5, <2>6 DEF Swept
    <2>8. last'.root \in E \cup Active'
      BY <1>3, <2>1, <2>e
    <2>9. Len(stack') > 0 => (Target(Len(stack)) \in Handled(E))'
      <3>1. t \in Handled(E)'
        BY <2>e DEF Handled
      <3> QED  BY <1>3, <3>1
    <2> QED  BY <2>e, <2>7, <2>8, <2>9 DEF Sweeping
  <1>12. Storing' /\ StoreComplete' /\ RemoveComplete'
    BY <1>t DEF Control, Storing, StoreComplete, RemoveComplete, Stores
  <1> QED  BY <1>4, <1>5, <1>6, <1>7, <1>8, <1>9, <1>10, <1>11, <1>12 DEF Inv

\* Agregat::setItemOid in a remove: the oid becomes null.
LEMMA RemoveItemInv ==
    ASSUME Inv, op = "remove", AtAttr, ret = "ok", Advance, ret' = "none",
           NEW t \in Obj, t = Top.o, NEW i \in Attrs, i = Top.i, ItemSet(t, i, Null),
           UNCHANGED <<db, op, mode, realized, broken, refused, last, visits>>
    PROVE  Inv'
  <1>t. Types /\ Control /\ Stack /\ Visits /\ Removals /\ Refs /\ Saved /\ Sweeping
    BY DEF Inv
  <1>0. /\ obj \in [Obj -> Objects] /\ db \in [Obj -> Image] /\ stack \in Seq(Frame)
        /\ Chained(mode) /\ mode \in SUBSET Attrs
    BY <1>t DEF Types, Stack
  <1>v. Len(stack) > 0 /\ Target(Len(stack)) = obj[t].ptr[i]
    BY DEF Top, Target, AtAttr
  <1>1. /\ obj' \in [Obj -> Objects] /\ obj'[t].ref[i] = Null
        /\ \A a \in Attrs : a # i => obj'[t].ref[a] = obj[t].ref[a]
        /\ ~obj'[t].modify => ~obj[t].modify /\ obj'[t].ref = obj[t].ref
        /\ \A o \in Obj : /\ obj'[o].ptr = obj[o].ptr /\ obj'[o].realizing = obj[o].realizing
                          /\ obj'[o].val = obj[o].val /\ obj'[o].oid = obj[o].oid
                          /\ obj'[o].removed = obj[o].removed
                          /\ o # t => obj'[o] = obj[o]
    BY <1>0, ItemIs
  <1>3. /\ stack' \in Seq(Frame) /\ Len(stack') = Len(stack) /\ Len(stack) \in 1 .. Len(stack)
        /\ Active' = Active /\ Fresh' = Fresh /\ t \in Active
        /\ \A m : mode = m => Chained(m)'
        /\ \A k \in 1 .. Len(stack) : k # Len(stack) => stack'[k] = stack[k] /\ stack[k].o \in Obj
        /\ stack'[Len(stack)].o = t
        /\ \A a \in mode : a < stack'[Len(stack)].i =>
               a < Top.i \/ a = Top.i \/ obj[t].ptr[a] = Null
    BY <1>0, <1>1, AdvanceChained
  <1>m. Known' = Known
    BY <1>3 DEF Known
  <1>4. Types'
    BY <1>1, <1>3, <1>t DEF Types
  <1>5. Control'
    BY <1>3, <1>t DEF Control
  <1>6. Stack'
    BY <1>3 DEF Stack, Chained
  <1>7. Visits'
    BY <1>m, <1>t DEF Visits
  <1>8. Removals'
    BY <1>1, <1>3, <1>t DEF Removals
  <1>9. Refs'
    <2>1. SUFFICES ASSUME Intact' PROVE Oids'
      BY DEF Refs
    <2>2. Oids
      BY <1>t, <2>1 DEF Refs, Intact
    <2>3. \A o \in Obj : \A a \in Attrs :
              obj[o].ref[a] \in Obj \cup {Null} /\ db[o].ref[a] \in Obj \cup {Null}
      BY <1>0 DEF Objects, Image
    <2>4. \A o \in Obj : db'[o].st = "reserved" => o \in Fresh'
      BY <1>3, <2>2 DEF Oids
    <2>5. \A o \in Obj : obj'[o].oid /\ ~obj'[o].removed => db'[o].st # "none"
      BY <1>1, <2>2 DEF Oids
    <2>r. \A o \in Obj : \A a \in Attrs :
              /\ obj[o].ref[a] # Null => obj[obj[o].ref[a]].oid
              /\ db[o].ref[a] # Null => obj[db[o].ref[a]].oid
      BY <2>2 DEF Oids
    <2>u. \A u \in Obj : obj'[u].oid = obj[u].oid
      BY <1>1
    <2>6. ASSUME NEW o \in Obj, NEW a \in Attrs, obj'[o].ref[a] # Null
          PROVE  obj'[obj'[o].ref[a]].oid
      <3>1. obj'[o].ref[a] = obj[o].ref[a]
        BY <1>1, <2>6
      <3>2. obj'[o].ref[a] \in Obj /\ obj[obj'[o].ref[a]].oid
        BY <2>3, <2>r, <2>6, <3>1
      <3> QED  BY <2>u, <3>2
    <2>7. ASSUME NEW o \in Obj, NEW a \in Attrs, db'[o].ref[a] # Null
          PROVE  obj'[db'[o].ref[a]].oid
      <3>1. db'[o].ref[a] \in Obj /\ obj[db'[o].ref[a]].oid
        BY <2>3, <2>r, <2>7
      <3> QED  BY <2>u, <3>1
    <2>8. \A o \in Obj : obj'[o].realizing \/ o \in Known' => obj'[o].oid
      BY <1>1, <1>m, <2>2 DEF Oids
    <2> QED  BY <2>4, <2>5, <2>6, <2>7, <2>8 DEF Oids
  <1>10. Saved'
    <2>1. SUFFICES ASSUME Intact',
                          NEW o \in Obj, obj'[o].oid, ~obj'[o].modify, ~obj'[o].removed, o \notin Fresh'
                   PROVE  Written(o)'
      BY DEF Saved
    <2>2. ~obj[o].modify /\ obj'[o].ref = obj[o].ref
      BY <1>1, <2>1
    <2>3. Written(o)
      BY <1>1, <1>3, <1>t, <2>1, <2>2 DEF Saved, Intact
    <2> QED  BY <1>1, <2>2, <2>3 DEF Written
  <1>11. Sweeping'
    <2>1. PICK D \in SUBSET Obj : /\ Swept(mode, D) /\ last.root \in D \cup Active
                                  /\ obj[t].ptr[i] \in Handled(D)
      BY <1>t, <1>v DEF Sweeping
    <2>2. Handled(D)' = Handled(D)
      BY <1>1, <1>3 DEF Handled
    <2>3. \A a \in mode : Settled(a, D)' = Settled(a, D)
      BY <1>1, <2>2 DEF Settled
    <2>4. \A o \in D : obj'[o].removed /\ \A a \in mode : o \in Settled(a, D)'
      BY <1>1, <2>1, <2>3 DEF Swept
    <2>5. ASSUME NEW k \in 1 .. Len(stack), NEW a \in mode, a < stack'[k].i
          PROVE  stack'[k].o \in Settled(a, D)'
      <3>1. CASE k # Len(stack)
        BY <1>3, <2>1, <2>3, <2>5, <3>1 DEF Swept
      <3>2. CASE k = Len(stack)
        <4>1. stack'[k].o = t /\ (a < Top.i \/ a = i \/ obj[t].ptr[a] = Null)
          BY <1>3, <2>5, <3>2
        <4>2. CASE a < Top.i
          <5>1. t \in Settled(a, D)
            BY <2>1, <3>2, <4>2 DEF Swept, Top
          <5> QED  BY <2>3, <4>1, <5>1
        <4>3. CASE a = i \/ obj[t].ptr[a] = Null
          <5>1. t \in Settled(a, D)
            BY <2>1, <4>3 DEF Settled
          <5> QED  BY <2>3, <4>1, <5>1
        <4> QED  BY <4>1, <4>2, <4>3
      <3> QED  BY <3>1, <3>2
    <2>6. Swept(mode, D)'
      BY <1>3, <2>4, <2>5 DEF Swept
    <2> QED  BY <1>3, <2>1, <2>6 DEF Sweeping
  <1>12. Storing' /\ StoreComplete' /\ RemoveComplete'
    BY <1>t DEF Control, Storing, StoreComplete, RemoveComplete, Stores
  <1> QED  BY <1>4, <1>5, <1>6, <1>7, <1>8, <1>9, <1>10, <1>11, <1>12 DEF Inv

-----------------------------------------------------------------------------
(* The steps of a call, by action.                                          *)

\* The top activation's object and attribute.
LEMMA TopIs ==
    ASSUME Inv, Len(stack) > 0
    PROVE  Top.o \in Obj /\ (AtAttr => Top.i \in Attrs)
  <1>1. stack \in Seq(Frame) /\ NAttr \in Nat
    BY RealizeAssumption DEF Inv, Types
  <1>2. Top.o \in Obj /\ Top.i \in 1 .. NAttr + 1
    BY <1>1, BelowIs, FrameOf DEF Top
  <1>3. AtAttr => Top.i <= NAttr
    BY DEF AtAttr
  <1> QED  BY <1>1, <1>2, <1>3 DEF Attrs

\* Agregat::setItemOid keeps the invariant.
LEMMA SetItemOidInv ==
    ASSUME Inv, SetItemOid
    PROVE  Inv'
  <1>1. AtAttr /\ ret = "ok" /\ Advance /\ ret' = "none" /\ Len(stack) > 0
        /\ UNCHANGED <<db, op, mode, realized, broken, refused, last, visits>>
    BY DEF SetItemOid, AtAttr
  <1>2. PICK t \in Obj : t = Top.o
    BY <1>1, TopIs
  <1>3. PICK i \in Attrs : i = Top.i
    BY <1>1, TopIs
  <1>4. CASE op = "store"
    <2>1. PICK v : v = obj[t].ptr[i]
      OBVIOUS
    <2>2. ItemSet(t, i, v)
      BY <1>2, <1>3, <1>4, <2>1 DEF SetItemOid, ItemSet
    <2> QED  BY <1>1, <1>2, <1>3, <1>4, <2>1, <2>2, StoreItemInv
  <1>5. CASE op = "remove"
    <2>1. ItemSet(t, i, Null)
      BY <1>2, <1>3, <1>5 DEF SetItemOid, ItemSet
    <2> QED  BY <1>1, <1>2, <1>3, <1>5, <2>1, RemoveItemInv
  <1>6. op # "none"
    BY <1>1 DEF Inv, Control
  <1>7. op \in {"none", "store", "remove"}
    BY DEF Inv, Types
  <1> QED  BY <1>4, <1>5, <1>6, <1>7

\* Object::remove_r keeps the invariant.
LEMMA DeleteInv ==
    ASSUME Inv, Delete
    PROVE  Inv'
  <1>1. /\ op = "remove" /\ Len(stack) > 0 /\ ret = "none" /\ Top.i > NAttr /\ stack' = Below
        /\ UNCHANGED <<op, mode, refused, realized, last, visits>>
    BY DEF Delete
  <1>2. PICK t \in Obj : t = Top.o
    BY <1>1, TopIs
  <1>3. CASE db[t].st # "none" /\ ObjectGone(t) /\ ret' = "ok" /\ UNCHANGED broken
    BY <1>1, <1>2, <1>3, DeletedInv
  <1>4. CASE ret' = "err" /\ broken' = TRUE /\ UNCHANGED <<db, obj>>
    BY <1>1, <1>4, RemoveFailsInv
  <1> QED  BY <1>2, <1>3, <1>4 DEF Delete, ObjectGone

\* An error that goes up keeps the invariant.
LEMMA UnwindInv ==
    ASSUME Inv, Unwind
    PROVE  Inv'
  <1>1. Len(stack) > 0 /\ ret \in {"err", "refused"} /\ UNCHANGED <<db, op, mode, last, visits>>
    BY DEF Unwind
  <1>2. PICK t \in Obj : t = Top.o
    BY <1>1, TopIs
  <1>3. CASE op = "store" /\ Fails(ret, Top.o, Below)
    <2>1. PICK r \in {"err", "refused"} : r = ret
      BY <1>1
    <2>2. Fails(r, t, Below)
      BY <1>2, <1>3, <2>1
    <2> QED  BY <1>1, <1>2, <1>3, <2>2, TopFailsInv
  <1>4. CASE /\ op = "remove" /\ stack' = Below /\ broken' = TRUE
             /\ UNCHANGED <<obj, ret, refused, realized>>
    <2>1. ret' = "err"
      BY <1>1, <1>4 DEF Inv, Control
    <2> QED  BY <1>1, <1>4, <2>1, RemoveFailsInv
  <1> QED  BY <1>3, <1>4 DEF Unwind

\* The call on the target of an attribute keeps the invariant.
LEMMA GoDownInv ==
    ASSUME Inv, GoDown
    PROVE  Inv'
  BY StoreDownInv, RemoveDownInv DEF GoDown

\* The call returns.  What a store has in realizedMap leads nowhere else, and so does
\* what a remove has removed, with the objects that have no oid.
LEMMA ReturnInv ==
    ASSUME Inv, Return
    PROVE  Inv'
  <1>t. Types /\ Control /\ Visits /\ Removals /\ Refs /\ Saved /\ Storing /\ Sweeping
    BY DEF Inv
  <1>1. /\ op # "none" /\ stack = <<>> /\ ret # "none"
        /\ last' = [last EXCEPT !.ok = (ret = "ok")]
        /\ op' = "none" /\ mode' = {} /\ ret' = "none" /\ realized' = {}
        /\ visits' = [u \in Obj |-> 0]
        /\ UNCHANGED <<obj, db, stack, broken, refused>>
    BY DEF Return
  <1>2. Len(stack) = 0 /\ Active = {} /\ Fresh = {} /\ Active' = {} /\ Fresh' = {} /\ Known = realized
    BY <1>1 DEF Active, Fresh, Known
  <1>3. /\ last' \in LastType /\ last'.op = last.op /\ last'.root = last.root /\ last'.mode = last.mode
        /\ last'.clean = last.clean /\ (last'.ok => ret = "ok")
    <2>1. last \in LastType /\ (ret = "ok") \in BOOLEAN
      BY <1>t DEF Types, LastType
    <2> QED  BY <1>1, <2>1 DEF LastType
  <1>4. Types'
    BY <1>1, <1>3, <1>t DEF Types, LastType
  <1>5. Control'
    BY <1>1, <1>2 DEF Control
  <1>6. Stack'
    BY <1>1, <1>2 DEF Stack, Chained
  <1>7. Visits' /\ Removals'
    BY <1>1, <1>2, <1>t DEF Visits, Removals
  <1>8. Refs' /\ Saved'
    BY <1>1, <1>2, <1>t DEF Refs, Oids, Known, Saved, Intact, Written
  <1>9. Storing' /\ Sweeping'
    BY <1>1 DEF Storing, Sweeping
  <1>m. last.mode = mode /\ last.op = op /\ mode \in SUBSET Attrs
    BY <1>1, <1>t DEF Control, Types
  <1>10. StoreComplete'
    <2>1. SUFFICES ASSUME last.op = "store", ret = "ok", last.clean,
                          NEW o \in Reach(last.root, last.mode)
                   PROVE  (obj[o].removed \/ Synchronized(o, mode)) /\ o \in Obj
      <3>1. Reach(last.root, last.mode)' = Reach(last.root, last.mode)
        BY <1>1, <1>3 DEF Reach, Closed
      <3>2. \A o : Synchronized(o, last.mode)' <=> Synchronized(o, last.mode)
        BY <1>1, <1>3 DEF Synchronized
      <3> QED  BY <1>1, <1>3, <1>m, <3>1, <3>2 DEF StoreComplete, Stores
    <2>2. Progress(mode) /\ last.root \in realized
      BY <1>2, <1>m, <1>t, <2>1 DEF Storing
    <2>3. \A u \in realized : /\ obj[u].removed \/ Written(u)
                              /\ \A a \in mode : u \in Linked(a)
      BY <2>2 DEF Progress
    <2>4. realized \in SUBSET Obj /\ db \in [Obj -> Image]
      BY <1>t DEF Types
    <2>5. Closed(realized, mode)
      BY <1>2, <2>3 DEF Closed, Linked
    <2>6. o \in realized
      BY <1>m, <2>1, <2>2, <2>4, <2>5 DEF Reach
    <2>7. Written(o) => Synchronized(o, mode)
      <3>1. o \in Obj /\ db[o] \in Image
        BY <2>4, <2>6
      <3>2. Written(o) => db[o] = [st |-> "written", val |-> obj[o].val, ref |-> obj[o].ref]
        BY <3>1 DEF Written, Image
      <3>3. \A a \in mode : obj[o].ptr[a] # Null => obj[o].ref[a] = obj[o].ptr[a]
        BY <2>3, <2>6 DEF Linked
      <3> QED  BY <3>2, <3>3 DEF Synchronized
    <2> QED  BY <2>3, <2>4, <2>6, <2>7
  <1>11. RemoveComplete'
    <2>1. SUFFICES ASSUME last.op = "remove", ret = "ok",
                          NEW o \in Reach(last.root, last.mode), obj[o].oid
                   PROVE  obj[o].removed /\ db[o].st = "none"
      <3>1. Reach(last.root, last.mode)' = Reach(last.root, last.mode)
        BY <1>1, <1>3 DEF Reach, Closed
      <3> QED  BY <1>1, <1>3, <3>1 DEF RemoveComplete
    <2>2. PICK D \in SUBSET Obj : Swept(mode, D) /\ last.root \in D
      BY <1>2, <1>m, <1>t, <2>1 DEF Sweeping
    <2> DEFINE S == Handled(D)
    <2>3. S \in SUBSET Obj /\ last.root \in S
      BY <1>2, <2>2 DEF Handled
    <2>4. \A u \in D : obj[u].removed /\ \A a \in mode : u \in Settled(a, D)
      BY <2>2 DEF Swept
    <2>5. Closed(S, mode)
      BY <1>2, <2>4 DEF Closed, Settled, Handled
    <2>6. o \in S /\ o \in Obj
      BY <1>m, <2>1, <2>3, <2>5 DEF Reach
    <2>7. o \in D
      BY <1>2, <2>1, <2>6 DEF Handled
    <2> QED  BY <1>t, <2>4, <2>6, <2>7 DEF Removals
  <1> QED  BY <1>4, <1>5, <1>6, <1>7, <1>8, <1>9, <1>10, <1>11 DEF Inv

-----------------------------------------------------------------------------
(* The application, and the theorems.                                       *)

\* What a change of the object t by the application keeps.
Edited(t) ==
    /\ obj' \in [Obj -> Objects] /\ obj'[t].modify
    /\ \A o \in Obj : /\ obj'[o].oid = obj[o].oid /\ obj'[o].removed = obj[o].removed
                      /\ obj'[o].realizing = obj[o].realizing
                      /\ o # t => obj'[o] = obj[o]
    /\ \A a \in Attrs : obj'[t].ref[a] = obj[t].ref[a] \/ obj[obj'[t].ref[a]].oid

\* A change by the application keeps the invariant: the last call is forgotten.
LEMMA EditedInv ==
    ASSUME Inv, NEW t \in Obj, Edited(t), op = "none", last' = NoCall,
           UNCHANGED <<db, op, mode, realized, stack, ret, broken, refused, visits>>
    PROVE  Inv'
  <1>t. Types /\ Control /\ Visits /\ Removals /\ Refs /\ Saved
    BY DEF Inv
  <1>1. /\ obj' \in [Obj -> Objects] /\ obj'[t].modify
        /\ \A o \in Obj : /\ obj'[o].oid = obj[o].oid /\ obj'[o].removed = obj[o].removed
                          /\ obj'[o].realizing = obj[o].realizing
                          /\ o # t => obj'[o] = obj[o]
        /\ \A a \in Attrs : obj'[t].ref[a] = obj[t].ref[a] \/ obj[obj'[t].ref[a]].oid
    BY DEF Edited
  <1>2. Len(stack) = 0 /\ Active' = Active /\ Fresh' = Fresh /\ Known' = Known
    BY <1>t DEF Control, Active, Fresh, Known
  <1>3. last' \in LastType /\ last'.op = "none"
    BY DEF NoCall, LastType
  <1>4. Types'
    BY <1>1, <1>3, <1>t DEF Types, LastType
  <1>5. Control'
    BY <1>2, <1>t DEF Control
  <1>6. Stack'
    BY <1>2, <1>t DEF Stack, Chained
  <1>7. Visits' /\ Removals'
    BY <1>1, <1>2, <1>t DEF Visits, Removals
  <1>8. Refs'
    <2>1. SUFFICES ASSUME Intact' PROVE Oids'
      BY DEF Refs
    <2>2. Oids
      BY <1>t, <2>1 DEF Refs, Intact
    <2>3. \A o \in Obj : \A a \in Attrs :
              /\ obj'[o].ref[a] \in Obj \cup {Null} /\ db[o].ref[a] \in Obj \cup {Null}
              /\ obj[o].ref[a] # Null => obj[obj[o].ref[a]].oid
              /\ db[o].ref[a] # Null => obj[db[o].ref[a]].oid
      BY <1>1, <1>t, <2>2 DEF Types, Objects, Image, Oids
    <2>u. \A u \in Obj : obj'[u].oid = obj[u].oid
      BY <1>1
    <2>4. ASSUME NEW o \in Obj, NEW a \in Attrs, obj'[o].ref[a] # Null
          PROVE  obj'[obj'[o].ref[a]].oid
      <3>1. obj'[o].ref[a] = obj[o].ref[a] \/ obj[obj'[o].ref[a]].oid
        BY <1>1
      <3>2. obj'[o].ref[a] \in Obj /\ obj[obj'[o].ref[a]].oid
        BY <2>3, <2>4, <3>1
      <3> QED  BY <2>u, <3>2
    <2>5. ASSUME NEW o \in Obj, NEW a \in Attrs, db[o].ref[a] # Null
          PROVE  obj'[db[o].ref[a]].oid
      <3>1. db[o].ref[a] \in Obj /\ obj[db[o].ref[a]].oid
        BY <2>3, <2>5
      <3> QED  BY <2>u, <3>1
    <2>6. \A o \in Obj : db'[o].st = "reserved" => o \in Fresh'
      BY <1>2, <2>2 DEF Oids
    <2>7. \A o \in Obj : obj'[o].oid /\ ~obj'[o].removed => db'[o].st # "none"
      BY <1>1, <2>2 DEF Oids
    <2>8. \A o \in Obj : obj'[o].realizing \/ o \in Known' => obj'[o].oid
      BY <1>1, <1>2, <2>2 DEF Oids
    <2> QED  BY <2>4, <2>5, <2>6, <2>7, <2>8 DEF Oids
  <1>9. Saved'
    BY <1>1, <1>2, <1>t DEF Saved, Intact, Written
  <1>10. Storing' /\ Sweeping' /\ StoreComplete' /\ RemoveComplete'
    BY <1>3 DEF Storing, Sweeping, StoreComplete, RemoveComplete, Stores
  <1> QED  BY <1>4, <1>5, <1>6, <1>7, <1>8, <1>9, <1>10 DEF Inv

\* A change of the plain value keeps the invariant.
LEMMA SetValInv ==
    ASSUME Inv, NEW o \in Obj, SetVal(o)
    PROVE  Inv'
  <1>1. obj[o] \in Objects /\ obj \in [Obj -> Objects]
    BY DEF Inv, Types
  <1> DEFINE v == 1 - obj[o].val
             x == [obj[o] EXCEPT !.val = v, !.modify = TRUE]
  <1>2. obj' = [obj EXCEPT ![o] = x]
    BY <1>1 DEF SetVal
  <1>3. /\ x \in Objects /\ x.modify /\ x.oid = obj[o].oid /\ x.removed = obj[o].removed
        /\ x.realizing = obj[o].realizing /\ x.ref = obj[o].ref
    <2>1. v \in {0, 1}
      BY <1>1 DEF Objects
    <2> HIDE DEF v
    <2> QED  BY <1>1, <2>1 DEF Objects
  <1> HIDE DEF x
  <1>4. obj' \in [Obj -> Objects] /\ obj'[o] = x /\ \A u \in Obj : u # o => obj'[u] = obj[u]
    BY <1>1, <1>2, <1>3
  <1>5. Edited(o)
    BY <1>3, <1>4 DEF Edited
  <1> QED  BY <1>5, EditedInv DEF SetVal, MayEdit

\* AttrIndirect::setValue keeps the invariant: it takes the oid only of a target that has one.
LEMMA SetValueInv ==
    ASSUME Inv, NEW o \in Obj, NEW a \in Attrs, NEW t \in Obj \cup {Null}, SetValue(o, a, t)
    PROVE  Inv'
  <1>1. /\ obj[o] \in Objects /\ obj \in [Obj -> Objects]
        /\ obj[o].ref \in [Attrs -> Obj \cup {Null}] /\ obj[o].ptr \in [Attrs -> Obj \cup {Null}]
    BY DEF Inv, Types, Objects
  <1> DEFINE r == IF t # Null /\ obj[t].oid THEN t ELSE obj[o].ref[a]
             f == [obj[o].ref EXCEPT ![a] = r]
             g == [obj[o].ptr EXCEPT ![a] = t]
             x == [obj[o] EXCEPT !.ptr = g, !.modify = TRUE, !.ref = f]
  <1>2. obj' = [obj EXCEPT ![o] = x]
    BY <1>1 DEF SetValue
  <1>3. r \in Obj \cup {Null} /\ (r = obj[o].ref[a] \/ obj[r].oid)
    BY <1>1
  <1> HIDE DEF r
  <1>4. /\ f \in [Attrs -> Obj \cup {Null}] /\ g \in [Attrs -> Obj \cup {Null}]
        /\ \A b \in Attrs : f[b] = obj[o].ref[b] \/ obj[f[b]].oid
    BY <1>1, <1>3
  <1> HIDE DEF f, g
  <1>5. /\ x \in Objects /\ x.modify /\ x.oid = obj[o].oid /\ x.removed = obj[o].removed
        /\ x.realizing = obj[o].realizing /\ x.ref = f
    BY <1>1, <1>4 DEF Objects
  <1> HIDE DEF x
  <1>6. obj' \in [Obj -> Objects] /\ obj'[o] = x /\ \A u \in Obj : u # o => obj'[u] = obj[u]
    BY <1>1, <1>2, <1>5
  <1>7. Edited(o)
    BY <1>4, <1>5, <1>6 DEF Edited
  <1> QED  BY <1>7, EditedInv DEF SetValue, MayEdit

\* New objects with pointers between them satisfy the invariant.
LEMMA InitInv ==
    ASSUME Init
    PROVE  Inv
  <1>1. PICK g \in Graphs :
            obj = [o \in Obj |-> [oid |-> FALSE, ptr |-> g[o], ref |-> [a \in Attrs |-> Null],
                                  val |-> 0, modify |-> \E a \in Attrs : g[o][a] # Null,
                                  realizing |-> FALSE, removed |-> FALSE]]
    BY DEF Init
  <1>2. g \in [Obj -> [Attrs -> Obj \cup {Null}]]
    BY RealizeAssumption DEF Attrs
  <1>3. ASSUME NEW o \in Obj
        PROVE  /\ obj[o] \in Objects /\ ~obj[o].oid /\ ~obj[o].realizing /\ ~obj[o].removed
               /\ \A a \in Attrs : obj[o].ref[a] = Null
    <2> DEFINE b == \E a \in Attrs : g[o][a] # Null
               n == [a \in Attrs |-> Null]
               f == g[o]
    <2>1. b \in BOOLEAN /\ n \in [Attrs -> Obj \cup {Null}] /\ f \in [Attrs -> Obj \cup {Null}]
      BY <1>2
    <2>2. \A a \in Attrs : n[a] = Null
      OBVIOUS
    <2>3. obj[o] = [oid |-> FALSE, ptr |-> f, ref |-> n, val |-> 0, modify |-> b,
                    realizing |-> FALSE, removed |-> FALSE]
      BY <1>1
    <2> HIDE DEF b, n, f
    <2> QED  BY <2>1, <2>2, <2>3 DEF Objects
  <1>4. obj \in [Obj -> Objects]
    <2>1. \E h : obj = [o \in Obj |-> h[o]]
      <3>1. obj = [o \in Obj |-> obj[o]]
        BY <1>1
      <3> QED  BY <3>1
    <2> QED  BY <1>3, <2>1
  <1>5. /\ db \in [Obj -> Image]
        /\ \A o \in Obj : db[o].st = "none" /\ \A a \in Attrs : db[o].ref[a] = Null
    <2>1. Nothing \in Image /\ Nothing.st = "none" /\ \A a \in Attrs : Nothing.ref[a] = Null
      BY DEF Nothing, Image
    <2>2. db = [o \in Obj |-> Nothing]
      BY DEF Init
    <2> QED  BY <2>1, <2>2
  <1>6. /\ op = "none" /\ mode = {} /\ realized = {} /\ stack = <<>> /\ ret = "none"
        /\ broken = FALSE /\ refused = FALSE /\ last = NoCall /\ visits = [o \in Obj |-> 0]
    BY DEF Init
  <1>7. Len(stack) = 0 /\ stack \in Seq(Frame) /\ Active = {} /\ Known = {}
    BY <1>6 DEF Active, Known
  <1>8. last \in LastType /\ last.op = "none"
    BY <1>6 DEF NoCall, LastType
  <1>9. Types
    BY <1>4, <1>5, <1>6, <1>7, <1>8 DEF Types, LastType
  <1>10. Control /\ Stack /\ Visits
    BY <1>6, <1>7 DEF Control, Stack, Chained, Visits
  <1>11. Removals /\ Refs /\ Saved
    BY <1>3, <1>5, <1>6, <1>7 DEF Removals, Refs, Oids, Saved
  <1>12. Storing /\ Sweeping /\ StoreComplete /\ RemoveComplete
    BY <1>6, <1>8 DEF Storing, Sweeping, StoreComplete, RemoveComplete, Stores
  <1> QED  BY <1>9, <1>10, <1>11, <1>12 DEF Inv

\* A step that changes nothing.
LEMMA StutterInv ==
    ASSUME Inv, UNCHANGED vars
    PROVE  Inv'
  <1>1. UNCHANGED <<obj, db, op, mode, realized, stack, ret, broken, refused, last, visits>>
    BY DEF vars
  <1>2. /\ Active' = Active /\ Fresh' = Fresh /\ Known' = Known /\ Target(Len(stack))' = Target(Len(stack))
        /\ \A k : Target(k)' = Target(k)
        /\ \A a : Linked(a)' = Linked(a) /\ \A D : Settled(a, D)' = Settled(a, D)
        /\ \A D : Handled(D)' = Handled(D)
    BY <1>1 DEF Active, Fresh, Known, Target, Linked, Settled, Handled
  <1>3. Types' /\ Control' /\ Stack' /\ Visits' /\ Removals'
    BY <1>1, <1>2 DEF Inv, Types, Control, Stack, Chained, Visits, Flagged, Removals
  <1>4. Refs' /\ Saved'
    BY <1>1, <1>2 DEF Inv, Refs, Oids, Saved, Intact, Written
  <1>5. Storing' /\ Sweeping'
    BY <1>1, <1>2 DEF Inv, Storing, Intact, Progress, Written, Sweeping, Swept
  <1>6. StoreComplete' /\ RemoveComplete'
    BY <1>1 DEF Inv, StoreComplete, RemoveComplete, Stores, Reach, Closed, Synchronized
  <1> QED  BY <1>3, <1>4, <1>5, <1>6 DEF Inv

\* Every step keeps the invariant.
LEMMA NextInv ==
    ASSUME Inv, [Next]_vars
    PROVE  Inv'
  BY SetValInv, SetValueInv, StoreInv, RemoveInv, GoDownInv, SetItemOidInv, UnwindInv, WriteInv,
     DeleteInv, ReturnInv, StutterInv DEF Next, Step

\* The inductive invariant holds.
LEMMA Invariant == Spec => []Inv
  BY InitInv, NextInv, PTL DEF Spec

\* VisitedOnce: a call stores an object once, however many paths lead to it, and never
\* starts an activation on an object that has one (the flags Realizing and Removing and
\* realizedMap of Agregat::realize and remove), whatever the graph and the RecMode.
THEOREM Once == Spec => []VisitedOnce
  <1>1. Inv => VisitedOnce
    <2> SUFFICES ASSUME Inv PROVE VisitedOnce
      OBVIOUS
    <2>1. Types /\ Visits /\ Stack
      BY DEF Inv
    <2>2. DOMAIN stack = 1 .. Len(stack)
      BY <2>1 DEF Types
    <2>3. TypeOK
      <3>1. \A o \in Obj : db[o].st \in {"none", "reserved", "written"}
        BY <2>1 DEF Types, Image
      <3> QED  BY <2>1, <3>1 DEF Types, TypeOK
    <2>4. \A k \in DOMAIN stack : op = "store" => obj[stack[k].o].realizing
      BY <2>1, <2>2 DEF Visits, Flagged, Active
    <2>5. \A j, k \in DOMAIN stack : stack[j].o = stack[k].o => j = k
      BY <2>1, <2>2 DEF Stack, Chained
    <2>6. \A o \in Obj : visits[o] <= 1
      BY <2>1 DEF Visits
    <2> QED  BY <2>3, <2>4, <2>5, <2>6 DEF VisitedOnce
  <1> QED  BY <1>1, Invariant, PTL

\* StoreComplete: a store that succeeds has written every object it goes down to, with
\* the oids of what its pointers refer to (Agregat::realize, AttrIndirect::realize),
\* unless an earlier store left a flag set or was refused by a constraint.
THEOREM Stored == Spec => []StoreComplete
  <1>1. Inv => StoreComplete
    BY DEF Inv
  <1> QED  BY <1>1, Invariant, PTL

\* RemoveComplete: a remove that succeeds has removed every object it goes down to
\* (Agregat::remove, AttrIndirect::remove).
THEOREM Removed == Spec => []RemoveComplete
  <1>1. Inv => RemoveComplete
    BY DEF Inv
  <1> QED  BY <1>1, Invariant, PTL

\* RefsStored: between calls of a transaction that can be committed, no object has only
\* the oid that realize reserves before it goes down, and what is stored refers to
\* what is stored or was removed.
THEOREM References == Spec => []RefsStored
  <1>1. Inv => RefsStored
    <2> SUFFICES ASSUME Inv, op = "none", ~broken, ~refused, NEW o \in Obj
                 PROVE  /\ db[o].st # "reserved"
                        /\ \A a \in Attrs : LET t == db[o].ref[a]
                                            IN  t # Null /\ ~obj[t].removed => db[t].st = "written"
      BY DEF RefsStored
    <2>1. Types /\ Control /\ Oids
      BY DEF Inv, Refs, Intact
    <2>2. Fresh = {}
      BY <2>1 DEF Control, Fresh
    <2>3. \A u \in Obj : db[u].st # "reserved" /\ db[u].st \in {"none", "reserved", "written"}
      BY <2>1, <2>2 DEF Oids, Types, Image
    <2>4. ASSUME NEW a \in Attrs, NEW t, t = db[o].ref[a], t # Null, ~obj[t].removed
          PROVE  db[t].st = "written"
      <3>1. t \in Obj
        BY <2>1, <2>4 DEF Types, Image
      <3>2. obj[t].oid
        BY <2>1, <2>4 DEF Oids
      <3>3. db[t].st # "none"
        BY <2>1, <2>4, <3>1, <3>2 DEF Oids
      <3> QED  BY <2>3, <3>1, <3>3
    <2> QED  BY <2>3, <2>4
  <1> QED  BY <1>1, Invariant, PTL

=============================================================================
