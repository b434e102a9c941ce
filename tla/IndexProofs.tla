---------------------------- MODULE IndexProofs ----------------------------
(***************************************************************************)
(* Proofs about Index, for any objects, values and lengths, of an           *)
(* application that does none of CarelessKinds.                             *)
(***************************************************************************)
EXTENDS Index, TLAPS

Num == Nums \cup {0}
Str == Strings \cup {Empty}
Ids == DataIds \cup {0}

-----------------------------------------------------------------------------
(* The inductive invariant.  A stored object is described by its string     *)
(* alone: Read gives the same one.                                          *)

Shape(d) == d = [live |-> d.live, num |-> d.num, str |-> d.str, vd |-> d.vd,
                 ini |-> d.ini, data |-> d.data, idx |-> d.idx]

Typed(d) ==
    /\ Shape(d)
    /\ d.live \subseteq Objs
    /\ d.num \in [Objs -> Num]
    /\ d.str \in [Objs -> Str]
    /\ d.vd \in [Objs -> Ids]
    /\ d.ini \in [Objs -> BOOLEAN]
    /\ d.data \in [Objs -> [DataIds -> Strings \cup {NoData}]]

\* The entries of the objects of L.
StrE(s, o) == StrEntry(s, s = Empty, o)
Entries(d, L) == {NumEntry(d.num[u], u) : u \in L} \cup {StrE(d.str[u], u) : u \in L}

\* An object that is stored, and one that is not.
Kept(d, o) ==
    /\ d.vd[o] # 0 <=> Long(d.str[o])
    /\ d.vd[o] # 0 => d.data[o][d.vd[o]] = d.str[o]
    /\ \A k \in DataIds : k # d.vd[o] => d.data[o][k] = NoData
    /\ d.str[o] # Empty /\ ~Long(d.str[o]) => d.ini[o]

Gone(d, o) ==
    /\ d.num[o] = 0 /\ d.str[o] = Empty /\ d.vd[o] = 0 /\ d.ini[o] = FALSE
    /\ \A k \in DataIds : d.data[o][k] = NoData

\* The constraints, of an object with the number n and the string s.
NotNull(n, s) == /\ "num" \in notnull => n # 0
                 /\ "str" \in notnull => s # Empty
Alone(d, o, n, s) ==
    \A u \in d.live \ {o} : /\ "num" \in unique /\ n # 0 => d.num[u] # n
                            /\ "str" \in unique /\ s # Empty => d.str[u] # s

\* The object in hand: the client knows the data object of a stored string, and
\* that the size of a long one has changed.
HeldType == [o: Objs, new: BOOLEAN, num: Num, str: Str, vd: Ids, chg: BOOLEAN,
             loaded: BOOLEAN, ini: BOOLEAN, mod: BOOLEAN]
NewHeld(d, h) == h.o \notin d.live /\ h.vd = 0
OldHeld(d, h) == /\ h.o \in d.live /\ h.vd = d.vd[h.o]
                 /\ h.str = Empty => d.str[h.o] = Empty
                 /\ h.vd # 0 /\ ~h.chg => Len(h.str) = Len(d.str[h.o])
HeldOK(d, h) ==
    /\ h \in HeldType
    /\ h.new => NewHeld(d, h)
    /\ ~h.new => OldHeld(d, h)
    /\ ~h.loaded => h.str = Empty /\ h.vd = 0
    /\ h.str # Empty /\ ~Long(h.str) => h.ini

DbInv(d) ==
    /\ Typed(d)
    /\ \A o \in d.live : Kept(d, o)
    /\ \A o \in Objs \ d.live : Gone(d, o)
    /\ d.idx = SetToBag(Entries(d, d.live))
    /\ \A o \in d.live : NotNull(d.num[o], d.str[o]) /\ Alone(d, o, d.num[o], d.str[o])

IInv ==
    /\ unique \subseteq {"num", "str"} /\ notnull \subseteq {"num", "str"}
    /\ DbInv(db)
    /\ held = NotHeld \/ HeldOK(db, held)
    /\ want \in [Objs -> Fields]
    /\ \A o \in db.live : want[o] = [num |-> db.num[o], str |-> db.str[o]]
    /\ reply \in {"none", "ok", "refused"} /\ broken = FALSE

-----------------------------------------------------------------------------
(* Bags that hold one copy of each element.                                 *)

LEMMA BagMinus ==
    ASSUME NEW S, NEW D, D \subseteq S
    PROVE  SetToBag(S) (-) SetToBag(D) = SetToBag(S \ D)
  <1> DEFINE B == [e \in S |-> IF e \in D THEN 1 - 1 ELSE 1]
  <1>1. SetToBag(S) (-) SetToBag(D) = [e \in {x \in S : B[x] > 0} |-> B[e]]
    BY DEF (-), SetToBag
  <1>2. {x \in S : B[x] > 0} = S \ D
    OBVIOUS
  <1> QED  BY <1>1, <1>2 DEF SetToBag

LEMMA BagPlus ==
    ASSUME NEW S, NEW D, \A e \in D : e \notin S
    PROVE  SetToBag(S) (+) SetToBag(D) = SetToBag(S \cup D)
  BY DEF (+), SetToBag

\* AttrIdxContext::realizeIdxOP, when every entry to remove is there and no entry
\* to insert is; and when the first entry to remove is not there.
LEMMA RealizeOps ==
    ASSUME NEW S, NEW nd, NEW ni, NEW sd, NEW si,
           nd \subseteq S, \A e \in ni : e \notin S \ nd,
           sd \subseteq (S \ nd) \cup ni, \A e \in si : e \notin ((S \ nd) \cup ni) \ sd
    PROVE  RealizeIdxOP(SetToBag(S), Queue(nd, ni), Queue(sd, si))
             = [ok |-> TRUE, idx |-> SetToBag(((((S \ nd) \cup ni) \ sd) \cup si))]
  <1> DEFINE T == (S \ nd) \cup ni
             U == (T \ sd) \cup si
             r0 == [ok |-> TRUE, idx |-> SetToBag(S)]
             r1 == [ok |-> TRUE, idx |-> SetToBag(T)]
  <1>1. Perform(r0, Queue(nd, ni)) = r1
    <2>1. (SetToBag(S) (-) SetToBag(nd)) (+) SetToBag(ni) = SetToBag(T)
      BY BagMinus, BagPlus
    <2>2. BagToSet(r0.idx) = S
      BY DEF BagToSet, SetToBag
    <2> QED  BY <2>1, <2>2 DEF Perform, Queue
  <1>2. Perform(r1, Queue(sd, si)) = [ok |-> TRUE, idx |-> SetToBag(U)]
    <2>1. (SetToBag(T) (-) SetToBag(sd)) (+) SetToBag(si) = SetToBag(U)
      <3> HIDE DEF T, U
      <3>0. sd \subseteq T /\ \A e \in si : e \notin T \ sd
        BY DEF T
      <3>1. SetToBag(T) (-) SetToBag(sd) = SetToBag(T \ sd)
        BY <3>0, BagMinus
      <3> DEFINE V == T \ sd
      <3>2. \A e \in si : e \notin V
        BY <3>0
      <3> HIDE DEF V
      <3>3. SetToBag(V) (+) SetToBag(si) = SetToBag(V \cup si)
        BY <3>2, BagPlus
      <3> QED  BY <3>1, <3>3 DEF U, V
    <2>2. BagToSet(r1.idx) = T
      BY DEF BagToSet, SetToBag
    <2>3. sd \subseteq T
      OBVIOUS
    <2> HIDE DEF T, U
    <2> QED  BY <2>1, <2>2, <2>3 DEF Perform, Queue
  <1> QED  BY <1>1, <1>2 DEF RealizeIdxOP

LEMMA RealizeStr ==
    ASSUME NEW S, NEW sd, NEW si, NEW R, sd \subseteq S, \A e \in si : e \notin S \ sd,
           R = (S \ sd) \cup si
    PROVE  RealizeIdxOP(SetToBag(S), NoOps, Queue(sd, si)) = [ok |-> TRUE, idx |-> SetToBag(R)]
  <1> DEFINE Z == {}
  <1>1. Z \subseteq S /\ \A e \in Z : e \notin S \ Z
    OBVIOUS
  <1>2. (S \ Z) \cup Z = S
    OBVIOUS
  <1> HIDE DEF Z
  <1>3. sd \subseteq (S \ Z) \cup Z /\ \A e \in si : e \notin ((S \ Z) \cup Z) \ sd
    BY <1>2
  <1>4. RealizeIdxOP(SetToBag(S), Queue(Z, Z), Queue(sd, si))
          = [ok |-> TRUE, idx |-> SetToBag(((((S \ Z) \cup Z) \ sd) \cup si))]
    BY <1>1, <1>3, RealizeOps
  <1>5. ((((S \ Z) \cup Z) \ sd) \cup si) = R
    BY <1>2
  <1> QED  BY <1>4, <1>5 DEF NoOps, Z

LEMMA RealizeFails ==
    ASSUME NEW S, NEW nd, NEW ni, NEW sd, NEW si, ~(nd \subseteq S)
    PROVE  RealizeIdxOP(SetToBag(S), Queue(nd, ni), Queue(sd, si))
             = [ok |-> FALSE, idx |-> SetToBag(S)]
  <1>1. BagToSet(SetToBag(S)) = S
    BY DEF BagToSet, SetToBag
  <1> QED  BY <1>1 DEF RealizeIdxOP, Perform, Queue

-----------------------------------------------------------------------------
(* Strings and keys.                                                        *)

LEMMA StringFacts ==
    ASSUME NEW s \in Strings
    PROVE  /\ s \in Seq(Chars) /\ Len(s) \in Nat \ {0}
           /\ s # Empty /\ s # NoData /\ s[1] \in Chars
  <1>1. PICK n \in Lens, c \in Chars : s = [i \in 1..n |-> c]
    BY DEF Strings
  <1>2. n \in Nat \ {0} /\ 0 \notin Chars
    BY IndexAssumption
  <1>3. s \in Seq(Chars) /\ Len(s) = n
    BY <1>1, <1>2
  <1>4. s[1] = c
    BY <1>1, <1>2
  <1> QED  BY <1>2, <1>3, <1>4 DEF Empty, NoData

LEMMA StrFacts ==
    ASSUME NEW s \in Str
    PROVE  /\ s \in Seq(Chars) /\ Len(s) \in Nat
           /\ s # Empty => s \in Strings
           /\ Long(s) => s \in Strings
           /\ s # NoData
  <1>1. CASE s = Empty
    <2>1. Len(s) = 0 /\ VarsSz \in Nat
      BY <1>1, IndexAssumption DEF Empty
    <2>2. ~Long(s)
      BY <2>1 DEF Long
    <2> QED  BY <1>1, <2>2 DEF Empty, NoData
  <1>2. CASE s \in Strings
    BY <1>2, StringFacts
  <1> QED  BY <1>1, <1>2 DEF Str

LEMMA EmptyShort == ~Long(Empty)
  <1>1. Len(Empty) = 0 /\ VarsSz \in Nat
    BY IndexAssumption DEF Empty
  <1> QED  BY <1>1 DEF Long

LEMMA Tail1 ==
    ASSUME NEW X, NEW x, NEW y, NEW s \in Seq(X), NEW t \in Seq(X), <<x>> \o s = <<y>> \o t
    PROVE  s = t
  <1>1. Len(<<x>> \o s) = Len(s) + 1 /\ Len(<<y>> \o t) = Len(t) + 1
    OBVIOUS
  <1>2. Len(s) = Len(t)
    BY <1>1
  <1>3. ASSUME NEW i \in 1..Len(s) PROVE s[i] = t[i]
    <2>1. (<<x>> \o s)[i + 1] = s[i] /\ (<<y>> \o t)[i + 1] = t[i]
      BY <1>2
    <2> QED  BY <2>1
  <1> QED  BY <1>2, <1>3

LEMMA StrKeyInjective ==
    ASSUME NEW s \in Str, NEW t \in Str, NEW a, NEW b, StrKey(s, a) = StrKey(t, b)
    PROVE  s = t
  <1>1. s \in Seq(Chars) /\ t \in Seq(Chars)
    BY StrFacts
  <1> QED  BY <1>1, Tail1 DEF StrKey

LEMMA NumKeyInjective ==
    ASSUME NEW n, NEW m, NumKey(n) = NumKey(m)
    PROVE  n = m
  BY DEF NumKey

LEMMA EntryFacts ==
    ASSUME NEW o, NEW u
    PROVE  /\ \A n, m : NumEntry(n, o) = NumEntry(m, u) => n = m /\ o = u
           /\ \A s, t \in Str : StrE(s, o) = StrE(t, u) => s = t /\ o = u
           /\ \A n, s : NumEntry(n, o) # StrE(s, u)
  <1>1. \A n, m : NumEntry(n, o) = NumEntry(m, u) => n = m /\ o = u
    BY NumKeyInjective DEF NumEntry
  <1>2. \A s, t \in Str : StrE(s, o) = StrE(t, u) => s = t /\ o = u
    BY StrKeyInjective DEF StrE, StrEntry
  <1>3. \A n, s : NumEntry(n, o) # StrE(s, u)
    BY DEF NumEntry, StrE, StrEntry
  <1> QED  BY <1>1, <1>2, <1>3

LEMMA Foreign ==
    ASSUME NEW d, NEW L, NEW o, d.str \in [Objs -> Str], L \subseteq Objs, o \notin L
    PROVE  /\ \A n : NumEntry(n, o) \notin Entries(d, L)
           /\ \A s \in Str : StrE(s, o) \notin Entries(d, L)
  <1>1. ASSUME NEW n, NEW u \in L
        PROVE  NumEntry(n, o) # NumEntry(d.num[u], u) /\ NumEntry(n, o) # StrE(d.str[u], u)
    BY EntryFacts
  <1>2. ASSUME NEW s \in Str, NEW u \in L
        PROVE  StrE(s, o) # NumEntry(d.num[u], u) /\ StrE(s, o) # StrE(d.str[u], u)
    <2>1. d.str[u] \in Str /\ u # o
      OBVIOUS
    <2> QED  BY <2>1, EntryFacts
  <1> QED  BY <1>1, <1>2 DEF Entries

-----------------------------------------------------------------------------
(* The search for the constraint unique.                                    *)

LEMMA FoundNum ==
    ASSUME NEW d, NEW L, NEW P, NEW n, ~Found(SetToBag(Entries(d, L) \cup P), "num", NumKey(n))
    PROVE  \A u \in L : d.num[u] # n
  <1> SUFFICES ASSUME NEW u \in L, d.num[u] = n PROVE FALSE
    OBVIOUS
  <1>1. NumEntry(n, u) \in Entries(d, L)
    BY DEF Entries
  <1> QED  BY <1>1 DEF Found, BagToSet, SetToBag, NumEntry

LEMMA FoundStr ==
    ASSUME NEW d, NEW L, NEW P, NEW s, NEW key, key = StrKey(s, s = Empty),
           ~Found(SetToBag(Entries(d, L) \cup P), "str", key)
    PROVE  \A u \in L : d.str[u] # s
  <1> SUFFICES ASSUME NEW u \in L, d.str[u] = s PROVE FALSE
    OBVIOUS
  <1>1. StrE(s, u) \in Entries(d, L)
    BY DEF Entries
  <1> QED  BY <1>1 DEF Found, BagToSet, SetToBag, StrE, StrEntry

LEMMA NumFound ==
    ASSUME NEW d, NEW L, NEW n, Found(SetToBag(Entries(d, L)), "num", NumKey(n))
    PROVE  \E u \in L : d.num[u] = n
  <1>1. PICK e \in Entries(d, L) : e[1] = "num" /\ e[2] = NumKey(n)
    BY DEF Found, BagToSet, SetToBag
  <1>2. PICK u \in L : e = NumEntry(d.num[u], u) \/ e = StrE(d.str[u], u)
    BY DEF Entries
  <1>3. StrE(d.str[u], u)[1] = "str" /\ NumEntry(d.num[u], u)[2] = NumKey(d.num[u])
    BY DEF StrE, StrEntry, NumEntry
  <1> QED  BY <1>1, <1>2, <1>3, NumKeyInjective

LEMMA StrFound ==
    ASSUME NEW d, NEW L, L \subseteq Objs, d.str \in [Objs -> Str],
           NEW key, Found(SetToBag(Entries(d, L)), "str", key)
    PROVE  \E u \in L : StrKey(d.str[u], d.str[u] = Empty) = key
  <1>1. PICK e \in Entries(d, L) : e[1] = "str" /\ e[2] = key
    BY DEF Found, BagToSet, SetToBag
  <1>2. PICK u \in L : e = NumEntry(d.num[u], u) \/ e = StrE(d.str[u], u)
    BY DEF Entries
  <1>3. NumEntry(d.num[u], u)[1] = "num" /\ StrE(d.str[u], u)[2] = StrKey(d.str[u], d.str[u] = Empty)
    BY DEF StrE, StrEntry, NumEntry
  <1> QED  BY <1>1, <1>2, <1>3

-----------------------------------------------------------------------------
(* The database after a call: the data objects of one object, and the index.*)

MkDb(l, n, s, v, i, t, x) ==
    [live |-> l, num |-> n, str |-> s, vd |-> v, ini |-> i, data |-> t, idx |-> x]

Upd(d, o, row, x) ==
    MkDb(d.live, d.num, d.str, d.vd, d.ini, [d.data EXCEPT ![o] = row], x)

Row == [DataIds -> Strings \cup {NoData}]

LEMMA UpdFields ==
    ASSUME NEW d, NEW o, NEW row, NEW x
    PROVE  LET e == Upd(d, o, row, x)
           IN  /\ e.live = d.live /\ e.num = d.num /\ e.str = d.str /\ e.vd = d.vd
               /\ e.ini = d.ini /\ e.idx = x /\ e.data = [d.data EXCEPT ![o] = row]
  BY DEF Upd, MkDb

LEMMA UpdTyped ==
    ASSUME NEW d, Typed(d), NEW o \in Objs, NEW row \in Row, NEW x
    PROVE  Typed(Upd(d, o, row, x)) /\ Upd(d, o, row, x).data[o] = row
  <1>1. [d.data EXCEPT ![o] = row] \in [Objs -> Row] /\ [d.data EXCEPT ![o] = row][o] = row
    BY DEF Typed, Row
  <1>2. Shape(Upd(d, o, row, x))
    BY DEF Upd, MkDb, Shape
  <1> DEFINE e == Upd(d, o, row, x)
  <1>3. /\ e.live = d.live /\ e.num = d.num /\ e.str = d.str /\ e.vd = d.vd
        /\ e.ini = d.ini /\ e.data = [d.data EXCEPT ![o] = row]
    BY DEF Upd, MkDb
  <1> HIDE DEF e
  <1>4. e.data \in [Objs -> [DataIds -> Strings \cup {NoData}]] /\ e.data[o] = row
    BY <1>1, <1>3 DEF Row
  <1>5. Typed(e)
    BY <1>2, <1>3, <1>4 DEF Typed, e
  <1> QED  BY <1>4, <1>5 DEF e

LEMMA UpdUpd ==
    ASSUME NEW d, Typed(d), NEW o \in Objs, NEW r1 \in Row, NEW r2 \in Row, NEW x1, NEW x2
    PROVE  Upd(Upd(d, o, r1, x1), o, r2, x2) = Upd(d, o, r2, x2)
  <1>1. [[d.data EXCEPT ![o] = r1] EXCEPT ![o] = r2] = [d.data EXCEPT ![o] = r2]
    BY DEF Typed
  <1>2. Upd(Upd(d, o, r1, x1), o, r2, x2)
          = MkDb(d.live, d.num, d.str, d.vd, d.ini, [[d.data EXCEPT ![o] = r1] EXCEPT ![o] = r2], x2)
    BY UpdFields DEF Upd
  <1> QED  BY <1>1, <1>2 DEF Upd

LEMMA UpdSame ==
    ASSUME NEW d, Typed(d), NEW o \in Objs
    PROVE  Upd(d, o, d.data[o], d.idx) = d
  <1>1. [d.data EXCEPT ![o] = d.data[o]] = d.data
    BY DEF Typed
  <1> QED  BY <1>1 DEF Typed, Shape, Upd, MkDb

LEMMA ExceptIdx ==
    ASSUME NEW l, NEW n, NEW s, NEW v, NEW i, NEW t, NEW x, NEW y
    PROVE  [MkDb(l, n, s, v, i, t, x) EXCEPT !.idx = y] = MkDb(l, n, s, v, i, t, y)
  BY DEF MkDb

LEMMA ExceptData ==
    ASSUME NEW l, NEW n, NEW s, NEW v, NEW i, NEW t, NEW x, NEW y
    PROVE  [MkDb(l, n, s, v, i, t, x) EXCEPT !.data = y] = MkDb(l, n, s, v, i, y, x)
  BY DEF MkDb

\* How VDdataWrite and VDdataDelete, and how VDdataCreate, write it.
Both(d, o, k, v, x) == [d EXCEPT !.idx = x, !.data[o][k] = v]
Twice(d, o, k, v, x) == [[d EXCEPT !.data[o][k] = v] EXCEPT !.idx = x]
RowWith(d, o, k, v) == [d.data[o] EXCEPT ![k] = v]

LEMMA UpdExcept ==
    ASSUME NEW d, Typed(d), NEW o \in Objs, NEW k \in DataIds, NEW v \in Strings \cup {NoData}, NEW x
    PROVE  /\ Both(d, o, k, v, x) = Upd(d, o, RowWith(d, o, k, v), x)
           /\ Twice(d, o, k, v, x) = Upd(d, o, RowWith(d, o, k, v), x)
           /\ RowWith(d, o, k, v) \in Row
  <1> DEFINE t == [d.data EXCEPT ![o] = [d.data[o] EXCEPT ![k] = v]]
  <1>1. d.data[o] \in Row /\ [d.data[o] EXCEPT ![k] = v] \in Row
    BY DEF Typed, Row
  <1>2. [d.data EXCEPT ![o][k] = v] = t
    BY DEF Typed
  <1>3. d = MkDb(d.live, d.num, d.str, d.vd, d.ini, d.data, d.idx)
    BY DEF Typed, Shape, MkDb
  <1>4. [d EXCEPT !.idx = x, !.data[o][k] = v] = MkDb(d.live, d.num, d.str, d.vd, d.ini, t, x)
    <2> DEFINE e == [d EXCEPT !.idx = x]
    <2>1. e = MkDb(d.live, d.num, d.str, d.vd, d.ini, d.data, x)
      BY <1>3, ExceptIdx
    <2> HIDE DEF e
    <2>2. [e EXCEPT !.data = t] = MkDb(d.live, d.num, d.str, d.vd, d.ini, t, x)
      BY <2>1, ExceptData
    <2>3. e.data = d.data
      BY <2>1 DEF MkDb
    <2>4. [e EXCEPT !.data[o][k] = v] = [e EXCEPT !.data = t]
      BY <2>3
    <2> QED  BY <2>2, <2>4 DEF e
  <1>5. [[d EXCEPT !.data[o][k] = v] EXCEPT !.idx = x] = MkDb(d.live, d.num, d.str, d.vd, d.ini, t, x)
    <2> DEFINE e == [d EXCEPT !.data[o][k] = v]
    <2>0. e = [d EXCEPT !.data = t]
      OBVIOUS
    <2>1. e = MkDb(d.live, d.num, d.str, d.vd, d.ini, t, d.idx)
      BY <1>3, <2>0, ExceptData
    <2> HIDE DEF e
    <2>2. [e EXCEPT !.idx = x] = MkDb(d.live, d.num, d.str, d.vd, d.ini, t, x)
      BY <2>1, ExceptIdx
    <2> QED  BY <2>2 DEF e
  <1> QED  BY <1>1, <1>4, <1>5 DEF Upd, Both, Twice, RowWith

-----------------------------------------------------------------------------
(* The calls for long strings.                                              *)

\* The object of the client after a call: all but the oid of the data object and
\* the flag of its size is as before.
SameBut(h, g) ==
    /\ g \in HeldType
    /\ g.o = h.o /\ g.new = h.new /\ g.num = h.num /\ g.str = h.str
    /\ g.loaded = h.loaded /\ g.ini = h.ini /\ g.mod = h.mod

LEMMA HeldVd ==
    ASSUME NEW h \in HeldType, NEW k \in Ids
    PROVE  SameBut(h, [h EXCEPT !.vd = k]) /\ [h EXCEPT !.vd = k].vd = k
  BY DEF SameBut, HeldType

LEMMA HeldChg ==
    ASSUME NEW h \in HeldType
    PROVE  SameBut(h, [h EXCEPT !.chg = FALSE]) /\ [h EXCEPT !.chg = FALSE].vd = h.vd
  BY DEF SameBut, HeldType

LEMMA HeldVdChg ==
    ASSUME NEW h \in HeldType, NEW k \in Ids
    PROVE  /\ SameBut(h, [h EXCEPT !.vd = k, !.chg = FALSE])
           /\ [h EXCEPT !.vd = k, !.chg = FALSE].vd = k
  BY DEF SameBut, HeldType

LEMMA HeldSame == \A h \in HeldType : SameBut(h, h)
  BY DEF SameBut

LEMMA HeldTrans ==
    ASSUME NEW f, NEW g, NEW h, SameBut(f, g), SameBut(g, h)
    PROVE  SameBut(f, h)
  BY DEF SameBut

LEMMA StrENotNull ==
    ASSUME NEW s \in Strings, NEW o
    PROVE  StrEntry(s, FALSE, o) = StrE(s, o) /\ StrKey(s, FALSE) = StrKey(s, s = Empty)
  <1>1. (s = Empty) = FALSE
    BY StringFacts
  <1> QED  BY <1>1 DEF StrE, StrEntry

LEMMA VDdataDeleteIs ==
    ASSUME NEW d, Typed(d), NEW o \in Objs, NEW h \in HeldType, h.vd \in DataIds,
           NEW s \in Strings, d.data[o][h.vd] = s,
           NEW P, StrE(s, o) \notin P, d.idx = SetToBag(P \cup {StrE(s, o)})
    PROVE  VDdataDelete(d, o, h)
             = Result("ok", Upd(d, o, RowWith(d, o, h.vd, NoData), SetToBag(P)),
                      [h EXCEPT !.vd = 0])
  <1> DEFINE e == StrE(s, o)
             a == RealizeIdxOP(d.idx, NoOps, Queue({StrEntry(s, FALSE, o)}, {}))
  <1>1. RealizeIdxOP(SetToBag(P \cup {e}), NoOps, Queue({e}, {})) = [ok |-> TRUE, idx |-> SetToBag(P)]
    <2> DEFINE S == P \cup {e}
               D == {e}
               I == {}
    <2>1. D \subseteq S /\ (\A x \in I : x \notin S \ D) /\ P = (S \ D) \cup I
      OBVIOUS
    <2> HIDE DEF S, D, I
    <2>2. RealizeIdxOP(SetToBag(S), NoOps, Queue(D, I)) = [ok |-> TRUE, idx |-> SetToBag(P)]
      BY <2>1, RealizeStr
    <2> QED  BY <2>2 DEF S, D, I
  <1>2. a = [ok |-> TRUE, idx |-> SetToBag(P)]
    BY <1>1, StrENotNull
  <1>3. s # NoData
    BY StringFacts
  <1>4. Both(d, o, h.vd, NoData, SetToBag(P))
          = Upd(d, o, RowWith(d, o, h.vd, NoData), SetToBag(P))
    BY UpdExcept
  <1>5. VDdataDelete(d, o, h) = Result(IF a.ok THEN "ok" ELSE "error",
                                       Both(d, o, h.vd, NoData, a.idx), [h EXCEPT !.vd = 0])
    BY <1>3 DEF VDdataDelete, Both
  <1> HIDE DEF a
  <1>6. a.ok = TRUE /\ a.idx = SetToBag(P)
    BY <1>2
  <1> QED  BY <1>4, <1>5, <1>6

\* What VDdataCreate returns unless it refuses the string.
Created(d, o, h, P, r) ==
    \E k \in Fresh(d, o, h) :
        r = Result("ok", Upd(d, o, RowWith(d, o, k, h.str), SetToBag(P \cup {StrE(h.str, o)})),
                   [h EXCEPT !.vd = k, !.chg = FALSE])

LEMMA VDdataCreateIs ==
    ASSUME NEW d, Typed(d), NEW o \in Objs, NEW h \in HeldType, h.str \in Strings,
           Fresh(d, o, h) # {}, NEW P, StrE(h.str, o) \notin P, d.idx = SetToBag(P),
           VDdataCreate(d, o, h).res # "refused"
    PROVE  /\ ~CreateStr(d, o, h.str).refused
           /\ Created(d, o, h, P, VDdataCreate(d, o, h))
  <1> DEFINE k == CHOOSE k \in Fresh(d, o, h) : TRUE
             e == StrE(h.str, o)
             c == CreateStr(d, o, h.str)
             d1 == [d EXCEPT !.data[o][k] = h.str]
  <1>1. k \in Fresh(d, o, h) /\ k \in DataIds
    BY DEF Fresh
  <1>2. c.ops = Queue({}, {e})
    BY DEF CreateStr, StrE
  <1>3. RealizeIdxOP(d.idx, NoOps, c.ops).idx = SetToBag(P \cup {e})
    <2> HIDE DEF e, c
    <2>0. e \notin P
      BY DEF e
    <2> DEFINE R == P \cup {e}
               D == {}
               I == {e}
    <2>1. D \subseteq P /\ (\A x \in I : x \notin P \ D) /\ R = (P \ D) \cup I
      BY <2>0
    <2>2. c.ops = Queue(D, I)
      BY <1>2
    <2> HIDE DEF R, D, I
    <2>3. RealizeIdxOP(SetToBag(P), NoOps, Queue(D, I)) = [ok |-> TRUE, idx |-> SetToBag(R)]
      BY <2>1, RealizeStr
    <2> QED  BY <2>2, <2>3 DEF R
  <1>4. VDdataCreate(d, o, h) =
          IF c.refused THEN Result("refused", d1, [h EXCEPT !.vd = 0])
          ELSE Result("ok", Twice(d, o, k, h.str, RealizeIdxOP(d.idx, NoOps, c.ops).idx),
                      [h EXCEPT !.vd = k, !.chg = FALSE])
    BY DEF VDdataCreate, Twice
  <1>5. Twice(d, o, k, h.str, SetToBag(P \cup {e}))
          = Upd(d, o, RowWith(d, o, k, h.str), SetToBag(P \cup {e}))
    <2> HIDE DEF k, e
    <2> QED  BY <1>1, UpdExcept
  <1> HIDE DEF k, c, d1, e
  <1>6. ~c.refused
    BY <1>4 DEF Result
  <1>7. VDdataCreate(d, o, h) = Result("ok", Twice(d, o, k, h.str, SetToBag(P \cup {e})),
                                       [h EXCEPT !.vd = k, !.chg = FALSE])
    BY <1>3, <1>4, <1>6
  <1> QED  BY <1>1, <1>5, <1>6, <1>7 DEF c, e, Created

LEMMA VDdataWriteIs ==
    ASSUME NEW d, Typed(d), NEW o \in Objs, NEW h \in HeldType, h.vd \in DataIds,
           h.str \in Strings, NEW s \in Strings, d.data[o][h.vd] = s,
           NEW P, StrE(s, o) \notin P, StrE(h.str, o) \notin P, d.idx = SetToBag(P \cup {StrE(s, o)}),
           VDdataWrite(d, o, h).res # "refused"
    PROVE  VDdataWrite(d, o, h)
             = Result("ok", Upd(d, o, RowWith(d, o, h.vd, h.str),
                                SetToBag(P \cup {StrE(h.str, o)})), h)
  <1> DEFINE e == StrE(s, o)
             f == StrE(h.str, o)
             a == RealizeIdxOP(d.idx, NoOps, Queue({StrEntry(s, FALSE, o)}, {StrEntry(h.str, FALSE, o)}))
  <1>1. RealizeIdxOP(SetToBag(P \cup {e}), NoOps, Queue({e}, {f}))
          = [ok |-> TRUE, idx |-> SetToBag(P \cup {f})]
    <2> HIDE DEF e, f
    <2>0. e \notin P /\ f \notin P
      BY DEF e, f
    <2> DEFINE S == P \cup {e}
               D == {e}
               I == {f}
               R == P \cup {f}
    <2>1. D \subseteq S /\ (\A x \in I : x \notin S \ D) /\ R = (S \ D) \cup I
      BY <2>0
    <2> HIDE DEF S, D, I, R
    <2>2. RealizeIdxOP(SetToBag(S), NoOps, Queue(D, I)) = [ok |-> TRUE, idx |-> SetToBag(R)]
      BY <2>1, RealizeStr
    <2> QED  BY <2>2 DEF S, D, I, R
  <1>2. a = [ok |-> TRUE, idx |-> SetToBag(P \cup {f})]
    BY <1>1, StrENotNull
  <1>3. s # NoData
    BY StringFacts
  <1>4. Both(d, o, h.vd, h.str, SetToBag(P \cup {f}))
          = Upd(d, o, RowWith(d, o, h.vd, h.str), SetToBag(P \cup {f}))
    <2> HIDE DEF f
    <2> QED  BY UpdExcept
  <1>5. VDdataWrite(d, o, h) =
          IF s = NoData THEN Result("error", d, h)
          ELSE IF s = h.str THEN Result("ok", d, h)
          ELSE IF "str" \in unique /\ Found(d.idx, "str", h.str) THEN Result("refused", d, h)
          ELSE Result(IF a.ok THEN "ok" ELSE "error", Both(d, o, h.vd, h.str, a.idx), h)
    BY DEF VDdataWrite, VDdataPut, Both
  <1> HIDE DEF a
  <1>6. a.ok = TRUE /\ a.idx = SetToBag(P \cup {f})
    BY <1>2
  <1>7. CASE s = h.str
    <2>1. d.data[o] \in Row
      BY DEF Typed, Row
    <2>2. RowWith(d, o, h.vd, h.str) = d.data[o]
      BY <1>7, <2>1 DEF Row, RowWith
    <2>3. d.idx = SetToBag(P \cup {f})
      BY <1>7
    <2>4. Upd(d, o, RowWith(d, o, h.vd, h.str), SetToBag(P \cup {f})) = d
      <3> HIDE DEF f
      <3> QED  BY <2>2, <2>3, UpdSame
    <2>5. VDdataWrite(d, o, h) = Result("ok", d, h)
      <3> HIDE DEF f
      <3> QED  BY <1>3, <1>5, <1>7
    <2> HIDE DEF f
    <2> QED  BY <2>4, <2>5 DEF f
  <1>8. CASE s # h.str
    <2> HIDE DEF f, e
    <2>1. ~("str" \in unique /\ Found(d.idx, "str", h.str))
      BY <1>3, <1>5, <1>8 DEF Result
    <2>2. VDdataWrite(d, o, h) = Result(IF a.ok THEN "ok" ELSE "error",
                               Both(d, o, h.vd, h.str, a.idx), h)
      BY <1>3, <1>5, <1>8, <2>1
    <2> QED  BY <1>4, <1>6, <2>2 DEF f
  <1> QED  BY <1>7, <1>8

-----------------------------------------------------------------------------
(* What AttrVD::update_realize leaves, in all its cases: the data objects   *)
(* are those of the new string, and the index has, besides what it had, the *)
(* new string if it is long, and no longer the old one if that was long.    *)

Others(d, o) == Entries(d, d.live \ {o})
OwnNum(d, o) == IF o \in d.live THEN {NumEntry(d.num[o], o)} ELSE {}
OldStr(d, o) == IF o \in d.live /\ d.vd[o] = 0 THEN {StrE(d.str[o], o)} ELSE {}
NewStr(s, o) == IF Long(s) THEN {StrE(s, o)} ELSE {}

Rest(d, o) == Others(d, o) \cup OwnNum(d, o) \cup OldStr(d, o)

RowOK(row, k, s) ==
    /\ row \in Row
    /\ k # 0 <=> Long(s)
    /\ k # 0 => row[k] = s
    /\ \A j \in DataIds : j # k => row[j] = NoData

Updated(d, o, h, r) ==
    \E row \in Row :
        /\ r.res = "ok" /\ r.d = Upd(d, o, row, SetToBag(Rest(d, o) \cup NewStr(h.str, o)))
        /\ SameBut(h, r.h) /\ RowOK(row, r.h.vd, h.str)

LEMMA IndexOf ==
    ASSUME NEW d, DbInv(d), NEW o \in Objs
    PROVE  /\ o \notin d.live \/ d.vd[o] = 0 => d.idx = SetToBag(Rest(d, o))
           /\ o \in d.live /\ d.vd[o] # 0 => /\ d.idx = SetToBag(Rest(d, o) \cup {StrE(d.str[o], o)})
                                             /\ StrE(d.str[o], o) \notin Rest(d, o)
                                             /\ d.str[o] \in Strings
           /\ \A s \in Str : StrE(s, o) \in Rest(d, o) => OldStr(d, o) = {StrE(s, o)}
  <1>0. d.live \subseteq Objs /\ d.str \in [Objs -> Str] /\ d.idx = SetToBag(Entries(d, d.live))
    BY DEF DbInv, Typed
  <1>1. CASE o \notin d.live
    <2>1. d.live \ {o} = d.live
      BY <1>1
    <2>2. Rest(d, o) = Entries(d, d.live)
      BY <1>1, <2>1 DEF Rest, Others, OwnNum, OldStr
    <2>3. \A s \in Str : StrE(s, o) \notin Entries(d, d.live)
      BY <1>0, <1>1, Foreign
    <2> QED  BY <1>0, <1>1, <2>2, <2>3
  <1>2. CASE o \in d.live
    <2>1. Entries(d, d.live) = Others(d, o) \cup {NumEntry(d.num[o], o)} \cup {StrE(d.str[o], o)}
      BY <1>2 DEF Entries, Others
    <2>2. \A s \in Str : StrE(s, o) \notin Others(d, o)
      BY <1>0, Foreign DEF Others
    <2>3. \A s \in Str : StrE(s, o) \notin OwnNum(d, o)
      BY EntryFacts DEF OwnNum
    <2>4. d.vd[o] # 0 => d.str[o] \in Strings
      <3>1. d.vd[o] # 0 => Long(d.str[o])
        BY <1>2 DEF DbInv, Kept
      <3> QED  BY <1>0, <1>2, <3>1, StrFacts
    <2>5. d.str[o] \in Str
      BY <1>0
    <2>6. \A s \in Str : StrE(s, o) = StrE(d.str[o], o) => s = d.str[o]
      BY <2>5, EntryFacts
    <2>7. CASE d.vd[o] = 0
      <3>1. OldStr(d, o) = {StrE(d.str[o], o)} /\ OwnNum(d, o) = {NumEntry(d.num[o], o)}
        BY <1>2, <2>7 DEF OldStr, OwnNum
      <3>2. Rest(d, o) = Entries(d, d.live)
        BY <2>1, <3>1 DEF Rest
      <3>3. \A s \in Str : StrE(s, o) \in Rest(d, o) => OldStr(d, o) = {StrE(s, o)}
        BY <2>2, <2>3, <2>6, <3>1 DEF Rest
      <3> QED  BY <1>0, <2>7, <3>2, <3>3
    <2>8. CASE d.vd[o] # 0
      <3>1. OldStr(d, o) = {} /\ OwnNum(d, o) = {NumEntry(d.num[o], o)}
        BY <1>2, <2>8 DEF OldStr, OwnNum
      <3>2. Rest(d, o) \cup {StrE(d.str[o], o)} = Entries(d, d.live)
        BY <2>1, <3>1 DEF Rest
      <3>3. \A s \in Str : StrE(s, o) \notin Rest(d, o)
        BY <2>2, <2>3, <3>1 DEF Rest
      <3> QED  BY <1>0, <1>2, <2>4, <2>5, <2>8, <3>2, <3>3
    <2> QED  BY <2>7, <2>8
  <1> QED  BY <1>1, <1>2

\* A long string is not the one that is in the object.
LEMMA LongNew ==
    ASSUME NEW d, DbInv(d), NEW o \in Objs, NEW s \in Str, Long(s)
    PROVE  StrE(s, o) \notin Rest(d, o)
  <1>1. SUFFICES ASSUME StrE(s, o) \in Rest(d, o) PROVE FALSE
    OBVIOUS
  <1>2. OldStr(d, o) = {StrE(s, o)}
    BY <1>1, IndexOf
  <1>3. o \in d.live /\ d.vd[o] = 0 /\ StrE(d.str[o], o) = StrE(s, o)
    BY <1>2 DEF OldStr
  <1>4. d.str[o] \in Str
    BY DEF DbInv, Typed
  <1>5. d.str[o] = s
    BY <1>3, <1>4, EntryFacts
  <1> QED  BY <1>3, <1>5 DEF DbInv, Kept

\* The data objects of the object in hand.
LEMMA HeldRow ==
    ASSUME NEW d, DbInv(d), NEW h, HeldOK(d, h)
    PROVE  /\ h \in HeldType /\ h.o \in Objs /\ h.str \in Str /\ h.vd \in Ids
           /\ d.data[h.o] \in Row
           /\ \A j \in DataIds : j # h.vd => d.data[h.o][j] = NoData
           /\ h.vd = 0 => h.o \notin d.live \/ d.vd[h.o] = 0
           /\ h.vd # 0 => /\ ~h.new /\ h.loaded /\ h.o \in d.live /\ d.vd[h.o] = h.vd
                          /\ h.vd \in DataIds /\ d.data[h.o][h.vd] = d.str[h.o]
                          /\ h.str # Empty /\ (~h.chg => Long(h.str))
  <1>1. h \in HeldType /\ h.o \in Objs /\ h.str \in Str /\ h.vd \in Ids /\ h.new \in BOOLEAN
    BY DEF HeldOK, HeldType
  <1>2. d.data[h.o] \in Row
    BY <1>1 DEF DbInv, Typed, Row
  <1>3. CASE h.new
    <2>1. h.o \notin d.live /\ h.vd = 0
      BY <1>3 DEF HeldOK, NewHeld
    <2>2. Gone(d, h.o)
      BY <1>1, <2>1 DEF DbInv
    <2> QED  BY <1>1, <1>2, <2>1, <2>2 DEF Gone
  <1>4. CASE ~h.new
    <2>1. OldHeld(d, h)
      BY <1>4 DEF HeldOK
    <2>2. h.o \in d.live /\ h.vd = d.vd[h.o]
      BY <2>1 DEF OldHeld
    <2>3. Kept(d, h.o)
      BY <2>2 DEF DbInv
    <2>4. \A j \in DataIds : j # h.vd => d.data[h.o][j] = NoData
      BY <2>2, <2>3 DEF Kept
    <2>5. ASSUME h.vd # 0
          PROVE  /\ h.loaded /\ h.vd \in DataIds /\ d.data[h.o][h.vd] = d.str[h.o]
                 /\ h.str # Empty /\ (~h.chg => Long(h.str))
      <3>1. h.loaded /\ h.vd \in DataIds
        BY <1>1, <2>5 DEF HeldOK, HeldType, Ids
      <3>2. d.data[h.o][h.vd] = d.str[h.o] /\ Long(d.str[h.o])
        BY <2>2, <2>3, <2>5 DEF Kept
      <3>3. h.str # Empty
        BY <2>1, <3>2, EmptyShort DEF OldHeld
      <3>4. ~h.chg => Long(h.str)
        BY <2>1, <2>5, <3>2 DEF OldHeld, Long
      <3> QED  BY <3>1, <3>2, <3>3, <3>4
    <2> QED  BY <1>1, <1>2, <1>4, <2>2, <2>4, <2>5
  <1> QED  BY <1>1, <1>3, <1>4

\* No call is needed: the string was short, if there was one, and is short now.
Nothing(d, h, r) ==
    \/ r = Result("refused", d, h) /\ "str" \in notnull /\ h.str = Empty
    \/ r.res = "ok" /\ r.d = d /\ SameBut(h, r.h) /\ r.h.vd = 0

LEMMA UpdateShort ==
    ASSUME NEW d, DbInv(d), NEW h, HeldOK(d, h), ~Long(h.str), h.vd = 0
    PROVE  Nothing(d, h, UpdateVD(d, h.o, h))
  <1> DEFINE r == UpdateVD(d, h.o, h)
             g == [h EXCEPT !.chg = FALSE]
  <1>1. h \in HeldType
    BY HeldRow
  <1>2. SameBut(h, h) /\ SameBut(h, g) /\ g.vd = 0
    BY <1>1, HeldSame, HeldChg
  <1>3. Recreate(d, h.o, h) = Result("ok", d, g)
    BY DEF Recreate, Result
  <1>4. \/ r = Result("refused", d, h) /\ "str" \in notnull /\ h.str = Empty /\ h.loaded
        \/ r = Result("ok", d, h)
        \/ r = Result("ok", d, g)
    BY <1>3 DEF UpdateVD
  <1>5. ASSUME NEW f PROVE Result("ok", d, f).res = "ok" /\ Result("ok", d, f).d = d /\ Result("ok", d, f).h = f
    BY DEF Result
  <1> HIDE DEF r, g
  <1> QED  BY <1>2, <1>4, <1>5 DEF Nothing, r

LEMMA UpdatedShort ==
    ASSUME NEW d, DbInv(d), NEW h, HeldOK(d, h), ~Long(h.str), h.vd = 0,
           UpdateVD(d, h.o, h).res # "refused"
    PROVE  Updated(d, h.o, h, UpdateVD(d, h.o, h))
  <1> DEFINE r == UpdateVD(d, h.o, h)
             o == h.o
  <1>1. r.res = "ok" /\ r.d = d /\ SameBut(h, r.h) /\ r.h.vd = 0
    <2>1. Result("refused", d, h).res = "refused"
      BY DEF Result
    <2>2. Nothing(d, h, r)
      BY UpdateShort
    <2> HIDE DEF r
    <2>3. r.res # "refused"
      BY DEF r
    <2> QED  BY <2>1, <2>2, <2>3 DEF Nothing
  <1> HIDE DEF r
  <1>2. o \in Objs /\ d.data[o] \in Row /\ \A j \in DataIds : j # 0 => d.data[o][j] = NoData
    BY HeldRow
  <1>3. d.idx = SetToBag(Rest(d, o))
    <2>1. o \notin d.live \/ d.vd[o] = 0
      BY HeldRow
    <2> QED  BY <1>2, <2>1, IndexOf
  <1>4. Rest(d, o) \cup NewStr(h.str, o) = Rest(d, o)
    BY DEF NewStr
  <1>5. Upd(d, o, d.data[o], SetToBag(Rest(d, o))) = d
    BY <1>2, <1>3, UpdSame DEF DbInv
  <1>6. RowOK(d.data[o], r.h.vd, h.str)
    BY <1>1, <1>2 DEF RowOK
  <1> QED  BY <1>1, <1>2, <1>4, <1>5, <1>6 DEF Updated, r

\* The string was in the object, or is new, and is long now.
LEMMA UpdatedCreate ==
    ASSUME NEW d, DbInv(d), NEW h, HeldOK(d, h), Long(h.str), h.vd = 0, Fresh(d, h.o, h) # {},
           UpdateVD(d, h.o, h).res # "refused"
    PROVE  Updated(d, h.o, h, UpdateVD(d, h.o, h)) /\ ~CreateStr(d, h.o, h.str).refused
  <1> DEFINE o == h.o
             P == Rest(d, o)
             r == UpdateVD(d, o, h)
  <1>1. h \in HeldType /\ o \in Objs /\ h.str \in Str /\ d.data[o] \in Row
        /\ (\A j \in DataIds : d.data[o][j] = NoData) /\ (o \notin d.live \/ d.vd[o] = 0)
        /\ Typed(d)
    <2>1. \A j \in DataIds : j # 0
      BY DEF DataIds
    <2> QED  BY <2>1, HeldRow DEF DbInv
  <1>2. h.str \in Strings /\ h.str # Empty /\ h.loaded
    BY <1>1, StrFacts, StringFacts DEF HeldOK
  <1>3. r = VDdataCreate(d, o, h)
    <2>1. Recreate(d, o, h) = VDdataCreate(d, o, h)
      BY DEF Recreate, Result
    <2> QED  BY <1>2, <2>1 DEF UpdateVD
  <1>4. StrE(h.str, o) \notin P /\ d.idx = SetToBag(P)
    BY <1>1, IndexOf, LongNew
  <1> HIDE DEF P
  <1>5. ~CreateStr(d, o, h.str).refused /\ Created(d, o, h, P, VDdataCreate(d, o, h))
    BY <1>1, <1>2, <1>3, <1>4, VDdataCreateIs
  <1>6. PICK k \in Fresh(d, o, h) :
             r = Result("ok", Upd(d, o, RowWith(d, o, k, h.str), SetToBag(P \cup {StrE(h.str, o)})),
                        [h EXCEPT !.vd = k, !.chg = FALSE])
    BY <1>3, <1>5 DEF Created
  <1>7. k \in DataIds /\ k # 0 /\ k \in Ids
    BY DEF Fresh, DataIds, Ids
  <1> DEFINE g == [h EXCEPT !.vd = k, !.chg = FALSE]
             row == RowWith(d, o, k, h.str)
  <1>8. SameBut(h, g) /\ g.vd = k
    BY <1>1, <1>7, HeldVdChg
  <1>9. RowOK(row, k, h.str)
    <2>1. row \in Row
      BY <1>1, <1>2, <1>7, UpdExcept
    <2>2. row[k] = h.str /\ \A j \in DataIds : j # k => row[j] = NoData
      BY <1>1, <1>7 DEF RowWith, Row
    <2> QED  BY <1>7, <2>1, <2>2 DEF RowOK
  <1>10. P \cup NewStr(h.str, o) = P \cup {StrE(h.str, o)}
    BY DEF NewStr
  <1> HIDE DEF r, g, row
  <1>11. r.res = "ok" /\ r.h = g /\ r.d = Upd(d, o, row, SetToBag(P \cup NewStr(h.str, o)))
    BY <1>6, <1>10 DEF Result, g, row
  <1>12. row \in Row
    BY <1>9 DEF RowOK
  <1>13. Updated(d, o, h, r)
    BY <1>8, <1>9, <1>11, <1>12 DEF Updated, P
  <1> QED  BY <1>5, <1>13 DEF r

\* The string was long and its size has changed: its data object is deleted.
LEMMA DeleteOld ==
    ASSUME NEW d, DbInv(d), NEW h, HeldOK(d, h), h.vd # 0
    PROVE  /\ VDdataDelete(d, h.o, h)
                = Result("ok", Upd(d, h.o, RowWith(d, h.o, h.vd, NoData), SetToBag(Rest(d, h.o))),
                         [h EXCEPT !.vd = 0])
           /\ RowWith(d, h.o, h.vd, NoData) \in Row
           /\ \A j \in DataIds : RowWith(d, h.o, h.vd, NoData)[j] = NoData
  <1> DEFINE o == h.o
  <1>1. /\ h \in HeldType /\ o \in Objs /\ d.data[o] \in Row /\ o \in d.live /\ d.vd[o] = h.vd
        /\ h.vd \in DataIds /\ d.data[o][h.vd] = d.str[o]
        /\ \A j \in DataIds : j # h.vd => d.data[o][j] = NoData
    BY HeldRow
  <1>2. /\ d.idx = SetToBag(Rest(d, o) \cup {StrE(d.str[o], o)})
        /\ StrE(d.str[o], o) \notin Rest(d, o) /\ d.str[o] \in Strings
    BY <1>1, IndexOf
  <1>3. Typed(d)
    BY DEF DbInv
  <1>4. VDdataDelete(d, o, h) = Result("ok", Upd(d, o, RowWith(d, o, h.vd, NoData), SetToBag(Rest(d, o))),
                                       [h EXCEPT !.vd = 0])
    BY <1>1, <1>2, <1>3, VDdataDeleteIs
  <1>5. RowWith(d, o, h.vd, NoData) \in Row
    BY <1>1, <1>3, UpdExcept
  <1>6. \A j \in DataIds : RowWith(d, o, h.vd, NoData)[j] = NoData
    BY <1>1 DEF RowWith, Row
  <1> QED  BY <1>4, <1>5, <1>6

LEMMA UpdatedDelete ==
    ASSUME NEW d, DbInv(d), NEW h, HeldOK(d, h), ~Long(h.str), h.vd # 0
    PROVE  Updated(d, h.o, h, UpdateVD(d, h.o, h))
  <1> DEFINE o == h.o
             row == RowWith(d, o, h.vd, NoData)
             e == Upd(d, o, row, SetToBag(Rest(d, o)))
             g == [h EXCEPT !.vd = 0]
             f == [g EXCEPT !.chg = FALSE]
             r == UpdateVD(d, o, h)
  <1>1. h \in HeldType /\ h.loaded /\ h.str # Empty /\ h.chg
    BY HeldRow
  <1>2. VDdataDelete(d, o, h) = Result("ok", e, g)
    BY DeleteOld
  <1>3. row \in Row /\ \A j \in DataIds : row[j] = NoData
    BY DeleteOld
  <1>4. SameBut(h, f) /\ f.vd = 0
    <2>1. 0 \in Ids
      BY DEF Ids
    <2>2. SameBut(h, g) /\ g.vd = 0
      BY <1>1, <2>1, HeldVd
    <2> HIDE DEF g
    <2>3. g \in HeldType
      BY <2>2 DEF SameBut
    <2>4. SameBut(g, f) /\ f.vd = 0
      BY <2>2, <2>3, HeldChg
    <2> HIDE DEF f
    <2> QED  BY <2>2, <2>4, HeldTrans
  <1>5. r = Result("ok", e, f)
    <2> HIDE DEF e, g
    <2>1. /\ Result("ok", e, g).res = "ok" /\ Result("ok", e, g).d = e
          /\ Result("ok", e, g).h = g
      BY DEF Result
    <2>2. Recreate(d, o, h) = Result("ok", e, f)
      BY <1>2, <2>1 DEF Recreate
    <2> QED  BY <1>1, <2>2 DEF UpdateVD
  <1> HIDE DEF r, e, f, row
  <1>6. r.res = "ok" /\ r.d = e /\ r.h = f
    BY <1>5 DEF Result
  <1>7. RowOK(row, 0, h.str)
    BY <1>3 DEF RowOK
  <1>8. Rest(d, o) \cup NewStr(h.str, o) = Rest(d, o)
    BY DEF NewStr
  <1> QED  BY <1>3, <1>4, <1>6, <1>7, <1>8 DEF Updated, e, r

LEMMA UpdatedRecreate ==
    ASSUME NEW d, DbInv(d), NEW h, HeldOK(d, h), Long(h.str), h.vd # 0, h.chg,
           Fresh(d, h.o, h) # {}, UpdateVD(d, h.o, h).res # "refused"
    PROVE  Updated(d, h.o, h, UpdateVD(d, h.o, h))
  <1> DEFINE o == h.o
             P == Rest(d, o)
             row1 == RowWith(d, o, h.vd, NoData)
             e == Upd(d, o, row1, SetToBag(P))
             g == [h EXCEPT !.vd = 0]
             r == UpdateVD(d, o, h)
  <1>1. h \in HeldType /\ o \in Objs /\ h.str \in Str /\ h.loaded /\ h.str # Empty
    BY HeldRow
  <1>2. VDdataDelete(d, o, h) = Result("ok", e, g)
    BY DeleteOld
  <1>3. row1 \in Row /\ \A j \in DataIds : row1[j] = NoData
    BY DeleteOld
  <1>4. SameBut(h, g) /\ g.vd = 0
    <2>1. 0 \in Ids
      BY DEF Ids
    <2> QED  BY <1>1, <2>1, HeldVd
  <1> HIDE DEF g, row1, P
  <1>5. g \in HeldType /\ g.str = h.str
    BY <1>4 DEF SameBut
  <1>6. Typed(e) /\ e.data[o] = row1 /\ e.idx = SetToBag(P)
    <2>1. Typed(d)
      BY DEF DbInv
    <2>2. Typed(e) /\ e.data[o] = row1
      BY <1>1, <1>3, <2>1, UpdTyped
    <2>3. e.idx = SetToBag(P)
      BY DEF Upd, MkDb
    <2> QED  BY <2>2, <2>3
  <1>7. Fresh(e, o, g) # {}
    <2>1. PICK k \in Fresh(d, o, h) : TRUE
      OBVIOUS
    <2>2. e.vd = d.vd
      BY DEF Upd, MkDb
    <2>3. k \in DataIds /\ k # d.vd[o] /\ k # 0
      BY DEF Fresh, DataIds
    <2>4. k \in Fresh(e, o, g)
      BY <1>3, <1>4, <1>6, <2>2, <2>3 DEF Fresh
    <2> QED  BY <2>4
  <1> HIDE DEF e
  <1>8. r = VDdataCreate(e, o, g)
    <2>1. /\ Result("ok", e, g).res = "ok" /\ Result("ok", e, g).d = e
          /\ Result("ok", e, g).h = g
      BY DEF Result
    <2>2. Recreate(d, o, h) = VDdataCreate(e, o, g)
      BY <1>2, <2>1 DEF Recreate
    <2> QED  BY <1>1, <2>2 DEF UpdateVD
  <1>9. StrE(h.str, o) \notin P /\ h.str \in Strings
    BY <1>1, LongNew, StrFacts DEF P
  <1>10. Created(e, o, g, P, VDdataCreate(e, o, g))
    <2>1. VDdataCreate(e, o, g).res # "refused"
      BY <1>8
    <2> QED  BY <1>1, <1>5, <1>6, <1>7, <1>9, <2>1, VDdataCreateIs
  <1>11. PICK k \in Fresh(e, o, g) :
            r = Result("ok", Upd(e, o, RowWith(e, o, k, h.str), SetToBag(P \cup {StrE(h.str, o)})),
                       [g EXCEPT !.vd = k, !.chg = FALSE])
    BY <1>5, <1>8, <1>10 DEF Created
  <1>12. k \in DataIds /\ k # 0 /\ k \in Ids
    BY DEF Fresh, DataIds, Ids
  <1> DEFINE f == [g EXCEPT !.vd = k, !.chg = FALSE]
             row == RowWith(e, o, k, h.str)
  <1>13. SameBut(g, f) /\ f.vd = k
    BY <1>5, <1>12, HeldVdChg
  <1>14. RowOK(row, k, h.str)
    <2>1. row \in Row
      BY <1>1, <1>6, <1>9, <1>12, UpdExcept
    <2>2. row[k] = h.str /\ \A j \in DataIds : j # k => row[j] = NoData
      BY <1>3, <1>6, <1>12 DEF RowWith, Row
    <2> QED  BY <1>12, <2>1, <2>2 DEF RowOK
  <1> HIDE DEF f, row, r
  <1>15. row \in Row
    BY <1>14 DEF RowOK
  <1>16. Upd(e, o, row, SetToBag(P \cup {StrE(h.str, o)})) = Upd(d, o, row, SetToBag(P \cup {StrE(h.str, o)}))
    <2>1. Typed(d)
      BY DEF DbInv
    <2> QED  BY <1>1, <1>3, <1>15, <2>1, UpdUpd DEF e
  <1>17. P \cup NewStr(h.str, o) = P \cup {StrE(h.str, o)}
    BY DEF NewStr
  <1>18. r.res = "ok" /\ r.h = f /\ r.d = Upd(d, o, row, SetToBag(P \cup NewStr(h.str, o)))
    BY <1>11, <1>16, <1>17 DEF Result, f, row
  <1>19. SameBut(h, f)
    BY <1>4, <1>13, HeldTrans
  <1>20. Updated(d, o, h, r)
    BY <1>13, <1>14, <1>15, <1>18, <1>19 DEF Updated, P
  <1> QED  BY <1>20 DEF r

LEMMA UpdatedWrite ==
    ASSUME NEW d, DbInv(d), NEW h, HeldOK(d, h), Long(h.str), h.vd # 0, ~h.chg,
           UpdateVD(d, h.o, h).res # "refused"
    PROVE  Updated(d, h.o, h, UpdateVD(d, h.o, h))
  <1> DEFINE o == h.o
             P == Rest(d, o)
             r == UpdateVD(d, o, h)
             row == RowWith(d, o, h.vd, h.str)
  <1>1. /\ h \in HeldType /\ o \in Objs /\ h.str \in Str /\ h.loaded /\ h.str # Empty
        /\ h.vd \in DataIds /\ d.data[o][h.vd] = d.str[o] /\ d.data[o] \in Row
        /\ o \in d.live /\ d.vd[o] = h.vd
        /\ \A j \in DataIds : j # h.vd => d.data[o][j] = NoData
    BY HeldRow
  <1>2. /\ d.idx = SetToBag(P \cup {StrE(d.str[o], o)})
        /\ StrE(d.str[o], o) \notin P /\ d.str[o] \in Strings
    BY <1>1, IndexOf
  <1>3. StrE(h.str, o) \notin P /\ h.str \in Strings
    BY <1>1, LongNew, StrFacts
  <1>4. r = VDdataWrite(d, o, h)
    BY <1>1 DEF UpdateVD
  <1>5. Typed(d)
    BY DEF DbInv
  <1> HIDE DEF P
  <1>6. r = Result("ok", Upd(d, o, row, SetToBag(P \cup {StrE(h.str, o)})), h)
    <2>1. VDdataWrite(d, o, h).res # "refused"
      BY <1>4
    <2> DEFINE s == d.str[o]
    <2>2. /\ s \in Strings /\ d.data[o][h.vd] = s /\ StrE(s, o) \notin P
          /\ d.idx = SetToBag(P \cup {StrE(s, o)})
      BY <1>1, <1>2
    <2> HIDE DEF s, r
    <2>3. h \in HeldType /\ o \in Objs /\ h.vd \in DataIds
      BY <1>1
    <2>4. VDdataWrite(d, o, h) = Result("ok", Upd(d, o, row, SetToBag(P \cup {StrE(h.str, o)})), h)
      BY <1>3, <1>5, <2>1, <2>2, <2>3, VDdataWriteIs
    <2> QED  BY <1>4, <2>4
  <1>7. RowOK(row, h.vd, h.str)
    <2>1. row \in Row
      BY <1>1, <1>3, <1>5, UpdExcept
    <2>2. row[h.vd] = h.str /\ \A j \in DataIds : j # h.vd => row[j] = NoData
      BY <1>1 DEF RowWith, Row
    <2> QED  BY <2>1, <2>2 DEF RowOK
  <1>8. P \cup NewStr(h.str, o) = P \cup {StrE(h.str, o)}
    BY DEF NewStr
  <1> HIDE DEF r, row
  <1>9. r.res = "ok" /\ r.h = h /\ r.d = Upd(d, o, row, SetToBag(P \cup NewStr(h.str, o)))
    BY <1>6, <1>8 DEF Result
  <1>10. row \in Row /\ SameBut(h, h)
    BY <1>1, <1>7, HeldSame DEF RowOK
  <1>11. Updated(d, o, h, r)
    BY <1>7, <1>9, <1>10 DEF Updated, P
  <1> QED  BY <1>11 DEF r

\* The five cases together.
LEMMA UpdateVDIs ==
    ASSUME NEW d, DbInv(d), NEW h, HeldOK(d, h), Long(h.str) => Fresh(d, h.o, h) # {},
           UpdateVD(d, h.o, h).res # "refused"
    PROVE  /\ Updated(d, h.o, h, UpdateVD(d, h.o, h))
           /\ h.new /\ Long(h.str) => ~CreateStr(d, h.o, h.str).refused
  <1>1. h.new => h.vd = 0
    BY DEF HeldOK, NewHeld
  <1>2. CASE ~Long(h.str) /\ h.vd = 0
    BY <1>2, UpdatedShort
  <1>3. CASE Long(h.str) /\ h.vd = 0
    BY <1>3, UpdatedCreate
  <1>4. CASE ~Long(h.str) /\ h.vd # 0
    BY <1>4, UpdatedDelete
  <1>5. CASE Long(h.str) /\ h.vd # 0 /\ h.chg
    BY <1>1, <1>5, UpdatedRecreate
  <1>6. CASE Long(h.str) /\ h.vd # 0 /\ ~h.chg
    BY <1>1, <1>6, UpdatedWrite
  <1> QED  BY <1>2, <1>3, <1>4, <1>5, <1>6

-----------------------------------------------------------------------------
(* The queues of the two attributes, applied to an index whose entries are  *)
(* those of other objects, O, of the number, N, and of the string, T.       *)

Step(S, del, ins, S2) ==
    del \subseteq S /\ (\A x \in ins : x \notin S \ del) /\ S2 = (S \ del) \cup ins
Disjoint(X, Y) == \A x \in X : x \notin Y

LEMMA TwoQueues ==
    ASSUME NEW O, NEW N, NEW T, NEW nd, NEW ni, NEW sd, NEW si, NEW N2, NEW T2,
           Step(N, nd, ni, N2), Step(T, sd, si, T2),
           Disjoint(N \cup ni, O \cup T \cup si), Disjoint(T \cup si, O)
    PROVE  RealizeIdxOP(SetToBag(O \cup N \cup T), Queue(nd, ni), Queue(sd, si))
             = [ok |-> TRUE, idx |-> SetToBag(O \cup N2 \cup T2)]
  <1> USE DEF Step, Disjoint
  <1> DEFINE S == O \cup N \cup T
             S1 == (S \ nd) \cup ni
  <1>1. nd \subseteq S /\ \A x \in ni : x \notin S \ nd
    OBVIOUS
  <1>2. S1 = O \cup N2 \cup T
    OBVIOUS
  <1>3. sd \subseteq S1 /\ \A x \in si : x \notin S1 \ sd
    OBVIOUS
  <1>4. (S1 \ sd) \cup si = O \cup N2 \cup T2
    <2> HIDE DEF S1
    <2>1. \A x : x \in (S1 \ sd) \cup si <=> x \in O \cup N2 \cup T2
      BY <1>2
    <2> QED  BY <2>1
  <1> HIDE DEF S
  <1>5. RealizeIdxOP(SetToBag(S), Queue(nd, ni), Queue(sd, si))
          = [ok |-> TRUE, idx |-> SetToBag((((S \ nd) \cup ni) \ sd) \cup si)]
    BY <1>1, <1>3, RealizeOps
  <1> QED  BY <1>4, <1>5 DEF S

\* What a queue q of an attribute does to its entries: it turns S into S2.
Turns(q, S, S2) ==
    \E del, ins : q = Queue(del, ins) /\ Step(S, del, ins, S2)

LEMMA UpdateNumTurns ==
    ASSUME NEW d, NEW o, NEW n
    PROVE  Turns(UpdateNum(d, o, n).ops, {NumEntry(d.num[o], o)}, {NumEntry(n, o)})
  <1> DEFINE e == NumEntry(d.num[o], o)
             f == NumEntry(n, o)
  <1>1. CASE n = d.num[o]
    <2>1. UpdateNum(d, o, n).ops = Queue({}, {})
      BY <1>1 DEF UpdateNum, UpdateNumIf, NoOps
    <2>2. {f} = ({e} \ {}) \cup {} /\ {} \subseteq {e} /\ {} \subseteq {f}
      BY <1>1
    <2> HIDE DEF e, f
    <2>3. Turns(Queue({}, {}), {e}, {f})
      BY <2>2 DEF Turns, Step
    <2> QED  BY <2>1, <2>3 DEF e, f
  <1>2. CASE n # d.num[o]
    <2>1. UpdateNum(d, o, n).ops = Queue({e}, {f})
      BY <1>2 DEF UpdateNum, UpdateNumIf
    <2> HIDE DEF e, f
    <2>3. Turns(Queue({e}, {f}), {e}, {f})
      BY DEF Turns, Step
    <2> QED  BY <2>1, <2>3 DEF e, f
  <1> QED  BY <1>1, <1>2

\* The three ways in which the string of a stored object changes its entry.
LEMMA UpdateStrOps ==
    ASSUME NEW d, NEW o, NEW g, g.str \in Str, d.str[o] \in Str,
           d.vd[o] # 0 <=> Long(d.str[o]),
           g.str = Empty => d.str[o] = Empty
    PROVE  UpdateStr(d, o, g).ops =
             Queue(IF d.vd[o] = 0 /\ d.str[o] # g.str THEN {StrE(d.str[o], o)} ELSE {},
                   IF ~Long(g.str) /\ (d.vd[o] = 0 => d.str[o] # g.str) THEN {StrE(g.str, o)} ELSE {})
  <1> DEFINE s == d.str[o]
             t == g.str
  <1>1. ~Long(Empty)
    BY EmptyShort
  <1>2. CASE d.vd[o] # 0 /\ Long(t)
    BY <1>2 DEF UpdateStr, UpdateStrBut, NoOps
  <1>3. CASE d.vd[o] # 0 /\ ~Long(t)
    <2>1. t # Empty
      BY <1>1, <1>3
    <2>2. UpdateStr(d, o, g).ops = Queue({}, {StrEntry(t, FALSE, o)})
      BY <1>3, <2>1 DEF UpdateStr, UpdateStrBut
    <2>3. StrEntry(t, FALSE, o) = StrE(t, o)
      BY <2>1, StrFacts, StrENotNull
    <2> QED  BY <1>3, <2>2, <2>3
  <1>4. CASE d.vd[o] = 0 /\ Long(t)
    <2>1. t # Empty /\ s # t
      BY <1>1, <1>4
    <2>2. UpdateStr(d, o, g).ops = Queue({StrE(s, o)}, {})
      <3>1. (s = Empty \/ t = Empty) = (s = Empty)
        BY <2>1
      <3> QED  BY <1>4, <2>1, <3>1 DEF UpdateStr, UpdateStrBut, StrE
    <2> QED  BY <1>4, <2>1, <2>2
  <1>5. CASE d.vd[o] = 0 /\ ~Long(t)
    <2>1. (s = Empty \/ t = Empty) = (s = Empty)
      OBVIOUS
    <2>2. CASE s = t
      BY <1>5, <2>1, <2>2 DEF UpdateStr, UpdateStrBut, NoOps
    <2>3. CASE s # t
      BY <1>5, <2>1, <2>3 DEF UpdateStr, UpdateStrBut, StrE
    <2> QED  BY <2>2, <2>3
  <1> QED  BY <1>2, <1>3, <1>4, <1>5

LEMMA UpdateStrTurns ==
    ASSUME NEW d, NEW o, NEW g, g.str \in Str, d.str[o] \in Str, o \in d.live,
           d.vd[o] # 0 <=> Long(d.str[o]),
           g.str = Empty => d.str[o] = Empty
    PROVE  Turns(UpdateStr(d, o, g).ops, OldStr(d, o) \cup NewStr(g.str, o), {StrE(g.str, o)})
  <1> DEFINE e == StrE(d.str[o], o)
             f == StrE(g.str, o)
             D == IF d.vd[o] = 0 /\ d.str[o] # g.str THEN {e} ELSE {}
             I == IF ~Long(g.str) /\ (d.vd[o] = 0 => d.str[o] # g.str) THEN {f} ELSE {}
             T == OldStr(d, o) \cup NewStr(g.str, o)
  <1>1. UpdateStr(d, o, g).ops = Queue(D, I)
    BY UpdateStrOps
  <1>2. e = f <=> d.str[o] = g.str
    BY EntryFacts
  <1>3. /\ OldStr(d, o) = IF d.vd[o] = 0 THEN {e} ELSE {}
        /\ NewStr(g.str, o) = IF Long(g.str) THEN {f} ELSE {}
    BY DEF OldStr, NewStr
  <1> HIDE DEF e, f
  <1>4. D \subseteq T /\ I \subseteq {f} /\ (\A x \in I : x \notin T \ D) /\ {f} = (T \ D) \cup I
    <2>1. CASE d.vd[o] # 0
      BY <1>2, <1>3, <2>1
    <2>2. CASE d.vd[o] = 0 /\ Long(g.str)
      BY <1>2, <1>3, <2>2
    <2>3. CASE d.vd[o] = 0 /\ ~Long(g.str)
      BY <1>2, <1>3, <2>3
    <2> QED  BY <2>1, <2>2, <2>3
  <1> HIDE DEF D, I, T
  <1>5. Turns(Queue(D, I), T, {f})
    BY <1>4 DEF Turns, Step
  <1> QED  BY <1>1, <1>5 DEF T, f

\* The entries of N are those of the number of o, those of T of its string, and
\* those of O of other objects.
Sorted(O, N, T, o) == /\ \A x \in N : \E m : x = NumEntry(m, o)
                      /\ \A x \in T : \E t \in Str : x = StrE(t, o)
                      /\ \A m : NumEntry(m, o) \notin O
                      /\ \A t \in Str : StrE(t, o) \notin O

LEMMA TurnsBoth ==
    ASSUME NEW O, NEW N, NEW T, NEW o, NEW n, NEW s \in Str, NEW p, NEW q,
           Turns(p, N, {NumEntry(n, o)}), Turns(q, T, {StrE(s, o)}), Sorted(O, N, T, o)
    PROVE  RealizeIdxOP(SetToBag(O \cup N \cup T), p, q)
             = [ok |-> TRUE, idx |-> SetToBag(O \cup {NumEntry(n, o)} \cup {StrE(s, o)})]
  <1> DEFINE N2 == {NumEntry(n, o)}
             T2 == {StrE(s, o)}
  <1>1. PICK nd, ni : p = Queue(nd, ni) /\ Step(N, nd, ni, N2)
    BY DEF Turns
  <1>2. PICK sd, si : q = Queue(sd, si) /\ Step(T, sd, si, T2)
    BY DEF Turns
  <1>3. \A x \in N \cup ni : \E m : x = NumEntry(m, o)
    BY <1>1 DEF Step, Sorted
  <1>4. \A x \in T \cup si : \E t \in Str : x = StrE(t, o)
    BY <1>2 DEF Step, Sorted
  <1>5. Disjoint(N \cup ni, O \cup T \cup si)
    BY <1>3, <1>4, EntryFacts DEF Disjoint, Sorted
  <1>6. Disjoint(T \cup si, O)
    BY <1>4 DEF Disjoint, Sorted
  <1> HIDE DEF N2, T2
  <1>7. RealizeIdxOP(SetToBag(O \cup N \cup T), Queue(nd, ni), Queue(sd, si))
          = [ok |-> TRUE, idx |-> SetToBag(O \cup N2 \cup T2)]
    BY <1>1, <1>2, <1>5, <1>6, TwoQueues
  <1> QED  BY <1>1, <1>2, <1>7 DEF N2, T2

-----------------------------------------------------------------------------
(* The calls that create and write an object.                               *)

\* The database with the object g stored as o.
WithObject(d, o, g, t, x) ==
    MkDb(d.live \cup {o}, [d.num EXCEPT ![o] = g.num], [d.str EXCEPT ![o] = g.str],
         [d.vd EXCEPT ![o] = g.vd], [d.ini EXCEPT ![o] = g.ini], t, x)
PutIdx(d, o, g, x) == [Put(d, o, g) EXCEPT !.idx = x]

LEMMA ExceptLive ==
    ASSUME NEW l, NEW n, NEW s, NEW v, NEW i, NEW t, NEW x, NEW y
    PROVE  [MkDb(l, n, s, v, i, t, x) EXCEPT !.live = y] = MkDb(y, n, s, v, i, t, x)
  BY DEF MkDb
LEMMA ExceptNum ==
    ASSUME NEW l, NEW n, NEW s, NEW v, NEW i, NEW t, NEW x, NEW y
    PROVE  [MkDb(l, n, s, v, i, t, x) EXCEPT !.num = y] = MkDb(l, y, s, v, i, t, x)
  BY DEF MkDb
LEMMA ExceptStr ==
    ASSUME NEW l, NEW n, NEW s, NEW v, NEW i, NEW t, NEW x, NEW y
    PROVE  [MkDb(l, n, s, v, i, t, x) EXCEPT !.str = y] = MkDb(l, n, y, v, i, t, x)
  BY DEF MkDb
LEMMA ExceptVd ==
    ASSUME NEW l, NEW n, NEW s, NEW v, NEW i, NEW t, NEW x, NEW y
    PROVE  [MkDb(l, n, s, v, i, t, x) EXCEPT !.vd = y] = MkDb(l, n, s, y, i, t, x)
  BY DEF MkDb
LEMMA ExceptIni ==
    ASSUME NEW l, NEW n, NEW s, NEW v, NEW i, NEW t, NEW x, NEW y
    PROVE  [MkDb(l, n, s, v, i, t, x) EXCEPT !.ini = y] = MkDb(l, n, s, v, y, t, x)
  BY DEF MkDb

\* How Put and Drop write an object.
SetObject(d, L, o, n, s, v, i) ==
    [d EXCEPT !.live = L, !.num[o] = n, !.str[o] = s, !.vd[o] = v, !.ini[o] = i]

ObjectSet(d, L, o, n, s, v, i) ==
    MkDb(L, [d.num EXCEPT ![o] = n], [d.str EXCEPT ![o] = s], [d.vd EXCEPT ![o] = v],
         [d.ini EXCEPT ![o] = i], d.data, d.idx)

LEMMA SetObjectIs ==
    ASSUME NEW d, Shape(d), NEW L, NEW o, NEW n, NEW s, NEW v, NEW i
    PROVE  SetObject(d, L, o, n, s, v, i) = ObjectSet(d, L, o, n, s, v, i)
  <1> DEFINE n2 == [d.num EXCEPT ![o] = n]
             s2 == [d.str EXCEPT ![o] = s]
             v2 == [d.vd EXCEPT ![o] = v]
             i2 == [d.ini EXCEPT ![o] = i]
             d1 == [d EXCEPT !.live = L]
             d2 == [d1 EXCEPT !.num[o] = n]
             d3 == [d2 EXCEPT !.str[o] = s]
             d4 == [d3 EXCEPT !.vd[o] = v]
             d5 == [d4 EXCEPT !.ini[o] = i]
  <1>0. d = MkDb(d.live, d.num, d.str, d.vd, d.ini, d.data, d.idx)
    BY DEF Shape, MkDb
  <1>1. d1 = MkDb(L, d.num, d.str, d.vd, d.ini, d.data, d.idx)
    BY <1>0, ExceptLive
  <1> HIDE DEF d1, n2, s2, v2, i2
  <1>2. d2 = MkDb(L, n2, d.str, d.vd, d.ini, d.data, d.idx)
    <2>1. d1.num = d.num
      BY <1>1 DEF MkDb
    <2>2. d2 = [d1 EXCEPT !.num = n2]
      BY <2>1 DEF n2
    <2> QED  BY <1>1, <2>2, ExceptNum
  <1> HIDE DEF d2
  <1>3. d3 = MkDb(L, n2, s2, d.vd, d.ini, d.data, d.idx)
    <2>1. d2.str = d.str
      BY <1>2 DEF MkDb
    <2>2. d3 = [d2 EXCEPT !.str = s2]
      BY <2>1 DEF s2
    <2> QED  BY <1>2, <2>2, ExceptStr
  <1> HIDE DEF d3
  <1>4. d4 = MkDb(L, n2, s2, v2, d.ini, d.data, d.idx)
    <2>1. d3.vd = d.vd
      BY <1>3 DEF MkDb
    <2>2. d4 = [d3 EXCEPT !.vd = v2]
      BY <2>1 DEF v2
    <2> QED  BY <1>3, <2>2, ExceptVd
  <1> HIDE DEF d4
  <1>5. d5 = MkDb(L, n2, s2, v2, i2, d.data, d.idx)
    <2>1. d4.ini = d.ini
      BY <1>4 DEF MkDb
    <2>2. d5 = [d4 EXCEPT !.ini = i2]
      BY <2>1 DEF i2
    <2> QED  BY <1>4, <2>2, ExceptIni
  <1>6. d5 = SetObject(d, L, o, n, s, v, i)
    BY DEF SetObject, d4, d3, d2, d1
  <1> QED  BY <1>5, <1>6 DEF n2, s2, v2, i2, ObjectSet

LEMMA PutIs ==
    ASSUME NEW d, Typed(d), NEW o, NEW g, NEW x
    PROVE  /\ Put(d, o, g) = WithObject(d, o, g, d.data, d.idx)
           /\ PutIdx(d, o, g, x) = WithObject(d, o, g, d.data, x)
  <1>1. Put(d, o, g) = SetObject(d, d.live \cup {o}, o, g.num, g.str, g.vd, g.ini)
    BY DEF Put, SetObject
  <1>2. Put(d, o, g) = WithObject(d, o, g, d.data, d.idx)
    <2>1. Shape(d)
      BY DEF Typed
    <2> DEFINE L == d.live \cup {o}
    <2>2. SetObject(d, L, o, g.num, g.str, g.vd, g.ini)
            = ObjectSet(d, L, o, g.num, g.str, g.vd, g.ini)
      <3> HIDE DEF L
      <3> QED  BY <2>1, SetObjectIs
    <2> QED  BY <1>1, <2>2 DEF WithObject, ObjectSet
  <1> DEFINE e == Put(d, o, g)
             n == [d.num EXCEPT ![o] = g.num]
             s == [d.str EXCEPT ![o] = g.str]
             v == [d.vd EXCEPT ![o] = g.vd]
             i == [d.ini EXCEPT ![o] = g.ini]
             L == d.live \cup {o}
  <1>3. e = MkDb(L, n, s, v, i, d.data, d.idx)
    BY <1>2 DEF WithObject
  <1> HIDE DEF e, n, s, v, i, L
  <1>4. [e EXCEPT !.idx = x] = MkDb(L, n, s, v, i, d.data, x)
    BY <1>3, ExceptIdx
  <1>5. PutIdx(d, o, g, x) = [e EXCEPT !.idx = x]
    BY DEF PutIdx, e
  <1>6. WithObject(d, o, g, d.data, x) = MkDb(L, n, s, v, i, d.data, x)
    BY DEF WithObject, L, n, s, v, i
  <1> QED  BY <1>2, <1>4, <1>5, <1>6

\* The database that AttrVD::update_realize leaves, and d with the object g stored
\* as o; row: the data objects of o in both.
Prepared(d, o, s, row) == Upd(d, o, row, SetToBag(Rest(d, o) \cup NewStr(s, o)))
Stored(d, o, g, row) ==
    WithObject(d, o, g, [d.data EXCEPT ![o] = row],
               SetToBag(Others(d, o) \cup {NumEntry(g.num, o)} \cup {StrE(g.str, o)}))
Saved(g) == [g EXCEPT !.mod = FALSE]

Written(d, o, g, row, e) ==
    /\ ~UpdateNum(e, o, g.num).refused /\ ~UpdateStr(e, o, g).refused
    /\ AgregatWrite(e, o, g) = Result("ok", Stored(d, o, g, row), Saved(g))

LEMMA AgregatWriteIs ==
    ASSUME NEW d, DbInv(d), NEW o \in d.live, NEW g \in HeldType,
           g.str = Empty => d.str[o] = Empty, NEW row \in Row, NEW e,
           e = Prepared(d, o, g.str, row), AgregatWrite(e, o, g).res # "refused"
    PROVE  Written(d, o, g, row, e)
  <1>1. Typed(d) /\ o \in Objs /\ d.str[o] \in Str /\ g.str \in Str /\ Kept(d, o)
        /\ d.live \subseteq Objs /\ d.str \in [Objs -> Str]
    BY DEF DbInv, Typed, HeldType
  <1>2. Typed(e)
    BY <1>1, UpdTyped DEF Prepared
  <1>3. /\ e.live = d.live /\ e.num = d.num /\ e.str = d.str /\ e.vd = d.vd /\ e.ini = d.ini
        /\ e.data = [d.data EXCEPT ![o] = row]
        /\ e.idx = SetToBag(Rest(d, o) \cup NewStr(g.str, o))
    BY DEF Upd, MkDb, Prepared
  <1> DEFINE n == UpdateNum(e, o, g.num)
             s == UpdateStr(e, o, g)
             a == RealizeIdxOP(e.idx, n.ops, s.ops)
             O == Others(d, o)
             N == {NumEntry(d.num[o], o)}
             T == OldStr(d, o) \cup NewStr(g.str, o)
             x == SetToBag(O \cup {NumEntry(g.num, o)} \cup {StrE(g.str, o)})
  <1>4. Turns(n.ops, N, {NumEntry(g.num, o)})
    BY <1>3, UpdateNumTurns
  <1>5. Turns(s.ops, T, {StrE(g.str, o)})
    <2>1. /\ e.str[o] \in Str /\ o \in e.live /\ (e.vd[o] # 0 <=> Long(e.str[o]))
          /\ g.str = Empty => e.str[o] = Empty
      BY <1>1, <1>3 DEF Kept
    <2>2. Turns(s.ops, OldStr(e, o) \cup NewStr(g.str, o), {StrE(g.str, o)})
      BY <1>1, <2>1, UpdateStrTurns
    <2>3. OldStr(e, o) = OldStr(d, o)
      BY <1>3 DEF OldStr
    <2> QED  BY <2>2, <2>3
  <1>6. e.idx = SetToBag(O \cup N \cup T)
    <2>1. OwnNum(d, o) = N
      BY DEF OwnNum
    <2>2. Rest(d, o) \cup NewStr(g.str, o) = O \cup N \cup T
      BY <2>1 DEF Rest
    <2> HIDE DEF O, N, T
    <2> QED  BY <1>3, <2>2
  <1>8. Sorted(O, N, T, o)
    <2>1. (\A m : NumEntry(m, o) \notin O) /\ (\A t \in Str : StrE(t, o) \notin O)
      BY <1>1, Foreign DEF Others
    <2>2. (\A y \in N : \E m : y = NumEntry(m, o)) /\ (\A y \in T : \E t \in Str : y = StrE(t, o))
      BY <1>1 DEF OldStr, NewStr
    <2> QED  BY <2>1, <2>2 DEF Sorted
  <1>9. a = [ok |-> TRUE, idx |-> x]
    <2> HIDE DEF O, N, T, n, s
    <2>1. RealizeIdxOP(SetToBag(O \cup N \cup T), n.ops, s.ops)
            = [ok |-> TRUE, idx |-> SetToBag(O \cup {NumEntry(g.num, o)} \cup {StrE(g.str, o)})]
      BY <1>1, <1>4, <1>5, <1>8, TurnsBoth
    <2> QED  BY <1>6, <2>1 DEF O
  <1>10. AgregatWrite(e, o, g) =
           IF n.refused \/ s.refused THEN Result("refused", e, g)
           ELSE IF ~a.ok THEN Result("error", [e EXCEPT !.idx = a.idx], g)
           ELSE Result("ok", PutIdx(e, o, g, a.idx), [g EXCEPT !.mod = FALSE])
    BY DEF AgregatWrite, PutIdx
  <1>11. PutIdx(e, o, g, x) = WithObject(d, o, g, [d.data EXCEPT ![o] = row], x)
    <2> HIDE DEF x
    <2>1. PutIdx(e, o, g, x) = WithObject(e, o, g, e.data, x)
      BY <1>2, PutIs
    <2> QED  BY <1>3, <2>1 DEF WithObject
  <1> HIDE DEF n, s, a, x
  <1>12. a.ok = TRUE /\ a.idx = x
    BY <1>9
  <1>13. ~n.refused /\ ~s.refused
    BY <1>10 DEF Result
  <1>14. AgregatWrite(e, o, g) = Result("ok", PutIdx(e, o, g, x), [g EXCEPT !.mod = FALSE])
    BY <1>10, <1>12, <1>13
  <1> QED  BY <1>11, <1>13, <1>14 DEF n, s, x, Written, Stored, Saved

Added(d, o, g, row, e) ==
    /\ ~CreateNum(e, o, g.num).refused
    /\ ~Long(g.str) => ~CreateStr(e, o, g.str).refused
    /\ AgregatCreate(e, o, g) = Result("ok", Stored(d, o, g, row), g)

LEMMA AgregatCreateIs ==
    ASSUME NEW d, DbInv(d), NEW o \in Objs \ d.live, NEW g \in HeldType, NEW row \in Row, NEW e,
           e = Prepared(d, o, g.str, row), AgregatCreate(e, o, g).res # "refused"
    PROVE  Added(d, o, g, row, e)
  <1>1. Typed(d) /\ g.str \in Str /\ d.live \subseteq Objs /\ d.str \in [Objs -> Str] /\ o \notin d.live
    BY DEF DbInv, Typed, HeldType
  <1>2. Typed(e)
    BY <1>1, UpdTyped DEF Prepared
  <1>3. /\ e.live = d.live /\ e.num = d.num /\ e.str = d.str /\ e.vd = d.vd /\ e.ini = d.ini
        /\ e.data = [d.data EXCEPT ![o] = row]
        /\ e.idx = SetToBag(Rest(d, o) \cup NewStr(g.str, o))
    BY DEF Upd, MkDb, Prepared
  <1> DEFINE n == CreateNum(e, o, g.num)
             s == IF Long(g.str) THEN [refused |-> FALSE, ops |-> NoOps] ELSE CreateStr(e, o, g.str)
             a == RealizeIdxOP(e.idx, n.ops, s.ops)
             O == Others(d, o)
             N == {}
             T == NewStr(g.str, o)
             x == SetToBag(O \cup {NumEntry(g.num, o)} \cup {StrE(g.str, o)})
  <1>4. Turns(n.ops, N, {NumEntry(g.num, o)})
    <2>1. n.ops = Queue({}, {NumEntry(g.num, o)})
      BY DEF CreateNum
    <2> QED  BY <2>1 DEF Turns, Step
  <1>5. Turns(s.ops, T, {StrE(g.str, o)})
    <2>1. CASE Long(g.str)
      <3>1. s.ops = Queue({}, {}) /\ T = {StrE(g.str, o)}
        BY <2>1 DEF NoOps, NewStr
      <3> QED  BY <3>1 DEF Turns, Step
    <2>2. CASE ~Long(g.str)
      <3>1. s.ops = Queue({}, {StrE(g.str, o)}) /\ T = {}
        BY <2>2 DEF CreateStr, StrE, NewStr
      <3> QED  BY <3>1 DEF Turns, Step
    <2> QED  BY <2>1, <2>2
  <1>6. e.idx = SetToBag(O \cup N \cup T)
    <2>1. OwnNum(d, o) = {} /\ OldStr(d, o) = {}
      BY <1>1 DEF OwnNum, OldStr
    <2>2. Rest(d, o) \cup NewStr(g.str, o) = O \cup N \cup T
      BY <2>1 DEF Rest
    <2> HIDE DEF O, N, T
    <2> QED  BY <1>3, <2>2
  <1>8. Sorted(O, N, T, o)
    <2>1. (\A m : NumEntry(m, o) \notin O) /\ (\A t \in Str : StrE(t, o) \notin O)
      BY <1>1, Foreign DEF Others
    <2>2. (\A y \in N : \E m : y = NumEntry(m, o)) /\ (\A y \in T : \E t \in Str : y = StrE(t, o))
      BY <1>1 DEF OldStr, NewStr
    <2> QED  BY <2>1, <2>2 DEF Sorted
  <1>9. a = [ok |-> TRUE, idx |-> x]
    <2> HIDE DEF O, N, T, n, s
    <2>1. RealizeIdxOP(SetToBag(O \cup N \cup T), n.ops, s.ops)
            = [ok |-> TRUE, idx |-> SetToBag(O \cup {NumEntry(g.num, o)} \cup {StrE(g.str, o)})]
      BY <1>1, <1>4, <1>5, <1>8, TurnsBoth
    <2> QED  BY <1>6, <2>1 DEF O
  <1> DEFINE z == Drop([Put(e, o, g) EXCEPT
                          !.idx = RealizeIdxOP(e.idx, RemoveNum(Put(e, o, g), o),
                                               RemoveStr(Put(e, o, g), o)).idx], o)
  <1>10. AgregatCreate(e, o, g) =
           IF n.refused \/ s.refused THEN Result("refused", z, g)
           ELSE Result("ok", PutIdx(e, o, g, a.idx), g)
    BY DEF AgregatCreate, PutIdx
  <1>11. PutIdx(e, o, g, x) = WithObject(d, o, g, [d.data EXCEPT ![o] = row], x)
    <2> HIDE DEF x
    <2>1. PutIdx(e, o, g, x) = WithObject(e, o, g, e.data, x)
      BY <1>2, PutIs
    <2> QED  BY <1>3, <2>1 DEF WithObject
  <1>12. ~Long(g.str) => s = CreateStr(e, o, g.str)
    OBVIOUS
  <1> HIDE DEF n, s, a, x, z
  <1>13. a.idx = x
    BY <1>9
  <1>14. ~n.refused /\ ~s.refused
    BY <1>10 DEF Result
  <1>15. AgregatCreate(e, o, g) = Result("ok", PutIdx(e, o, g, x), g)
    BY <1>10, <1>13, <1>14
  <1> QED  BY <1>11, <1>12, <1>14, <1>15 DEF n, x, Added, Stored

-----------------------------------------------------------------------------
(* The invariant of the database after a store.                             *)

LEMMA ReadIs ==
    ASSUME NEW d, DbInv(d), NEW o \in d.live
    PROVE  Read(d, o) = d.str[o]
  <1>1. Kept(d, o)
    BY DEF DbInv
  <1> QED  BY <1>1 DEF Kept, Read

\* Another object is in d as it is in e.
SameObject(d, e, u) ==
    /\ e.num[u] = d.num[u] /\ e.str[u] = d.str[u] /\ e.vd[u] = d.vd[u]
    /\ e.ini[u] = d.ini[u] /\ e.data[u] = d.data[u]

StoredAs(d, o, g, row, e) ==
    /\ Typed(e) /\ e.live = d.live \cup {o}
    /\ e.num[o] = g.num /\ e.str[o] = g.str /\ e.vd[o] = g.vd /\ e.ini[o] = g.ini
    /\ e.data[o] = row
    /\ \A u \in Objs \ {o} : SameObject(d, e, u)
    /\ e.idx = SetToBag(Others(d, o) \cup {NumEntry(g.num, o)} \cup {StrE(g.str, o)})

LEMMA StoredFields ==
    ASSUME NEW d, DbInv(d), NEW o \in Objs, NEW g \in HeldType, NEW row \in Row, NEW e,
           e = Stored(d, o, g, row)
    PROVE  StoredAs(d, o, g, row, e)
  <1>1. /\ e.live = d.live \cup {o}
        /\ e.num = [d.num EXCEPT ![o] = g.num] /\ e.str = [d.str EXCEPT ![o] = g.str]
        /\ e.vd = [d.vd EXCEPT ![o] = g.vd] /\ e.ini = [d.ini EXCEPT ![o] = g.ini]
        /\ e.data = [d.data EXCEPT ![o] = row]
        /\ e.idx = SetToBag(Others(d, o) \cup {NumEntry(g.num, o)} \cup {StrE(g.str, o)})
    BY DEF Stored, WithObject, MkDb
  <1>2. Shape(e)
    BY DEF Stored, WithObject, MkDb, Shape
  <1>3. /\ d.live \subseteq Objs /\ d.num \in [Objs -> Num] /\ d.str \in [Objs -> Str]
        /\ d.vd \in [Objs -> Ids] /\ d.ini \in [Objs -> BOOLEAN] /\ d.data \in [Objs -> Row]
    BY DEF DbInv, Typed, Row
  <1>4. g.num \in Num /\ g.str \in Str /\ g.vd \in Ids /\ g.ini \in BOOLEAN
    BY DEF HeldType
  <1>5. e.num \in [Objs -> Num] /\ e.num[o] = g.num /\ \A u \in Objs \ {o} : e.num[u] = d.num[u]
    BY <1>1, <1>3, <1>4
  <1>6. e.str \in [Objs -> Str] /\ e.str[o] = g.str /\ \A u \in Objs \ {o} : e.str[u] = d.str[u]
    BY <1>1, <1>3, <1>4
  <1>7. e.vd \in [Objs -> Ids] /\ e.vd[o] = g.vd /\ \A u \in Objs \ {o} : e.vd[u] = d.vd[u]
    BY <1>1, <1>3, <1>4
  <1>8. e.ini \in [Objs -> BOOLEAN] /\ e.ini[o] = g.ini /\ \A u \in Objs \ {o} : e.ini[u] = d.ini[u]
    BY <1>1, <1>3, <1>4
  <1>9. e.data \in [Objs -> Row] /\ e.data[o] = row /\ \A u \in Objs \ {o} : e.data[u] = d.data[u]
    BY <1>1, <1>3
  <1>10. e.live \subseteq Objs
    BY <1>1, <1>3
  <1>11. Typed(e)
    BY <1>2, <1>5, <1>6, <1>7, <1>8, <1>9, <1>10 DEF Typed, Row
  <1>12. \A u \in Objs \ {o} : SameObject(d, e, u)
    BY <1>5, <1>6, <1>7, <1>8, <1>9 DEF SameObject
  <1> QED  BY <1>1, <1>5, <1>6, <1>7, <1>8, <1>9, <1>11, <1>12 DEF StoredAs

LEMMA KeptSame ==
    ASSUME NEW d, NEW e, NEW u, SameObject(d, e, u)
    PROVE  (Kept(d, u) => Kept(e, u)) /\ (Gone(d, u) => Gone(e, u))
  BY DEF SameObject, Kept, Gone

LEMMA OthersSame ==
    ASSUME NEW d, NEW e, NEW L, \A u \in L : SameObject(d, e, u)
    PROVE  Entries(d, L) = Entries(e, L)
  <1>1. \A u \in L : e.num[u] = d.num[u] /\ e.str[u] = d.str[u]
    BY DEF SameObject
  <1>2. {NumEntry(d.num[u], u) : u \in L} = {NumEntry(e.num[u], u) : u \in L}
    BY <1>1
  <1>3. {StrE(d.str[u], u) : u \in L} = {StrE(e.str[u], u) : u \in L}
    BY <1>1
  <1> QED  BY <1>2, <1>3 DEF Entries

LEMMA StoredInv ==
    ASSUME NEW d, DbInv(d), NEW o \in Objs, NEW g \in HeldType, NEW row \in Row, NEW e,
           e = Stored(d, o, g, row), RowOK(row, g.vd, g.str),
           g.str # Empty /\ ~Long(g.str) => g.ini,
           NotNull(g.num, g.str), Alone(d, o, g.num, g.str)
    PROVE  DbInv(e)
  <1>0. StoredAs(d, o, g, row, e)
    BY StoredFields
  <1>1. /\ Typed(e) /\ e.live = d.live \cup {o}
        /\ e.num[o] = g.num /\ e.str[o] = g.str /\ e.vd[o] = g.vd /\ e.ini[o] = g.ini
        /\ e.data[o] = row
        /\ e.idx = SetToBag(Others(d, o) \cup {NumEntry(g.num, o)} \cup {StrE(g.str, o)})
    BY <1>0 DEF StoredAs
  <1>2. \A u \in Objs \ {o} : SameObject(d, e, u)
    BY <1>0 DEF StoredAs
  <1>3. d.live \subseteq Objs
    BY DEF DbInv, Typed
  <1>4. Kept(e, o)
    BY <1>1 DEF Kept, RowOK
  <1>5. \A u \in e.live : Kept(e, u)
    <2> SUFFICES ASSUME NEW u \in d.live, u # o PROVE Kept(e, u)
      BY <1>1, <1>4
    <2>1. Kept(d, u) /\ SameObject(d, e, u)
      BY <1>2, <1>3 DEF DbInv
    <2> QED  BY <2>1, KeptSame
  <1>6. \A u \in Objs \ e.live : Gone(e, u)
    <2> SUFFICES ASSUME NEW u \in Objs, u \notin d.live, u # o PROVE Gone(e, u)
      BY <1>1
    <2>1. Gone(d, u) /\ SameObject(d, e, u)
      BY <1>2 DEF DbInv
    <2> QED  BY <2>1, KeptSame
  <1>7. e.idx = SetToBag(Entries(e, e.live))
    <2> DEFINE L == d.live \ {o}
    <2>1. \A u \in L : SameObject(d, e, u)
      BY <1>2, <1>3
    <2>2. e.live = L \cup {o}
      BY <1>1
    <2> HIDE DEF L
    <2>3. Entries(d, L) = Entries(e, L)
      BY <2>1, OthersSame
    <2>4. Entries(e, L \cup {o}) = Entries(e, L) \cup {NumEntry(e.num[o], o)} \cup {StrE(e.str[o], o)}
      BY DEF Entries
    <2>5. Others(d, o) = Entries(d, L)
      BY DEF Others, L
    <2> QED  BY <1>1, <2>2, <2>3, <2>4, <2>5
  <1>8. \A u \in e.live : NotNull(e.num[u], e.str[u]) /\ Alone(e, u, e.num[u], e.str[u])
    <2>1. NotNull(e.num[o], e.str[o])
      BY <1>1
    <2>2. ASSUME NEW u \in d.live, u # o
          PROVE  e.num[u] = d.num[u] /\ e.str[u] = d.str[u]
      BY <1>2, <1>3, <2>2 DEF SameObject
    <2>3. Alone(e, o, e.num[o], e.str[o])
      BY <1>1, <2>2 DEF Alone
    <2>4. ASSUME NEW u \in d.live, u # o
          PROVE  NotNull(e.num[u], e.str[u]) /\ Alone(e, u, e.num[u], e.str[u])
      <3>1. NotNull(d.num[u], d.str[u]) /\ Alone(d, u, d.num[u], d.str[u])
        BY DEF DbInv
      <3>2. /\ "num" \in unique /\ g.num # 0 => d.num[u] # g.num
            /\ "str" \in unique /\ g.str # Empty => d.str[u] # g.str
        BY <2>4 DEF Alone
      <3>3. ASSUME NEW w \in e.live \ {u}
            PROVE  /\ "num" \in unique /\ e.num[u] # 0 => e.num[w] # e.num[u]
                   /\ "str" \in unique /\ e.str[u] # Empty => e.str[w] # e.str[u]
        <4>1. CASE w = o
          BY <1>1, <2>2, <2>4, <3>2, <4>1
        <4>2. CASE w # o
          <5>1. w \in d.live \ {u}
            BY <1>1, <4>2
          <5> QED  BY <2>2, <2>4, <3>1, <4>2, <5>1 DEF Alone
        <4> QED  BY <4>1, <4>2
      <3>4. Alone(e, u, e.num[u], e.str[u])
        BY <3>3 DEF Alone
      <3> QED  BY <2>2, <2>4, <3>1, <3>4
    <2> QED  BY <1>1, <2>1, <2>3, <2>4
  <1> QED  BY <1>1, <1>5, <1>6, <1>7, <1>8 DEF DbInv

-----------------------------------------------------------------------------
(* Agregat::realize: a store that is not refused.                           *)

\* The store succeeds: the object is stored and the client's object follows it.
StoreOK(d, h, r) ==
    \E row \in Row :
        /\ r.res = "ok" /\ r.d = Stored(d, h.o, r.h, row) /\ RowOK(row, r.h.vd, h.str)
        /\ r.h \in HeldType
        /\ r.h.o = h.o /\ r.h.num = h.num /\ r.h.str = h.str /\ r.h.ini = h.ini
        /\ r.h.loaded = h.loaded
        /\ NotNull(h.num, h.str) /\ Alone(d, h.o, h.num, h.str)

\* No object of L has the number, or the string, if it is to be unique.
NumFree(d, L, n) == /\ "num" \in notnull => n # 0
                    /\ "num" \in unique /\ n # 0 => \A u \in L : d.num[u] # n
StrFree(d, L, s) == /\ "str" \in notnull => s # Empty
                    /\ "str" \in unique /\ s # Empty => \A u \in L : d.str[u] # s
HasEntries(x, d, L, P) == x = SetToBag(Entries(d, L) \cup P)

LEMMA FreeAlone ==
    ASSUME NEW d, NEW o, NEW n, NEW s, NumFree(d, d.live \ {o}, n), StrFree(d, d.live \ {o}, s)
    PROVE  NotNull(n, s) /\ Alone(d, o, n, s)
  BY DEF NumFree, StrFree, NotNull, Alone

LEMMA CreateNumAlone ==
    ASSUME NEW d, NEW e, NEW o, NEW n, NEW L, NEW P, HasEntries(e.idx, d, L, P),
           ~CreateNum(e, o, n).refused
    PROVE  NumFree(d, L, n)
  <1>1. /\ "num" \in notnull => n # 0
        /\ "num" \in unique /\ n # 0 => ~Found(e.idx, "num", NumKey(n))
    BY DEF CreateNum
  <1>2. ~Found(e.idx, "num", NumKey(n)) => \A u \in L : d.num[u] # n
    BY FoundNum DEF HasEntries
  <1> QED  BY <1>1, <1>2 DEF NumFree

LEMMA CreateStrAlone ==
    ASSUME NEW d, NEW e, NEW o, NEW s \in Str, NEW L, NEW P, HasEntries(e.idx, d, L, P),
           ~CreateStr(e, o, s).refused
    PROVE  StrFree(d, L, s)
  <1>1. /\ "str" \in notnull => s # Empty
        /\ "str" \in unique /\ s # Empty => ~Found(e.idx, "str", StrKey(s, FALSE))
    BY DEF CreateStr
  <1> DEFINE key == StrKey(s, FALSE)
  <1>2. s # Empty => key = StrKey(s, s = Empty)
    <2>1. s # Empty => s \in Strings
      BY StrFacts
    <2> QED  BY <2>1, StrENotNull
  <1>3. ASSUME s # Empty, ~Found(e.idx, "str", key) PROVE \A u \in L : d.str[u] # s
    <2> HIDE DEF key
    <2>1. key = StrKey(s, s = Empty) /\ ~Found(SetToBag(Entries(d, L) \cup P), "str", key)
      BY <1>2, <1>3 DEF HasEntries
    <2> QED  BY <2>1, FoundStr
  <1> QED  BY <1>1, <1>2, <1>3 DEF StrFree

\* The first call leaves an index with the entries of the other objects.
LEMMA PreparedHas ==
    ASSUME NEW d, NEW o, NEW s, NEW row
    PROVE  \E P : HasEntries(Prepared(d, o, s, row).idx, d, d.live \ {o}, P)
  <1> DEFINE P == OwnNum(d, o) \cup OldStr(d, o) \cup NewStr(s, o)
             R == Rest(d, o) \cup NewStr(s, o)
  <1>1. R = Entries(d, d.live \ {o}) \cup P
    BY DEF Rest, Others
  <1> HIDE DEF P, R
  <1>2. Prepared(d, o, s, row).idx = SetToBag(R)
    BY DEF Prepared, Upd, MkDb, R
  <1>3. HasEntries(Prepared(d, o, s, row).idx, d, d.live \ {o}, P)
    BY <1>1, <1>2 DEF HasEntries
  <1> QED  BY <1>3

LEMMA StoreNew ==
    ASSUME NEW d, DbInv(d), NEW h, HeldOK(d, h), h.new, Long(h.str) => Fresh(d, h.o, h) # {},
           Realize(d, h.o, h).res # "refused"
    PROVE  StoreOK(d, h, Realize(d, h.o, h))
  <1> DEFINE o == h.o
             q == UpdateVD(d, o, h)
             r == Realize(d, o, h)
  <1>1. h \in HeldType /\ o \in Objs /\ o \notin d.live /\ h.str \in Str /\ h.new = TRUE
    BY DEF HeldOK, NewHeld, HeldType
  <1>2. q.res # "refused"
    BY DEF Realize
  <1>3. Updated(d, o, h, q) /\ (Long(h.str) => ~CreateStr(d, o, h.str).refused)
    BY <1>2, UpdateVDIs
  <1>4. PICK row \in Row :
          /\ q.res = "ok" /\ q.d = Prepared(d, o, h.str, row)
          /\ SameBut(h, q.h) /\ RowOK(row, q.h.vd, h.str)
    BY <1>3 DEF Updated, Prepared
  <1> DEFINE e == q.d
             g == q.h
  <1>5. r = AgregatCreate(e, o, g)
    BY <1>1, <1>4 DEF Realize
  <1>6. /\ g \in HeldType /\ g.o = o /\ g.num = h.num /\ g.str = h.str /\ g.ini = h.ini
        /\ g.loaded = h.loaded
    BY <1>4 DEF SameBut
  <1> HIDE DEF q, e, g
  <1>7. e = Prepared(d, o, g.str, row)
    BY <1>4, <1>6 DEF e
  <1>8. Added(d, o, g, row, e)
    <2>1. AgregatCreate(e, o, g).res # "refused"
      BY <1>5
    <2>2. o \in Objs \ d.live /\ g \in HeldType
      BY <1>1, <1>6
    <2> HIDE DEF o, r
    <2> QED  BY <1>7, <2>1, <2>2, AgregatCreateIs
  <1>9. r.res = "ok" /\ r.h = g /\ r.d = Stored(d, o, g, row)
    <2> HIDE DEF r
    <2>1. r = Result("ok", Stored(d, o, g, row), g)
      BY <1>5, <1>8 DEF Added
    <2> QED  BY <2>1 DEF Result
  <1> DEFINE L == d.live \ {o}
  <1>10. PICK P : HasEntries(e.idx, d, L, P)
    BY <1>7, PreparedHas
  <1>11. NumFree(d, L, g.num)
    <2>1. ~CreateNum(e, o, g.num).refused
      BY <1>8 DEF Added
    <2> HIDE DEF L
    <2> QED  BY <1>10, <2>1, CreateNumAlone
  <1>12. StrFree(d, L, g.str)
    <2>0. g.str \in Str
      BY <1>1, <1>6
    <2>1. CASE Long(g.str)
      <3> DEFINE Z == {}
      <3>1. HasEntries(d.idx, d, L, Z)
        <4>1. d.live = L /\ Entries(d, d.live) \cup Z = Entries(d, d.live)
          BY <1>1
        <4>2. d.idx = SetToBag(Entries(d, d.live))
          BY DEF DbInv
        <4> HIDE DEF L, Z
        <4> QED  BY <4>1, <4>2 DEF HasEntries
      <3>2. ~CreateStr(d, o, g.str).refused
        BY <1>3, <1>6, <2>1
      <3> HIDE DEF L, Z
      <3> QED  BY <2>0, <3>1, <3>2, CreateStrAlone
    <2>2. CASE ~Long(g.str)
      <3>1. ~CreateStr(e, o, g.str).refused
        BY <1>8, <2>2 DEF Added
      <3> HIDE DEF L
      <3> QED  BY <1>10, <2>0, <3>1, CreateStrAlone
    <2> QED  BY <2>1, <2>2
  <1>13. NotNull(h.num, h.str) /\ Alone(d, o, h.num, h.str)
    BY <1>6, <1>11, <1>12, FreeAlone
  <1>14. RowOK(row, g.vd, h.str)
    BY <1>4 DEF g
  <1> HIDE DEF r
  <1>15. StoreOK(d, h, r)
    BY <1>6, <1>9, <1>13, <1>14 DEF StoreOK
  <1> QED  BY <1>15 DEF r

LEMMA StoreOld ==
    ASSUME NEW d, DbInv(d), NEW h, HeldOK(d, h), ~h.new, Long(h.str) => Fresh(d, h.o, h) # {},
           "str" \in unique => ~Taken(d, h.o, h.str), Realize(d, h.o, h).res # "refused"
    PROVE  StoreOK(d, h, Realize(d, h.o, h))
  <1> DEFINE o == h.o
             q == UpdateVD(d, o, h)
             r == Realize(d, o, h)
  <1>1. /\ h \in HeldType /\ o \in Objs /\ o \in d.live /\ h.str \in Str
        /\ h.str = Empty => d.str[o] = Empty
    BY DEF HeldOK, OldHeld, HeldType
  <1>2. q.res # "refused"
    BY DEF Realize
  <1>3. Updated(d, o, h, q)
    BY <1>2, UpdateVDIs
  <1>4. PICK row \in Row :
          /\ q.res = "ok" /\ q.d = Prepared(d, o, h.str, row)
          /\ SameBut(h, q.h) /\ RowOK(row, q.h.vd, h.str)
    BY <1>3 DEF Updated, Prepared
  <1> DEFINE e == q.d
             g == q.h
             f == [g EXCEPT !.mod = FALSE]
  <1>5. r = AgregatWrite(e, o, g)
    BY <1>4 DEF Realize
  <1>6. /\ g \in HeldType /\ g.o = o /\ g.num = h.num /\ g.str = h.str /\ g.ini = h.ini
        /\ g.loaded = h.loaded
    BY <1>4 DEF SameBut
  <1> HIDE DEF q, e, g
  <1>7. e = Prepared(d, o, g.str, row)
    BY <1>4, <1>6 DEF e
  <1>8. Written(d, o, g, row, e)
    <2>1. AgregatWrite(e, o, g).res # "refused"
      BY <1>5
    <2>2. (g.str = Empty => d.str[o] = Empty) /\ o \in d.live /\ g \in HeldType
      BY <1>1, <1>6
    <2> HIDE DEF o, r
    <2> QED  BY <1>7, <2>1, <2>2, AgregatWriteIs
  <1>9. /\ f \in HeldType /\ f.o = o /\ f.num = h.num /\ f.str = h.str /\ f.ini = h.ini
        /\ f.loaded = h.loaded /\ f.vd = g.vd
    BY <1>6 DEF HeldType
  <1>10. r.res = "ok" /\ r.h = f /\ r.d = Stored(d, o, f, row)
    <2> HIDE DEF r, f
    <2>1. r = Result("ok", Stored(d, o, g, row), f)
      BY <1>5, <1>8 DEF Written, Saved, f
    <2>2. Stored(d, o, g, row) = Stored(d, o, f, row)
      BY <1>6, <1>9 DEF WithObject, Stored
    <2> QED  BY <2>1, <2>2 DEF Result
  <1> DEFINE L == d.live \ {o}
  <1>11. PICK P : HasEntries(e.idx, d, L, P)
    BY <1>7, PreparedHas
  <1>12. NumFree(d, L, g.num)
    <2>0. ~UpdateNum(e, o, g.num).refused /\ e.num = d.num
      <3>1. ~UpdateNum(e, o, g.num).refused
        BY <1>8 DEF Written
      <3>2. e.num = d.num
        BY <1>7 DEF Prepared, Upd, MkDb
      <3> QED  BY <3>1, <3>2
    <2>1. "num" \in notnull => g.num # 0
      BY <2>0 DEF UpdateNum, UpdateNumIf
    <2>2. CASE g.num = d.num[o]
      BY <1>1, <2>1, <2>2 DEF DbInv, Alone, NumFree
    <2>3. CASE g.num # d.num[o]
      <3>1. ~CreateNum(e, o, g.num).refused
        BY <2>0, <2>3 DEF UpdateNum, UpdateNumIf, CreateNum
      <3> HIDE DEF L
      <3> QED  BY <1>11, <3>1, CreateNumAlone
    <2> QED  BY <2>2, <2>3
  <1>13. "str" \in notnull => g.str # Empty
    <2>1. ~UpdateStr(e, o, g).refused
      BY <1>8 DEF Written
    <2> QED  BY <2>1 DEF UpdateStr, UpdateStrBut
  <1>14. "str" \in unique /\ h.str # Empty => \A u \in d.live \ {o} : d.str[u] # h.str
    <2>1. \A u \in d.live : Read(d, u) = d.str[u]
      BY ReadIs
    <2> QED  BY <2>1 DEF Taken
  <1>15. NotNull(h.num, h.str) /\ Alone(d, o, h.num, h.str)
    <2>1. StrFree(d, L, g.str)
      BY <1>6, <1>13, <1>14 DEF StrFree
    <2> QED  BY <1>6, <1>12, <2>1, FreeAlone
  <1>16. RowOK(row, f.vd, h.str)
    <2> HIDE DEF f
    <2> QED  BY <1>4, <1>9 DEF g
  <1> HIDE DEF r, f
  <1>17. StoreOK(d, h, r)
    BY <1>9, <1>10, <1>15, <1>16 DEF StoreOK
  <1> QED  BY <1>17 DEF r

\* The client's object after a store: it is no longer new.
Settle(g, m) == [g EXCEPT !.new = FALSE, !.mod = m]

LEMMA SettleIs ==
    ASSUME NEW g \in HeldType, NEW m \in BOOLEAN
    PROVE  /\ Settle(g, m) \in HeldType
           /\ Settle(g, m).o = g.o /\ Settle(g, m).new = FALSE /\ Settle(g, m).num = g.num
           /\ Settle(g, m).str = g.str /\ Settle(g, m).vd = g.vd /\ Settle(g, m).loaded = g.loaded
           /\ Settle(g, m).ini = g.ini /\ Settle(g, m).chg = g.chg
  BY DEF Settle, HeldType

\* What the store of the object h makes of d.
AfterStore(d, h, e) ==
    /\ DbInv(e) /\ e.live = d.live \cup {h.o}
    /\ e.num[h.o] = h.num /\ e.str[h.o] = h.str
    /\ \A u \in Objs \ {h.o} : e.num[u] = d.num[u] /\ e.str[u] = d.str[u]

LEMMA StoreInv ==
    ASSUME NEW d, DbInv(d), NEW h, HeldOK(d, h), NEW r, StoreOK(d, h, r)
    PROVE  r.res = "ok" /\ AfterStore(d, h, r.d) /\ HeldOK(r.d, Settle(r.h, FALSE))
  <1> DEFINE o == h.o
             g == r.h
             e == r.d
             f == Settle(g, FALSE)
  <1>1. PICK row \in Row :
          /\ r.res = "ok" /\ r.d = Stored(d, h.o, r.h, row) /\ RowOK(row, r.h.vd, h.str)
          /\ r.h \in HeldType
          /\ r.h.o = h.o /\ r.h.num = h.num /\ r.h.str = h.str /\ r.h.ini = h.ini
          /\ r.h.loaded = h.loaded
          /\ NotNull(h.num, h.str) /\ Alone(d, h.o, h.num, h.str)
    BY DEF StoreOK
  <1>2. h \in HeldType /\ o \in Objs /\ (h.str # Empty /\ ~Long(h.str) => h.ini)
        /\ (~h.loaded => h.str = Empty)
    BY DEF HeldOK, HeldType
  <1>3. /\ e = Stored(d, o, g, row) /\ RowOK(row, g.vd, g.str) /\ g \in HeldType
        /\ (g.str # Empty /\ ~Long(g.str) => g.ini)
        /\ NotNull(g.num, g.str) /\ Alone(d, o, g.num, g.str)
    BY <1>1, <1>2
  <1> HIDE DEF e, g, o
  <1>4. DbInv(e)
    BY <1>2, <1>3, StoredInv
  <1>5. /\ e.live = d.live \cup {o} /\ e.num[o] = g.num /\ e.str[o] = g.str /\ e.vd[o] = g.vd
        /\ \A u \in Objs \ {o} : SameObject(d, e, u)
    <2>1. StoredAs(d, o, g, row, e)
      BY <1>2, <1>3, StoredFields
    <2> QED  BY <2>1 DEF StoredAs
  <1>6. g.num = h.num /\ g.str = h.str /\ g.loaded = h.loaded /\ g.ini = h.ini /\ g.o = o
    BY <1>1 DEF g, o
  <1>7. AfterStore(d, h, e)
    BY <1>4, <1>5, <1>6 DEF AfterStore, SameObject, o
  <1>8. /\ f \in HeldType /\ f.o = o /\ f.new = FALSE /\ f.str = g.str /\ f.vd = g.vd
        /\ f.loaded = g.loaded /\ f.ini = g.ini
    BY <1>3, <1>6, SettleIs
  <1> HIDE DEF f
  <1>9. OldHeld(e, f)
    BY <1>5, <1>8 DEF OldHeld
  <1>10. ~f.loaded => f.str = Empty /\ f.vd = 0
    <2>1. g.vd # 0 => Long(g.str)
      BY <1>3 DEF RowOK
    <2> QED  BY <1>2, <1>6, <1>8, <2>1, EmptyShort
  <1>11. f.str # Empty /\ ~Long(f.str) => f.ini
    BY <1>3, <1>8
  <1>12. HeldOK(e, f)
    BY <1>8, <1>9, <1>10, <1>11 DEF HeldOK
  <1> QED  BY <1>1, <1>7, <1>12 DEF e, f, g

-----------------------------------------------------------------------------
(* A store that is refused, of an object whose string is short and was not  *)
(* long, or is the long one that is stored.                                 *)

\* Why it may be refused.
Truth(d, h) ==
    \/ "num" \in notnull /\ h.num = 0
    \/ "str" \in notnull /\ h.str = Empty
    \/ "num" \in unique /\ \E u \in d.live \ {h.o} : h.num # 0 /\ d.num[u] = h.num
    \/ "str" \in unique /\ h.new /\ Taken(d, h.o, h.str)
    \/ "str" \in unique /\ ~h.new /\ KeyTaken(d, h)
    \/ "str" \in notnull /\ ~h.new /\ Long(h.str) /\ ~h.ini

RefusedAs(d, h, r) ==
    /\ r.d = d /\ SameBut(h, r.h) /\ r.h.vd = h.vd /\ (h.vd = 0 \/ r.h = h)
    /\ Truth(d, h)

LEMMA NumTruth ==
    ASSUME NEW d, DbInv(d), NEW h, Found(d.idx, "num", NumKey(h.num)), h.num # 0,
           "num" \in unique, h.o \in d.live => h.num # d.num[h.o]
    PROVE  Truth(d, h)
  <1>1. d.idx = SetToBag(Entries(d, d.live))
    BY DEF DbInv
  <1>2. PICK u \in d.live : d.num[u] = h.num
    BY <1>1, NumFound
  <1>3. u # h.o
    BY <1>2
  <1> QED  BY <1>2, <1>3 DEF Truth

LEMMA StrTruth ==
    ASSUME NEW d, DbInv(d), NEW h, h.str \in Strings, h.o \notin d.live, h.new,
           Found(d.idx, "str", StrKey(h.str, FALSE)), "str" \in unique
    PROVE  Truth(d, h)
  <1>1. d.idx = SetToBag(Entries(d, d.live)) /\ d.live \subseteq Objs /\ d.str \in [Objs -> Str]
    BY DEF DbInv, Typed
  <1> DEFINE key == StrKey(h.str, FALSE)
  <1>2. Found(SetToBag(Entries(d, d.live)), "str", key)
    BY <1>1
  <1> HIDE DEF key
  <1>3. PICK u \in d.live : StrKey(d.str[u], d.str[u] = Empty) = key
    BY <1>1, <1>2, StrFound
  <1>4. d.str[u] \in Str /\ h.str \in Str /\ h.str # Empty
    BY <1>1, StringFacts DEF Str
  <1>5. d.str[u] = h.str
    <2> DEFINE b == d.str[u] = Empty
               c == FALSE
    <2>1. StrKey(d.str[u], b) = StrKey(h.str, c)
      BY <1>3 DEF key
    <2> HIDE DEF b, c
    <2> QED  BY <1>4, <2>1, StrKeyInjective
  <1>6. Read(d, u) = h.str /\ u # h.o
    BY <1>5, ReadIs
  <1> QED  BY <1>4, <1>6 DEF Truth, Taken

\* The string without its first byte is found only as the key of a live object.
LEMMA BareKey ==
    ASSUME NEW d, DbInv(d), NEW h, Found(d.idx, "str", h.str)
    PROVE  KeyTaken(d, h)
  <1>1. d.idx = SetToBag(Entries(d, d.live)) /\ d.live \subseteq Objs /\ d.str \in [Objs -> Str]
    BY DEF DbInv, Typed
  <1>2. Found(SetToBag(Entries(d, d.live)), "str", h.str)
    BY <1>1
  <1>3. PICK u \in d.live : StrKey(d.str[u], d.str[u] = Empty) = h.str
    BY <1>1, <1>2, StrFound
  <1>4. Read(d, u) = d.str[u]
    BY ReadIs
  <1>5. StrKey(Read(d, u), Read(d, u) = Empty) = h.str
    BY <1>3, <1>4
  <1> QED  BY <1>5 DEF KeyTaken

\* An object that was not in d, put there and deleted again.
LEMMA PutDrop ==
    ASSUME NEW d, DbInv(d), NEW o \in Objs \ d.live, NEW g
    PROVE  Drop(WithObject(d, o, g, d.data, d.idx), o) = d
  <1> DEFINE p == WithObject(d, o, g, d.data, d.idx)
             L == p.live \ {o}
  <1>1. /\ d.num \in [Objs -> Num] /\ d.str \in [Objs -> Str]
        /\ d.vd \in [Objs -> Ids] /\ d.ini \in [Objs -> BOOLEAN] /\ Shape(d)
    BY DEF DbInv, Typed
  <1>2. d.num[o] = 0 /\ d.str[o] = Empty /\ d.vd[o] = 0 /\ d.ini[o] = FALSE
    BY DEF DbInv, Gone
  <1>3. /\ p.live = d.live \cup {o} /\ p.num = [d.num EXCEPT ![o] = g.num]
        /\ p.str = [d.str EXCEPT ![o] = g.str] /\ p.vd = [d.vd EXCEPT ![o] = g.vd]
        /\ p.ini = [d.ini EXCEPT ![o] = g.ini] /\ p.data = d.data /\ p.idx = d.idx
    BY DEF WithObject, MkDb
  <1>4. Shape(p)
    BY DEF WithObject, MkDb, Shape
  <1>5. Drop(p, o) = SetObject(p, L, o, 0, Empty, 0, FALSE)
    BY DEF Drop, SetObject
  <1> HIDE DEF p
  <1>6. L = d.live
    BY <1>3
  <1> HIDE DEF L
  <1>7. SetObject(p, L, o, 0, Empty, 0, FALSE)
          = MkDb(L, [p.num EXCEPT ![o] = 0], [p.str EXCEPT ![o] = Empty], [p.vd EXCEPT ![o] = 0],
                 [p.ini EXCEPT ![o] = FALSE], p.data, p.idx)
    <2> DEFINE F == FALSE
    <2> HIDE DEF F
    <2>1. SetObject(p, L, o, 0, Empty, 0, F) = ObjectSet(p, L, o, 0, Empty, 0, F)
      BY <1>4, SetObjectIs
    <2> QED  BY <2>1 DEF F, ObjectSet
  <1>8. [p.num EXCEPT ![o] = 0] = d.num
    BY <1>1, <1>2, <1>3
  <1>9. [p.str EXCEPT ![o] = Empty] = d.str
    BY <1>1, <1>2, <1>3
  <1>10. [p.vd EXCEPT ![o] = 0] = d.vd
    BY <1>1, <1>2, <1>3
  <1>11. [p.ini EXCEPT ![o] = FALSE] = d.ini
    BY <1>1, <1>2, <1>3
  <1>12. d = MkDb(d.live, d.num, d.str, d.vd, d.ini, d.data, d.idx)
    BY <1>1 DEF Shape, MkDb
  <1> QED  BY <1>3, <1>5, <1>6, <1>7, <1>8, <1>9, <1>10, <1>11, <1>12 DEF p

\* IDB_agregatDelete finds none of the entries of such an object.
LEMMA NothingRemoved ==
    ASSUME NEW d, DbInv(d), NEW o \in Objs \ d.live, NEW p, p.num[o] \in Num
    PROVE  RealizeIdxOP(d.idx, RemoveNum(p, o), RemoveStr(p, o)).idx = d.idx
  <1> DEFINE S == Entries(d, d.live)
             nd == {NumEntry(p.num[o], o)}
             ni == {}
  <1>1. d.idx = SetToBag(S) /\ d.live \subseteq Objs /\ d.str \in [Objs -> Str] /\ o \notin d.live
    BY DEF DbInv, Typed
  <1>2. ~(nd \subseteq S)
    <2>1. NumEntry(p.num[o], o) \notin S
      BY <1>1, Foreign
    <2> QED  BY <2>1
  <1>3. RemoveNum(p, o) = Queue(nd, ni)
    BY DEF RemoveNum
  <1>4. PICK sd, si : RemoveStr(p, o) = Queue(sd, si)
    BY DEF RemoveStr, NoOps
  <1> HIDE DEF S, nd, ni
  <1>5. RealizeIdxOP(SetToBag(S), Queue(nd, ni), Queue(sd, si)) = [ok |-> FALSE, idx |-> SetToBag(S)]
    BY <1>2, RealizeFails
  <1> QED  BY <1>1, <1>3, <1>4, <1>5

LEMMA CreateRefused ==
    ASSUME NEW d, DbInv(d), NEW h, HeldOK(d, h), h.new, ~Long(h.str),
           NEW g, SameBut(h, g), g.vd = 0, NEW r, r = AgregatCreate(d, h.o, g), r.res = "refused"
    PROVE  RefusedAs(d, h, r)
  <1>0. h.vd = 0
    BY DEF HeldOK, NewHeld
  <1> DEFINE o == h.o
             n == CreateNum(d, o, g.num)
             s == CreateStr(d, o, g.str)
             p == Put(d, o, g)
             x == RealizeIdxOP(d.idx, RemoveNum(p, o), RemoveStr(p, o)).idx
  <1>1. o \in Objs \ d.live /\ h.str \in Str
    BY DEF HeldOK, NewHeld, HeldType
  <1>2. g \in HeldType /\ g.num = h.num /\ g.str = h.str /\ g.num \in Num
    BY DEF SameBut, HeldType
  <1>3. AgregatCreate(d, o, g) =
          IF n.refused \/ s.refused THEN Result("refused", Drop(PutIdx(d, o, g, x), o), g)
          ELSE Result("ok", PutIdx(d, o, g, RealizeIdxOP(d.idx, n.ops, s.ops).idx), g)
    BY <1>2 DEF AgregatCreate, PutIdx
  <1>4. Typed(d)
    BY DEF DbInv
  <1>5. x = d.idx
    <2>1. p.num = [d.num EXCEPT ![o] = g.num]
      <3>1. p = WithObject(d, o, g, d.data, d.idx)
        BY <1>4, PutIs
      <3> HIDE DEF p
      <3> QED  BY <3>1 DEF WithObject, MkDb
    <2>2. p.num[o] \in Num
      BY <1>1, <1>2, <1>4, <2>1 DEF Typed
    <2> HIDE DEF p, o
    <2> QED  BY <1>1, <2>2, NothingRemoved
  <1>6. Drop(PutIdx(d, o, g, d.idx), o) = d
    <2>1. PutIdx(d, o, g, d.idx) = WithObject(d, o, g, d.data, d.idx)
      BY <1>4, PutIs
    <2>2. Drop(WithObject(d, o, g, d.data, d.idx), o) = d
      <3> HIDE DEF o
      <3> QED  BY <1>1, PutDrop
    <2> QED  BY <2>1, <2>2
  <1> HIDE DEF n, s, x
  <1>7. n.refused \/ s.refused
    BY <1>3 DEF Result
  <1>8. r = Result("refused", d, g)
    BY <1>3, <1>5, <1>6, <1>7
  <1>9. r.d = d /\ r.h = g
    BY <1>8 DEF Result
  <1>10. Truth(d, h)
    <2>1. CASE n.refused
      <3>1. CASE h.num = 0 /\ "num" \in notnull
        BY <3>1 DEF Truth
      <3>2. CASE h.num # 0 /\ "num" \in unique /\ Found(d.idx, "num", NumKey(h.num))
        BY <1>1, <3>2, NumTruth
      <3> QED  BY <1>2, <2>1, <3>1, <3>2 DEF n, CreateNum
    <2>2. CASE s.refused
      <3>1. CASE h.str = Empty /\ "str" \in notnull
        BY <3>1 DEF Truth
      <3>2. CASE h.str # Empty /\ "str" \in unique /\ Found(d.idx, "str", StrKey(h.str, FALSE))
        <4>1. h.str \in Strings
          BY <1>1, <3>2, StrFacts
        <4> QED  BY <1>1, <3>2, <4>1, StrTruth
      <3> QED  BY <1>2, <2>2, <3>1, <3>2 DEF s, CreateStr
    <2> QED  BY <1>7, <2>1, <2>2
  <1> QED  BY <1>0, <1>9, <1>10 DEF RefusedAs

LEMMA WriteRefused ==
    ASSUME NEW d, DbInv(d), NEW h, HeldOK(d, h), ~h.new,
           NEW g, SameBut(h, g), g.vd = h.vd, h.vd = 0 \/ g = h,
           NEW r, r = AgregatWrite(d, h.o, g), r.res = "refused"
    PROVE  RefusedAs(d, h, r)
  <1> DEFINE o == h.o
             n == UpdateNum(d, o, g.num)
             s == UpdateStr(d, o, g)
             a == RealizeIdxOP(d.idx, n.ops, s.ops)
  <1>1. h.str \in Str /\ (h.str # Empty /\ ~Long(h.str) => h.ini)
    BY DEF HeldOK, HeldType
  <1>2. g.num = h.num /\ g.str = h.str /\ g.ini = h.ini
    BY DEF SameBut
  <1>3. AgregatWrite(d, o, g) =
           IF n.refused \/ s.refused THEN Result("refused", d, g)
           ELSE IF ~a.ok THEN Result("error", [d EXCEPT !.idx = a.idx], g)
           ELSE Result("ok", PutIdx(d, o, g, a.idx), [g EXCEPT !.mod = FALSE])
    BY DEF AgregatWrite, PutIdx
  <1> HIDE DEF n, s, a
  <1>4. n.refused \/ s.refused
    BY <1>3 DEF Result
  <1>5. r = Result("refused", d, g)
    BY <1>3, <1>4
  <1>6. r.d = d /\ r.h = g
    BY <1>5 DEF Result
  <1>7. Truth(d, h)
    <2>1. CASE n.refused
      <3>1. CASE h.num = 0 /\ "num" \in notnull
        BY <3>1 DEF Truth
      <3>2. CASE h.num # 0 /\ h.num # d.num[o] /\ "num" \in unique /\ Found(d.idx, "num", NumKey(h.num))
        BY <3>2, NumTruth
      <3> QED  BY <1>2, <2>1, <3>1, <3>2 DEF n, UpdateNum, UpdateNumIf
    <2>2. CASE s.refused
      <3>1. CASE "str" \in notnull /\ (h.str = Empty \/ ~h.ini)
        BY <1>1, <3>1 DEF Truth
      <3>2. CASE "str" \in unique /\ Found(d.idx, "str", h.str)
        BY <3>2, BareKey DEF Truth
      <3> QED  BY <1>2, <2>2, <3>1, <3>2 DEF s, UpdateStr, UpdateStrBut
    <2> QED  BY <1>4, <2>1, <2>2
  <1> QED  BY <1>6, <1>7 DEF RefusedAs

LEMMA StoreShortRefused ==
    ASSUME NEW d, DbInv(d), NEW h, HeldOK(d, h), ~Long(h.str), h.vd = 0,
           Realize(d, h.o, h).res = "refused"
    PROVE  RefusedAs(d, h, Realize(d, h.o, h))
  <1> DEFINE q == UpdateVD(d, h.o, h)
             r == Realize(d, h.o, h)
  <1>1. Nothing(d, h, q)
    BY UpdateShort
  <1>2. r = IF q.res # "ok" THEN q
            ELSE IF h.new THEN AgregatCreate(q.d, h.o, q.h) ELSE AgregatWrite(q.d, h.o, q.h)
    BY DEF Realize
  <1>3. h \in HeldType
    BY DEF HeldOK
  <1> HIDE DEF q, r
  <1>4. r.res = "refused"
    BY DEF r
  <1>5. CASE q = Result("refused", d, h) /\ "str" \in notnull /\ h.str = Empty
    <2>1. r = Result("refused", d, h)
      BY <1>2, <1>5 DEF Result
    <2>2. r.d = d /\ r.h = h /\ SameBut(h, h) /\ Truth(d, h)
      BY <1>3, <1>5, <2>1, HeldSame DEF Result, Truth
    <2>3. RefusedAs(d, h, r)
      BY <2>2 DEF RefusedAs
    <2> QED  BY <2>3 DEF r
  <1>6. CASE q.res = "ok" /\ q.d = d /\ SameBut(h, q.h) /\ q.h.vd = 0
    <2> DEFINE g == q.h
    <2>1. CASE h.new
      <3>1. r = AgregatCreate(d, h.o, g) /\ SameBut(h, g) /\ g.vd = 0
        BY <1>2, <1>6, <2>1
      <3> HIDE DEF g
      <3>2. RefusedAs(d, h, r)
        BY <1>4, <2>1, <3>1, CreateRefused
      <3> QED  BY <3>2 DEF r
    <2>2. CASE ~h.new
      <3>1. r = AgregatWrite(d, h.o, g) /\ SameBut(h, g) /\ g.vd = 0
        BY <1>2, <1>6, <2>2
      <3> HIDE DEF g
      <3>2. RefusedAs(d, h, r)
        BY <1>4, <2>2, <3>1, WriteRefused
      <3> QED  BY <3>2 DEF r
    <2> QED  BY <2>1, <2>2
  <1> QED  BY <1>1, <1>5, <1>6 DEF Nothing

\* A long string that was not altered is written to its data object as it was.
LEMMA StoreLongRefused ==
    ASSUME NEW d, DbInv(d), NEW h, HeldOK(d, h), Long(h.str) \/ h.vd # 0, ~Altered(d, h),
           Realize(d, h.o, h).res = "refused"
    PROVE  RefusedAs(d, h, Realize(d, h.o, h))
  <1> DEFINE o == h.o
             r == Realize(d, o, h)
  <1>1. h \in HeldType /\ o \in Objs /\ ~h.chg /\ h.str = Read(d, o)
    BY DEF HeldOK, HeldType, Altered
  <1>2. ~h.new
    <2> SUFFICES ASSUME h.new PROVE FALSE
      OBVIOUS
    <2>1. o \notin d.live /\ h.vd = 0
      BY DEF HeldOK, NewHeld
    <2>2. d.str[o] = Empty
      BY <1>1, <2>1 DEF DbInv, Gone
    <2>3. h.str = Empty
      BY <1>1, <2>2, EmptyShort DEF Read
    <2> QED  BY <2>1, <2>3, EmptyShort
  <1>3. o \in d.live /\ h.vd = d.vd[o]
    BY <1>2 DEF HeldOK, OldHeld
  <1>4. h.str = d.str[o] /\ h.vd # 0
    <2>1. h.str = d.str[o]
      BY <1>1, <1>3, ReadIs
    <2>2. Kept(d, o)
      BY <1>3 DEF DbInv
    <2> QED  BY <1>3, <2>1, <2>2 DEF Kept
  <1>5. h.loaded /\ h.str # Empty /\ Long(h.str) /\ d.data[o][h.vd] = h.str /\ h.str \in Str
    BY <1>1, <1>4, HeldRow
  <1>6. h.str # NoData
    BY <1>5, StrFacts, StringFacts
  <1>7. UpdateVD(d, o, h) = VDdataWrite(d, o, h)
    BY <1>1, <1>4, <1>5 DEF UpdateVD
  <1>8. VDdataWrite(d, o, h) = Result("ok", d, h)
    BY <1>5, <1>6 DEF VDdataWrite, VDdataPut
  <1>9. UpdateVD(d, o, h) = Result("ok", d, h)
    BY <1>7, <1>8
  <1>10. r = AgregatWrite(d, o, h)
    <2> DEFINE q == UpdateVD(d, o, h)
    <2>1. q.res = "ok" /\ q.d = d /\ q.h = h
      BY <1>9 DEF Result
    <2>2. r = IF q.res # "ok" THEN q
              ELSE IF h.new THEN AgregatCreate(q.d, o, q.h) ELSE AgregatWrite(q.d, o, q.h)
      BY DEF Realize
    <2> HIDE DEF q, r
    <2> QED  BY <1>2, <2>1, <2>2
  <1>11. r.res = "refused" /\ SameBut(h, h)
    BY <1>1, HeldSame
  <1> HIDE DEF r
  <1>12. RefusedAs(d, h, r)
    BY <1>2, <1>10, <1>11, WriteRefused
  <1> QED  BY <1>12 DEF r

\* The client still has the object, unless it was new.
LEMMA RefusedHeld ==
    ASSUME NEW d, NEW h, HeldOK(d, h), ~h.new, NEW g, SameBut(h, g), g.vd = h.vd,
           h.vd = 0 \/ g = h
    PROVE  HeldOK(d, Settle(g, TRUE))
  <1> DEFINE f == Settle(g, TRUE)
  <1>1. /\ g \in HeldType /\ g.o = h.o /\ g.str = h.str /\ g.loaded = h.loaded /\ g.ini = h.ini
    BY DEF SameBut
  <1>2. /\ f \in HeldType /\ f.o = h.o /\ f.new = FALSE /\ f.str = h.str /\ f.vd = h.vd
        /\ f.loaded = h.loaded /\ f.ini = h.ini /\ f.chg = g.chg
    BY <1>1, SettleIs
  <1> HIDE DEF f
  <1>3. OldHeld(d, h)
    BY DEF HeldOK
  <1>4. OldHeld(d, f)
    BY <1>2, <1>3 DEF OldHeld
  <1>5. HeldOK(d, f)
    BY <1>2, <1>4 DEF HeldOK
  <1> QED  BY <1>5 DEF f

-----------------------------------------------------------------------------
(* Agregat::remove.                                                         *)

\* d without o, and what DbInv needs of it.
Without(d, o, row) ==
    MkDb(d.live \ {o}, [d.num EXCEPT ![o] = 0], [d.str EXCEPT ![o] = Empty], [d.vd EXCEPT ![o] = 0],
         [d.ini EXCEPT ![o] = FALSE], [d.data EXCEPT ![o] = row], SetToBag(Others(d, o)))
Cleared(row) == \A j \in DataIds : row[j] = NoData
Removed(d, o, e) ==
    /\ DbInv(e) /\ e.live = d.live \ {o}
    /\ \A u \in Objs \ {o} : e.num[u] = d.num[u] /\ e.str[u] = d.str[u]

LEMMA WithoutInv ==
    ASSUME NEW d, DbInv(d), NEW o \in d.live, NEW row \in Row, Cleared(row), NEW e,
           e = Without(d, o, row)
    PROVE  Removed(d, o, e)
  <1>1. /\ e.live = d.live \ {o}
        /\ e.num = [d.num EXCEPT ![o] = 0] /\ e.str = [d.str EXCEPT ![o] = Empty]
        /\ e.vd = [d.vd EXCEPT ![o] = 0] /\ e.ini = [d.ini EXCEPT ![o] = FALSE]
        /\ e.data = [d.data EXCEPT ![o] = row] /\ e.idx = SetToBag(Others(d, o))
    BY DEF Without, MkDb
  <1>2. Shape(e)
    BY DEF Without, MkDb, Shape
  <1>3. /\ d.live \subseteq Objs /\ d.num \in [Objs -> Num] /\ d.str \in [Objs -> Str]
        /\ d.vd \in [Objs -> Ids] /\ d.ini \in [Objs -> BOOLEAN] /\ d.data \in [Objs -> Row]
        /\ o \in Objs
    BY DEF DbInv, Typed, Row
  <1>4. 0 \in Num /\ Empty \in Str /\ 0 \in Ids
    BY DEF Num, Str, Ids
  <1>5. e.num \in [Objs -> Num] /\ e.num[o] = 0 /\ \A u \in Objs \ {o} : e.num[u] = d.num[u]
    BY <1>1, <1>3, <1>4
  <1>6. e.str \in [Objs -> Str] /\ e.str[o] = Empty /\ \A u \in Objs \ {o} : e.str[u] = d.str[u]
    BY <1>1, <1>3, <1>4
  <1>7. e.vd \in [Objs -> Ids] /\ e.vd[o] = 0 /\ \A u \in Objs \ {o} : e.vd[u] = d.vd[u]
    BY <1>1, <1>3, <1>4
  <1>8. e.ini \in [Objs -> BOOLEAN] /\ e.ini[o] = FALSE /\ \A u \in Objs \ {o} : e.ini[u] = d.ini[u]
    BY <1>1, <1>3
  <1>9. e.data \in [Objs -> Row] /\ e.data[o] = row /\ \A u \in Objs \ {o} : e.data[u] = d.data[u]
    BY <1>1, <1>3
  <1>10. e.live \subseteq Objs
    BY <1>1, <1>3
  <1>11. Typed(e)
    BY <1>2, <1>5, <1>6, <1>7, <1>8, <1>9, <1>10 DEF Typed, Row
  <1>12. \A u \in Objs \ {o} : SameObject(d, e, u)
    BY <1>5, <1>6, <1>7, <1>8, <1>9 DEF SameObject
  <1>13. \A u \in e.live : Kept(e, u)
    <2> SUFFICES ASSUME NEW u \in d.live, u # o PROVE Kept(e, u)
      BY <1>1
    <2>1. Kept(d, u) /\ SameObject(d, e, u)
      BY <1>3, <1>12 DEF DbInv
    <2> QED  BY <2>1, KeptSame
  <1>14. \A u \in Objs \ e.live : Gone(e, u)
    <2>1. Gone(e, o)
      BY <1>5, <1>6, <1>7, <1>8, <1>9 DEF Gone, Cleared
    <2>2. ASSUME NEW u \in Objs, u \notin d.live PROVE Gone(e, u)
      <3>1. Gone(d, u) /\ SameObject(d, e, u)
        BY <1>12, <2>2 DEF DbInv
      <3> QED  BY <3>1, KeptSame
    <2> QED  BY <1>1, <2>1, <2>2
  <1>15. e.idx = SetToBag(Entries(e, e.live))
    <2> DEFINE L == d.live \ {o}
    <2>1. \A u \in L : SameObject(d, e, u)
      BY <1>3, <1>12
    <2>2. e.live = L /\ Others(d, o) = Entries(d, L)
      BY <1>1 DEF Others
    <2> HIDE DEF L
    <2>3. Entries(d, L) = Entries(e, L)
      BY <2>1, OthersSame
    <2> QED  BY <1>1, <2>2, <2>3
  <1>16. \A u \in e.live : NotNull(e.num[u], e.str[u]) /\ Alone(e, u, e.num[u], e.str[u])
    <2>1. ASSUME NEW u \in d.live, u # o
          PROVE  NotNull(e.num[u], e.str[u]) /\ Alone(e, u, e.num[u], e.str[u])
      <3>1. NotNull(d.num[u], d.str[u]) /\ Alone(d, u, d.num[u], d.str[u])
        BY DEF DbInv
      <3>2. e.num[u] = d.num[u] /\ e.str[u] = d.str[u]
        BY <1>3, <1>5, <1>6, <2>1
      <3>3. ASSUME NEW w \in e.live \ {u}
            PROVE  w \in d.live \ {u} /\ e.num[w] = d.num[w] /\ e.str[w] = d.str[w]
        BY <1>1, <1>3, <1>5, <1>6
      <3>4. Alone(e, u, d.num[u], d.str[u])
        BY <3>1, <3>3 DEF Alone
      <3> QED  BY <3>1, <3>2, <3>4
    <2> QED  BY <1>1, <2>1
  <1>17. DbInv(e)
    BY <1>11, <1>13, <1>14, <1>15, <1>16 DEF DbInv
  <1> QED  BY <1>1, <1>5, <1>6, <1>17 DEF Removed

\* The call that deletes the object, after its data object was.
LEMMA AgregatDeleteIs ==
    ASSUME NEW d, DbInv(d), NEW o \in d.live, NEW row \in Row, NEW e, NEW g,
           e = Upd(d, o, row, SetToBag(Rest(d, o)))
    PROVE  AgregatDelete(e, o, g) = Result("ok", Without(d, o, row), g)
  <1>1. /\ Typed(d) /\ o \in Objs /\ d.live \subseteq Objs /\ d.str \in [Objs -> Str]
    BY DEF DbInv, Typed
  <1>2. Typed(e)
    BY <1>1, UpdTyped
  <1>3. /\ e.live = d.live /\ e.num = d.num /\ e.str = d.str /\ e.vd = d.vd /\ e.ini = d.ini
        /\ e.data = [d.data EXCEPT ![o] = row] /\ e.idx = SetToBag(Rest(d, o))
    BY DEF Upd, MkDb
  <1> DEFINE O == Others(d, o)
             N == OwnNum(d, o)
             T == OldStr(d, o)
             Z == {}
             a == RealizeIdxOP(e.idx, RemoveNum(e, o), RemoveStr(e, o))
             x == SetToBag(O)
             f == [e EXCEPT !.idx = x]
             L == d.live \ {o}
  <1>4. RemoveNum(e, o) = Queue(N, Z)
    BY <1>3 DEF RemoveNum, OwnNum
  <1>5. RemoveStr(e, o) = Queue(T, Z)
    BY <1>3 DEF RemoveStr, OldStr, NoOps, StrE
  <1>6. Disjoint(N \cup Z, O \cup T \cup Z) /\ Disjoint(T \cup Z, O)
    <2>1. (\A m : NumEntry(m, o) \notin O) /\ (\A t \in Str : StrE(t, o) \notin O)
      BY <1>1, Foreign DEF Others
    <2>2. N = {NumEntry(d.num[o], o)} /\ (T = {} \/ T = {StrE(d.str[o], o)}) /\ d.str[o] \in Str
      BY <1>1 DEF OwnNum, OldStr
    <2>3. NumEntry(d.num[o], o) # StrE(d.str[o], o)
      BY EntryFacts
    <2> HIDE DEF O, N, T
    <2> QED  BY <2>1, <2>2, <2>3 DEF Disjoint
  <1>7. Step(N, N, Z, Z) /\ Step(T, T, Z, Z)
    BY DEF Step
  <1>8. a = [ok |-> TRUE, idx |-> x]
    <2>1. O \cup Z \cup Z = O
      OBVIOUS
    <2>2. Rest(d, o) = O \cup N \cup T
      BY DEF Rest
    <2> HIDE DEF O, N, T, Z
    <2>3. RealizeIdxOP(SetToBag(O \cup N \cup T), Queue(N, Z), Queue(T, Z))
            = [ok |-> TRUE, idx |-> SetToBag(O \cup Z \cup Z)]
      BY <1>6, <1>7, TwoQueues
    <2> QED  BY <1>3, <1>4, <1>5, <2>1, <2>2, <2>3
  <1>9. AgregatDelete(e, o, g) = Result(IF a.ok THEN "ok" ELSE "error", Drop([e EXCEPT !.idx = a.idx], o), g)
    BY DEF AgregatDelete
  <1>10. AgregatDelete(e, o, g) = Result("ok", Drop(f, o), g)
    <2> HIDE DEF a, x
    <2>1. a.ok = TRUE /\ a.idx = x
      BY <1>8
    <2> QED  BY <1>9, <2>1
  <1>11. f = MkDb(e.live, e.num, e.str, e.vd, e.ini, e.data, x)
    <2>1. e = MkDb(e.live, e.num, e.str, e.vd, e.ini, e.data, e.idx)
      BY <1>2 DEF Typed, Shape, MkDb
    <2> HIDE DEF x
    <2> QED  BY <2>1, ExceptIdx
  <1> HIDE DEF f, x, L
  <1>12. /\ f.live = d.live /\ f.num = d.num /\ f.str = d.str /\ f.vd = d.vd /\ f.ini = d.ini
         /\ f.data = [d.data EXCEPT ![o] = row] /\ f.idx = x
    BY <1>3, <1>11 DEF MkDb
  <1>13. Shape(f)
    BY <1>11 DEF Shape, MkDb
  <1>14. Drop(f, o) = SetObject(f, L, o, 0, Empty, 0, FALSE)
    BY <1>12 DEF Drop, SetObject, L
  <1>15. SetObject(f, L, o, 0, Empty, 0, FALSE)
           = MkDb(L, [f.num EXCEPT ![o] = 0], [f.str EXCEPT ![o] = Empty], [f.vd EXCEPT ![o] = 0],
                  [f.ini EXCEPT ![o] = FALSE], f.data, f.idx)
    <2> DEFINE F == FALSE
    <2> HIDE DEF F
    <2>1. SetObject(f, L, o, 0, Empty, 0, F) = ObjectSet(f, L, o, 0, Empty, 0, F)
      BY <1>13, SetObjectIs
    <2> QED  BY <2>1 DEF F, ObjectSet
  <1>16. Drop(f, o) = Without(d, o, row)
    BY <1>12, <1>14, <1>15 DEF Without, L, x
  <1> QED  BY <1>10, <1>16

LEMMA RemoveIs ==
    ASSUME NEW d, DbInv(d), NEW h, HeldOK(d, h), ~h.new
    PROVE  RemoveObject(d, h.o, h).res = "ok" /\ Removed(d, h.o, RemoveObject(d, h.o, h).d)
  <1> DEFINE o == h.o
             q == IF h.vd # 0 THEN VDdataDelete(d, o, h) ELSE Result("ok", d, h)
             r == RemoveObject(d, o, h)
  <1>1. h.o \in d.live /\ h.o \in Objs /\ h.vd = d.vd[h.o]
    BY DEF HeldOK, HeldType, OldHeld
  <1>2. PICK row \in Row :
          Cleared(row) /\ \E g : q = Result("ok", Upd(d, o, row, SetToBag(Rest(d, o))), g)
    <2>1. CASE h.vd # 0
      <3> DEFINE row == RowWith(d, o, h.vd, NoData)
                 g == [h EXCEPT !.vd = 0]
      <3>1. q = Result("ok", Upd(d, o, row, SetToBag(Rest(d, o))), g)
        BY <2>1, DeleteOld
      <3>2. row \in Row
        BY <2>1, DeleteOld
      <3>3. Cleared(row)
        BY <2>1, DeleteOld DEF Cleared
      <3> HIDE DEF row, g
      <3> QED  BY <3>1, <3>2, <3>3
    <2>2. CASE h.vd = 0
      <3> DEFINE row == d.data[o]
      <3>1. row \in Row /\ \A j \in DataIds : j # h.vd => row[j] = NoData
        BY HeldRow
      <3>2. Cleared(row)
        BY <2>2, <3>1 DEF Cleared, DataIds
      <3>3. d.idx = SetToBag(Rest(d, o))
        BY <1>1, <2>2, IndexOf
      <3>4. Upd(d, o, row, SetToBag(Rest(d, o))) = d
        BY <1>1, <3>3, UpdSame DEF DbInv
      <3>5. q = Result("ok", Upd(d, o, row, SetToBag(Rest(d, o))), h)
        BY <2>2, <3>4
      <3> HIDE DEF row, q
      <3> QED  BY <3>1, <3>2, <3>5
    <2> QED  BY <2>1, <2>2
  <1>3. PICK g : q = Result("ok", Upd(d, o, row, SetToBag(Rest(d, o))), g)
    BY <1>2
  <1> DEFINE e == Upd(d, o, row, SetToBag(Rest(d, o)))
  <1>4. r = IF q.res # "ok" THEN q ELSE AgregatDelete(q.d, o, q.h)
    BY DEF RemoveObject
  <1> HIDE DEF q, e, r
  <1>5. q.res = "ok" /\ q.d = e /\ q.h = g
    BY <1>3 DEF Result, e
  <1>6. r = AgregatDelete(e, o, g)
    BY <1>4, <1>5
  <1>7. AgregatDelete(e, o, g) = Result("ok", Without(d, o, row), g)
    BY <1>1, AgregatDeleteIs DEF e
  <1>8. r.res = "ok" /\ r.d = Without(d, o, row)
    BY <1>6, <1>7 DEF Result
  <1>9. Removed(d, o, r.d)
    BY <1>1, <1>2, <1>8, WithoutInv
  <1> QED  BY <1>8, <1>9 DEF r

-----------------------------------------------------------------------------
(* The invariant, action by action.                                         *)

LEMMA NotHeldIs ==
    /\ NotHeld.o = "none" /\ NotHeld.vd = 0 /\ NotHeld.str = Empty /\ NotHeld.loaded = TRUE
    /\ NotHeld.chg = FALSE /\ NotHeld.num = 0
  BY DEF NotHeld

LEMMA InitInv == Init => IInv
  <1> SUFFICES ASSUME Init PROVE IInv
    OBVIOUS
  <1> DEFINE n == [o \in Objs |-> 0]
             s == [o \in Objs |-> Empty]
             i == [o \in Objs |-> FALSE]
             t == [o \in Objs |-> [k \in DataIds |-> NoData]]
  <1>1. db = MkDb({}, n, s, n, i, t, EmptyBag)
    BY DEF Init, MkDb
  <1>2. /\ n \in [Objs -> Num] /\ n \in [Objs -> Ids] /\ s \in [Objs -> Str] /\ i \in [Objs -> BOOLEAN]
        /\ t \in [Objs -> [DataIds -> Strings \cup {NoData}]]
    BY DEF Num, Ids, Str
  <1>3. \A o \in Objs : n[o] = 0 /\ s[o] = Empty /\ i[o] = FALSE /\ \A k \in DataIds : t[o][k] = NoData
    OBVIOUS
  <1> HIDE DEF n, s, i, t
  <1>4. /\ db.live = {} /\ db.num = n /\ db.str = s /\ db.vd = n /\ db.ini = i /\ db.data = t
        /\ db.idx = EmptyBag
    BY <1>1 DEF MkDb
  <1>5. Shape(db)
    BY <1>1 DEF MkDb, Shape
  <1>6. Typed(db)
    BY <1>2, <1>4, <1>5 DEF Typed
  <1>7. \A o \in Objs : Gone(db, o)
    BY <1>3, <1>4 DEF Gone
  <1>8. db.idx = SetToBag(Entries(db, db.live))
    <2>1. Entries(db, db.live) = {}
      BY <1>4 DEF Entries
    <2> QED  BY <1>4, <2>1 DEF EmptyBag
  <1>9. DbInv(db)
    BY <1>4, <1>6, <1>7, <1>8 DEF DbInv
  <1>10. unique \subseteq {"num", "str"} /\ notnull \subseteq {"num", "str"}
    BY IndexAssumption DEF Init
  <1>11. want \in [Objs -> Fields]
    BY DEF Init, Blank, Fields
  <1>12. held = NotHeld /\ reply = "none" /\ broken = FALSE
    BY DEF Init
  <1> QED  BY <1>4, <1>9, <1>10, <1>11, <1>12 DEF IInv

\* The constraints do not change, so the invariant of a database means the same
\* before and after a step.
LEMMA DbPrime ==
    ASSUME unique' = unique, notnull' = notnull, DbInv(db')
    PROVE  DbInv(db)'
  <1>1. /\ Typed(db)' <=> Typed(db')
        /\ \A o : (Kept(db, o)' <=> Kept(db', o)) /\ (Gone(db, o)' <=> Gone(db', o))
        /\ Entries(db, db.live)' = Entries(db', db'.live)
    BY DEF Typed, Kept, Gone, Entries, Shape
  <1>2. \A n, s : NotNull(n, s)' <=> NotNull(n, s)
    BY DEF NotNull
  <1>3. \A o : NotNull(db.num[o], db.str[o])' <=> NotNull(db'.num[o], db'.str[o])
    BY DEF NotNull
  <1>4. \A o : Alone(db, o, db.num[o], db.str[o])' <=> Alone(db', o, db'.num[o], db'.str[o])
    BY DEF Alone
  <1> QED  BY <1>1, <1>3, <1>4 DEF DbInv

LEMMA HeldPrime ==
    ASSUME held' = NotHeld \/ HeldOK(db', held')
    PROVE  (held = NotHeld \/ HeldOK(db, held))'
  BY DEF HeldOK, OldHeld, NewHeld

\* A step that edits the object in hand changes nothing else.
LEMMA EditInv ==
    ASSUME IInv, Edited, HeldOK(db, held')
    PROVE  IInv' /\ reply' # "refused"
  <1>1. /\ unique' = unique /\ notnull' = notnull /\ db' = db /\ want' = want /\ broken' = broken
        /\ reply' = "none"
    BY DEF Edited, Schema
  <1>2. DbInv(db)'
    <2>1. DbInv(db')
      BY <1>1 DEF IInv
    <2> QED  BY <1>1, <2>1, DbPrime
  <1>3. (held = NotHeld \/ HeldOK(db, held))'
    <2>1. HeldOK(db', held')
      BY <1>1
    <2> QED  BY <2>1, HeldPrime
  <1>4. /\ unique' \subseteq {"num", "str"} /\ notnull' \subseteq {"num", "str"}
        /\ want' \in [Objs -> Fields] /\ broken' = FALSE
        /\ \A o \in db'.live : want'[o] = [num |-> db'.num[o], str |-> db'.str[o]]
    BY <1>1 DEF IInv
  <1> QED  BY <1>1, <1>2, <1>3, <1>4 DEF IInv

LEMMA NewInv ==
    ASSUME IInv, NEW o \in Objs, New(o)
    PROVE  IInv' /\ reply' # "refused"
  <1>1. o \notin db.live /\ held' = [NotHeld EXCEPT !.o = o, !.new = TRUE, !.mod = TRUE] /\ Edited
    BY DEF New
  <1>2. held' = [o |-> o, new |-> TRUE, num |-> 0, str |-> Empty, vd |-> 0,
                 chg |-> FALSE, loaded |-> TRUE, ini |-> FALSE, mod |-> TRUE]
    BY <1>1 DEF NotHeld
  <1>3. held' \in HeldType
    BY <1>2 DEF HeldType, Num, Str, Ids
  <1>4. HeldOK(db, held')
    <2>1. held'.o = o /\ held'.new = TRUE /\ held'.str = Empty /\ held'.vd = 0 /\ held'.loaded = TRUE
      BY <1>2
    <2>2. NewHeld(db, held')
      BY <1>1, <2>1 DEF NewHeld
    <2> QED  BY <1>3, <2>1, <2>2 DEF HeldOK
  <1> QED  BY <1>1, <1>4, EditInv

LEMMA LoadInv ==
    ASSUME IInv, NEW o \in Objs, Load(o)
    PROVE  IInv' /\ reply' # "refused"
  <1>0. DbInv(db)
    BY DEF IInv
  <1>1. /\ o \in db.live /\ Edited
        /\ held' = [NotHeld EXCEPT !.o = o, !.num = db.num[o], !.str = Read(db, o),
                               !.vd = db.vd[o], !.ini = db.ini[o]]
    BY DEF Load
  <1>2. Read(db, o) = db.str[o]
    BY <1>0, <1>1, ReadIs
  <1>3. held' = [o |-> o, new |-> FALSE, num |-> db.num[o], str |-> db.str[o], vd |-> db.vd[o],
                 chg |-> FALSE, loaded |-> TRUE, ini |-> db.ini[o], mod |-> FALSE]
    BY <1>1, <1>2 DEF NotHeld
  <1>4. db.num[o] \in Num /\ db.str[o] \in Str /\ db.vd[o] \in Ids /\ db.ini[o] \in BOOLEAN
    BY <1>0 DEF DbInv, Typed
  <1>5. held' \in HeldType
    BY <1>3, <1>4 DEF HeldType
  <1>6. OldHeld(db, held')
    <2>1. held'.o = o /\ held'.str = db.str[o] /\ held'.vd = db.vd[o]
      BY <1>3
    <2> QED  BY <1>1, <2>1 DEF OldHeld
  <1>7. db.str[o] # Empty /\ ~Long(db.str[o]) => db.ini[o]
    BY <1>0, <1>1 DEF DbInv, Kept
  <1>8. HeldOK(db, held')
    BY <1>3, <1>5, <1>6, <1>7 DEF HeldOK
  <1> QED  BY <1>1, <1>8, EditInv

\* The client has an object.
LEMMA InHand ==
    ASSUME IInv, held.o # "none"
    PROVE  HeldOK(db, held)
  BY NotHeldIs DEF IInv

LEMMA SetNumInv ==
    ASSUME IInv, NEW n \in Nums \cup {0}, SetNum(n)
    PROVE  IInv' /\ reply' # "refused"
  <1>1. held.o # "none" /\ held' = [held EXCEPT !.num = n, !.mod = TRUE] /\ Edited
    BY DEF SetNum
  <1>2. HeldOK(db, held)
    BY <1>1, InHand
  <1>3. held \in HeldType /\ n \in Num
    BY <1>2 DEF HeldOK, Num
  <1>4. /\ held' \in HeldType /\ held'.o = held.o /\ held'.new = held.new /\ held'.str = held.str
        /\ held'.vd = held.vd /\ held'.chg = held.chg /\ held'.loaded = held.loaded
        /\ held'.ini = held.ini
    BY <1>1, <1>3 DEF HeldType
  <1>5. HeldOK(db, held')
    BY <1>2, <1>4 DEF HeldOK, NewHeld, OldHeld
  <1> QED  BY <1>1, <1>5, EditInv

LEMMA SetStrInv ==
    ASSUME IInv, NEW s \in Strings, SetStr(s)
    PROVE  IInv' /\ reply' # "refused"
  <1> DEFINE c == held.chg \/ Len(s) # Len(held.str)
             i == held.ini \/ ~Long(s)
  <1>1. /\ held.o # "none" /\ held.loaded /\ Edited
        /\ held' = [held EXCEPT !.str = s, !.mod = TRUE, !.chg = c, !.ini = i]
    BY DEF SetStr
  <1>2. HeldOK(db, held)
    BY <1>1, InHand
  <1>3. held \in HeldType /\ s \in Str /\ s # Empty /\ c \in BOOLEAN /\ i \in BOOLEAN
    BY <1>2, StringFacts DEF HeldOK, Str
  <1>4. (~c => ~held.chg /\ Len(s) = Len(held.str)) /\ (~Long(s) => i)
    OBVIOUS
  <1> HIDE DEF c, i
  <1>5. /\ held' \in HeldType /\ held'.o = held.o /\ held'.new = held.new /\ held'.str = s
        /\ held'.vd = held.vd /\ held'.chg = c /\ held'.loaded = held.loaded
        /\ held'.ini = i
    BY <1>1, <1>3 DEF HeldType
  <1>6. held'.new => NewHeld(db, held')
    BY <1>2, <1>5 DEF HeldOK, NewHeld
  <1>7. ~held'.new => OldHeld(db, held')
    BY <1>2, <1>3, <1>4, <1>5 DEF HeldOK, OldHeld
  <1>8. HeldOK(db, held')
    BY <1>1, <1>4, <1>5, <1>6, <1>7 DEF HeldOK
  <1> QED  BY <1>1, <1>8, EditInv

LEMMA SetSizeInv ==
    ASSUME Careless = {}, IInv, SetSize
    PROVE  IInv' /\ reply' # "refused"
  <1>1. /\ held.o # "none" /\ held.new /\ Edited
        /\ held' = [held EXCEPT !.str = Empty, !.mod = TRUE, !.chg = TRUE, !.loaded = FALSE]
    BY DEF SetSize
  <1>2. HeldOK(db, held)
    BY <1>1, InHand
  <1>3. held \in HeldType /\ Empty \in Str
    BY <1>2 DEF HeldOK, Str
  <1>4. /\ held' \in HeldType /\ held'.o = held.o /\ held'.new = held.new /\ held'.str = Empty
        /\ held'.vd = held.vd
    BY <1>1, <1>3 DEF HeldType
  <1>5. HeldOK(db, held')
    BY <1>1, <1>2, <1>4 DEF HeldOK, NewHeld
  <1> QED  BY <1>1, <1>5, EditInv

\* Store, refused or not.
LEMMA StoreStep ==
    ASSUME Careless = {}, IInv, Store
    PROVE  IInv' /\ (reply' = "refused" => db' = db /\ Truth(db, held))
  <1> DEFINE o == held.o
             r == Realize(db, o, held)
             w == [num |-> held.num, str |-> held.str]
  <1>1. /\ held.o # "none" /\ unique' = unique /\ notnull' = notnull
        /\ Long(held.str) => Fresh(db, o, held) # {}
        /\ "str" \in unique /\ ~held.new => ~Taken(db, o, held.str)
        /\ r.res = "refused" /\ (Long(held.str) \/ held.vd # 0) => ~Altered(db, held)
        /\ db' = r.d /\ reply' = r.res /\ broken' = (r.res = "error")
    BY DEF Store, Schema
  <1>2. held' = IF r.res = "ok" \/ (r.res = "refused" /\ ~held.new)
                THEN Settle(r.h, r.res # "ok") ELSE NotHeld
    BY DEF Store, Settle
  <1>3. want' = IF r.res = "ok" THEN [want EXCEPT ![o] = w] ELSE want
    BY DEF Store
  <1>4. DbInv(db) /\ HeldOK(db, held)
    BY <1>1, InHand DEF IInv
  <1>5. held \in HeldType /\ o \in Objs /\ held.num \in Num /\ held.str \in Str
    BY <1>4 DEF HeldOK, HeldType
  <1>6. want \in [Objs -> Fields] /\ db.live \subseteq Objs
        /\ \A u \in db.live : want[u] = [num |-> db.num[u], str |-> db.str[u]]
    BY <1>4 DEF IInv, DbInv, Typed
  <1>7. unique' \subseteq {"num", "str"} /\ notnull' \subseteq {"num", "str"}
    BY <1>1 DEF IInv
  <1>8. CASE r.res = "refused"
    <2>1. RefusedAs(db, held, r)
      BY <1>1, <1>4, <1>8, StoreShortRefused, StoreLongRefused
    <2> HIDE DEF r
    <2>2. /\ r.d = db /\ SameBut(held, r.h) /\ r.h.vd = held.vd /\ Truth(db, held)
          /\ held.vd = 0 \/ r.h = held
      BY <2>1 DEF RefusedAs
    <2>3. DbInv(db)'
      <3>1. DbInv(db')
        BY <1>1, <1>4, <2>2
      <3> QED  BY <1>1, <3>1, DbPrime
    <2>4. held' = NotHeld \/ HeldOK(db, held')
      <3>1. CASE held.new
        BY <1>2, <1>8, <3>1
      <3>2. CASE ~held.new
        <4> DEFINE g == r.h
        <4>1. (r.res # "ok") = TRUE
          BY <1>8
        <4>2. held' = Settle(g, TRUE)
          BY <1>2, <1>8, <3>2, <4>1
        <4>3. SameBut(held, g) /\ g.vd = held.vd /\ (held.vd = 0 \/ g = held)
          BY <2>2
        <4> HIDE DEF g
        <4>4. HeldOK(db, Settle(g, TRUE))
          BY <1>4, <3>2, <4>3, RefusedHeld
        <4> QED  BY <4>2, <4>4
      <3> QED  BY <3>1, <3>2
    <2>5. (held = NotHeld \/ HeldOK(db, held))'
      BY <1>1, <2>2, <2>4, HeldPrime
    <2>6. want' = want /\ db' = db /\ reply' = "refused" /\ broken' = FALSE
      BY <1>1, <1>3, <1>8, <2>2
    <2>7. \A u \in db'.live : want'[u] = [num |-> db'.num[u], str |-> db'.str[u]]
      BY <1>6, <2>6
    <2>8. want' \in [Objs -> Fields]
      BY <1>6, <2>6
    <2>9. IInv'
      BY <1>7, <2>3, <2>5, <2>6, <2>7, <2>8 DEF IInv
    <2> QED  BY <2>2, <2>6, <2>9
  <1>9. CASE r.res # "refused"
    <2>1. StoreOK(db, held, r)
      <3>1. CASE held.new
        BY <1>1, <1>4, <1>9, <3>1, StoreNew
      <3>2. CASE ~held.new
        BY <1>1, <1>4, <1>9, <3>2, StoreOld
      <3> QED  BY <3>1, <3>2
    <2> HIDE DEF r
    <2>2. r.res = "ok" /\ AfterStore(db, held, r.d) /\ HeldOK(r.d, Settle(r.h, FALSE))
      BY <1>4, <2>1, StoreInv
    <2>3. /\ DbInv(db') /\ db'.live = db.live \cup {o} /\ db'.num[o] = held.num /\ db'.str[o] = held.str
          /\ \A u \in Objs \ {o} : db'.num[u] = db.num[u] /\ db'.str[u] = db.str[u]
      BY <1>1, <2>2 DEF AfterStore
    <2>4. DbInv(db)'
      BY <1>1, <2>3, DbPrime
    <2>5. (held = NotHeld \/ HeldOK(db, held))'
      <3>1. (r.res # "ok") = FALSE
        BY <2>2
      <3>2. held' = Settle(r.h, FALSE)
        BY <1>2, <2>2, <3>1
      <3>3. HeldOK(db', held')
        BY <1>1, <2>2, <3>2
      <3> QED  BY <3>3, HeldPrime
    <2>6. w \in Fields /\ w = [num |-> db'.num[o], str |-> db'.str[o]]
      BY <1>5, <2>3 DEF Fields, Num, Str
    <2>7. want' = [want EXCEPT ![o] = w] /\ reply' = "ok" /\ broken' = FALSE
      BY <1>1, <1>3, <2>2
    <2> HIDE DEF w, o
    <2>8. want' \in [Objs -> Fields] /\ want'[o] = w /\ \A u \in Objs \ {o} : want'[u] = want[u]
      BY <1>5, <1>6, <2>6, <2>7
    <2>9. \A u \in db'.live : want'[u] = [num |-> db'.num[u], str |-> db'.str[u]]
      <3>1. ASSUME NEW u \in db.live, u # o
            PROVE  want'[u] = [num |-> db'.num[u], str |-> db'.str[u]]
        <4>1. u \in Objs \ {o}
          BY <1>6, <3>1
        <4> QED  BY <1>6, <2>3, <2>8, <4>1
      <3> QED  BY <2>3, <2>6, <2>8, <3>1
    <2>10. IInv'
      BY <1>7, <2>4, <2>5, <2>7, <2>8, <2>9 DEF IInv
    <2> QED  BY <2>7, <2>10
  <1> QED  BY <1>8, <1>9

LEMMA RemoveInv ==
    ASSUME IInv, RemoveHeld
    PROVE  IInv' /\ reply' # "refused"
  <1> DEFINE o == held.o
             r == RemoveObject(db, o, held)
  <1>1. /\ held.o # "none" /\ ~held.new /\ unique' = unique /\ notnull' = notnull
        /\ db' = r.d /\ reply' = r.res /\ broken' = (r.res = "error") /\ held' = NotHeld
        /\ want' = IF r.res = "ok" THEN [want EXCEPT ![o] = Blank] ELSE want
    BY DEF RemoveHeld, Schema
  <1>2. DbInv(db) /\ HeldOK(db, held)
    BY <1>1, InHand DEF IInv
  <1>3. o \in Objs
    BY <1>2 DEF HeldOK, HeldType
  <1>4. r.res = "ok" /\ Removed(db, o, r.d)
    BY <1>1, <1>2, RemoveIs
  <1> HIDE DEF r, o
  <1>5. /\ DbInv(db') /\ db'.live = db.live \ {o} /\ reply' = "ok" /\ broken' = FALSE
        /\ \A u \in Objs \ {o} : db'.num[u] = db.num[u] /\ db'.str[u] = db.str[u]
    BY <1>1, <1>4 DEF Removed
  <1>6. want \in [Objs -> Fields] /\ db.live \subseteq Objs
        /\ \A u \in db.live : want[u] = [num |-> db.num[u], str |-> db.str[u]]
    BY <1>2 DEF IInv, DbInv, Typed
  <1>7. want' = [want EXCEPT ![o] = Blank] /\ Blank \in Fields
    BY <1>1, <1>4 DEF Blank, Fields
  <1>8. want' \in [Objs -> Fields] /\ \A u \in Objs \ {o} : want'[u] = want[u]
    BY <1>3, <1>6, <1>7
  <1>9. \A u \in db'.live : want'[u] = [num |-> db'.num[u], str |-> db'.str[u]]
    BY <1>5, <1>6, <1>8
  <1>10. DbInv(db)'
    BY <1>1, <1>5, DbPrime
  <1>11. (held = NotHeld \/ HeldOK(db, held))'
    BY <1>1, HeldPrime
  <1>12. unique' \subseteq {"num", "str"} /\ notnull' \subseteq {"num", "str"}
    BY <1>1 DEF IInv
  <1> QED  BY <1>5, <1>8, <1>9, <1>10, <1>11, <1>12 DEF IInv

LEMMA Stutter ==
    ASSUME IInv, UNCHANGED vars
    PROVE  IInv'
  <1>1. /\ unique' = unique /\ notnull' = notnull /\ db' = db /\ want' = want /\ broken' = broken
        /\ reply' = reply /\ held' = held
    BY DEF vars
  <1>2. DbInv(db)'
    <2>1. DbInv(db')
      BY <1>1 DEF IInv
    <2> QED  BY <1>1, <2>1, DbPrime
  <1>3. (held = NotHeld \/ HeldOK(db, held))'
    <2>1. held' = NotHeld \/ HeldOK(db', held')
      BY <1>1 DEF IInv
    <2> QED  BY <2>1, HeldPrime
  <1>4. /\ unique' \subseteq {"num", "str"} /\ notnull' \subseteq {"num", "str"}
        /\ want' \in [Objs -> Fields] /\ broken' = FALSE /\ reply' \in {"none", "ok", "refused"}
        /\ \A o \in db'.live : want'[o] = [num |-> db'.num[o], str |-> db'.str[o]]
    BY <1>1 DEF IInv
  <1> QED  BY <1>2, <1>3, <1>4 DEF IInv

\* Every step keeps the invariant, and a step that is refused changes nothing and
\* has a reason.
LEMMA NextInv ==
    ASSUME Careless = {}, IInv, Next
    PROVE  IInv' /\ (reply' = "refused" => db' = db /\ Truth(db, held))
  <1>1. CASE \E o \in Objs : New(o) \/ Load(o)
    BY <1>1, NewInv, LoadInv
  <1>2. CASE \E n \in Nums \cup {0} : SetNum(n)
    BY <1>2, SetNumInv
  <1>3. CASE \E s \in Strings : SetStr(s)
    BY <1>3, SetStrInv
  <1>4. CASE SetSize
    BY <1>4, SetSizeInv
  <1>5. CASE Store
    BY <1>5, StoreStep
  <1>6. CASE RemoveHeld
    BY <1>6, RemoveInv
  <1> QED  BY <1>1, <1>2, <1>3, <1>4, <1>5, <1>6 DEF Next

-----------------------------------------------------------------------------
(* What the invariant says of the properties the runs check.                *)

LEMMA ReadAll ==
    ASSUME IInv
    PROVE  DbInv(db) /\ \A o \in db.live : Read(db, o) = db.str[o]
  BY ReadIs DEF IInv

LEMMA InvIndex == IInv => IndexExact
  <1> SUFFICES ASSUME IInv PROVE IndexExact
    OBVIOUS
  <1> DEFINE E == {NumEntry(db.num[o], o) : o \in db.live} \cup
                  {StrEntry(Read(db, o), Read(db, o) = Empty, o) : o \in db.live}
  <1>1. DbInv(db) /\ \A o \in db.live : Read(db, o) = db.str[o]
    BY ReadAll
  <1>2. \A o \in db.live : StrEntry(Read(db, o), Read(db, o) = Empty, o) = StrE(db.str[o], o)
    BY <1>1 DEF StrE
  <1>3. {StrEntry(Read(db, o), Read(db, o) = Empty, o) : o \in db.live}
          = {StrE(db.str[o], o) : o \in db.live}
    BY <1>2
  <1>4. E = Entries(db, db.live)
    BY <1>3 DEF Entries
  <1>5. db.idx = SetToBag(Entries(db, db.live)) /\ reply # "error"
    BY <1>1 DEF DbInv, IInv
  <1> HIDE DEF E
  <1>6. db.idx = SetToBag(E)
    BY <1>4, <1>5
  <1> QED  BY <1>5, <1>6 DEF IndexExact, E

LEMMA InvStored == IInv => StoredExact
  <1> SUFFICES ASSUME IInv, NEW o \in db.live
               PROVE  [num |-> db.num[o], str |-> Read(db, o)] = want[o]
    BY DEF StoredExact
  <1> QED  BY ReadAll DEF IInv

LEMMA InvType == IInv => TypeOK
  <1> SUFFICES ASSUME IInv PROVE TypeOK
    OBVIOUS
  <1>1. Typed(db) /\ db.idx = SetToBag(Entries(db, db.live))
    BY DEF IInv, DbInv
  <1>2. IsABag(db.idx)
    <2> DEFINE E == Entries(db, db.live)
    <2> HIDE DEF E
    <2>1. IsABag(SetToBag(E))
      BY DEF IsABag, SetToBag
    <2> QED  BY <1>1, <2>1 DEF E
  <1>3. \A o \in Objs : /\ [num |-> db.num[o], str |-> db.str[o]] \in Fields
                        /\ db.vd[o] \in DataIds \cup {0}
                        /\ \A k \in DataIds : db.data[o][k] \in Strings \cup {NoData}
    BY <1>1 DEF Typed, Fields, Num, Str, Ids
  <1>4. /\ unique \subseteq {"num", "str"} /\ notnull \subseteq {"num", "str"}
        /\ \A o \in Objs : want[o] \in Fields
        /\ reply \in {"none", "ok", "refused", "error"} /\ broken = (reply = "error")
    BY DEF IInv
  <1>5. db.live \subseteq Objs
    BY <1>1 DEF Typed
  <1> QED  BY <1>2, <1>3, <1>4, <1>5 DEF TypeOK

LEMMA InvData == IInv => DataOwned
  <1> SUFFICES ASSUME IInv PROVE DataOwned
    OBVIOUS
  <1>1. DbInv(db)
    BY DEF IInv
  <1>2. \A o \in db.live : db.vd[o] # 0 <=> Long(db.str[o])
    BY <1>1 DEF DbInv, Kept
  <1>3. held.o \in db.live => held.vd = db.vd[held.o]
    <2> SUFFICES ASSUME held.o \in db.live PROVE held.vd = db.vd[held.o]
      OBVIOUS
    <2>1. held.o \in Objs
      BY <1>1 DEF DbInv, Typed
    <2>2. held.o # "none"
      BY <2>1, IndexAssumption
    <2>3. HeldOK(db, held)
      BY <2>2, InHand
    <2>4. ~held.new
      BY <2>3 DEF HeldOK, NewHeld
    <2> QED  BY <2>3, <2>4 DEF HeldOK, OldHeld
  <1>4. ASSUME NEW o \in Objs, NEW k \in DataIds
        PROVE  (db.data[o][k] # NoData) <=> (o \in db.live /\ db.vd[o] = k)
    <2>1. CASE o \in db.live
      <3>1. Kept(db, o) /\ db.str[o] \in Str
        BY <1>1, <2>1 DEF DbInv, Typed
      <3>2. db.str[o] # NoData /\ k # 0
        BY <3>1, StrFacts DEF DataIds
      <3> QED  BY <2>1, <3>1, <3>2 DEF Kept
    <2>2. CASE o \notin db.live
      BY <1>1, <2>2 DEF DbInv, Gone
    <2> QED  BY <2>1, <2>2
  <1> QED  BY <1>2, <1>3, <1>4, InvType DEF DataOwned

LEMMA InvConstraints == IInv => ConstraintsHold
  <1> SUFFICES ASSUME IInv, NEW o \in db.live
               PROVE  /\ "num" \in notnull => db.num[o] # 0
                      /\ "str" \in notnull => Read(db, o) # Empty
                      /\ \A u \in db.live \ {o} :
                            /\ "num" \in unique /\ db.num[o] # 0 => db.num[u] # db.num[o]
                            /\ "str" \in unique /\ Read(db, o) # Empty => Read(db, u) # Read(db, o)
    BY DEF ConstraintsHold
  <1>1. DbInv(db) /\ \A u \in db.live : Read(db, u) = db.str[u]
    BY ReadAll
  <1>2. NotNull(db.num[o], db.str[o]) /\ Alone(db, o, db.num[o], db.str[o])
    BY <1>1 DEF DbInv
  <1> QED  BY <1>1, <1>2 DEF NotNull, Alone

-----------------------------------------------------------------------------
(* The theorems.                                                            *)

\* The invariant of the index, the stored objects and the object in hand holds in
\* every state that an application without CarelessKinds reaches: Agregat::realize
\* and Agregat::remove, with the calls they make, keep it.
THEOREM IndexInvariant ==
    ASSUME Careless = {}
    PROVE  Spec => []IInv
  <1>1. IInv /\ [Next]_vars => IInv'
    BY NextInv, Stutter
  <1> QED  BY <1>1, InitInv, PTL DEF Spec

\* createIndexEntry, updateIndexEntry and removeIndexEntry keep the index exact: it
\* has one entry of each attribute of each live object, that of its stored value,
\* and no other; so AttrIdxContext::realizeIdxOP always finds what it removes, and
\* no store or remove breaks the transaction.
THEOREM IndexIsExact ==
    ASSUME Careless = {}
    PROVE  Spec => []IndexExact
  BY IndexInvariant, InvIndex, PTL

\* What Agregat::realize stored last in an object is what Database::loadObject
\* reads, whether the string is in the object or in a data object.
THEOREM StoredIsExact ==
    ASSUME Careless = {}
    PROVE  Spec => []StoredExact
  BY IndexInvariant, InvStored, PTL

\* AttrVD::update_realize and remove_realize leave no data object without an object
\* that refers to it, and lose none; and every variable has its type.
THEOREM DataIsOwned ==
    ASSUME Careless = {}
    PROVE  Spec => []DataOwned
  BY IndexInvariant, InvData, PTL

\* The unique and notnull constraints, which the server tests one call at a time,
\* hold of all live objects together.
THEOREM ConstraintsAreKept ==
    ASSUME Careless = {}
    PROVE  Spec => []ConstraintsHold
  BY IndexInvariant, InvConstraints, PTL

\* A store that a constraint refuses leaves the database as it was: an object that
\* IDB_agregatCreate has created is deleted again, and no entry is lost with it.
THEOREM RefusedIsUnchanged ==
    ASSUME Careless = {}
    PROVE  Spec => RefusedUnchanged
  <1>1. IInv /\ [Next]_vars => [reply' = "refused" => db' = db]_vars
    BY NextInv
  <1> QED  BY <1>1, IndexInvariant, PTL DEF Spec, RefusedUnchanged

\* A store is refused only for a reason that the object in hand and the live
\* objects show, never for a stale entry: the constraints, and the two misreadings
\* that RefusalExplained names (a string that is the key of an object, and a long
\* string that is looked for in the object).
THEOREM RefusalIsExplained ==
    ASSUME Careless = {}
    PROVE  Spec => RefusalExplained
  <1> DEFINE T == \/ "num" \in notnull /\ held.num = 0
                  \/ "str" \in notnull /\ held.str = Empty
                  \/ "num" \in unique /\ \E u \in db.live \ {held.o} : held.num # 0 /\ db.num[u] = held.num
                  \/ "str" \in unique /\ held.new /\ Taken(db, held.o, held.str)
                  \/ "str" \in unique /\ ~held.new /\ KeyTaken(db, held)
                  \/ "str" \in notnull /\ ~held.new /\ Long(held.str) /\ ~held.ini
  <1>1. IInv /\ [Next]_vars => [reply' = "refused" => T]_vars
    BY NextInv DEF Truth
  <1> QED  BY <1>1, IndexInvariant, PTL DEF Spec, RefusalExplained

=============================================================================
