---------------------------- MODULE MemoryProofs -----------------------------
(***************************************************************************)
(* The memory store, for any capacity, keys, limits and sample: the index, *)
(* the arena and the ring agree after every operation.  The ring is known  *)
(* by the sequence of its slots in order of use, which each link operation *)
(* turns into another one; the keys in that order are those of LRUStore.   *)
(***************************************************************************)
EXTENDS MemoryStore, FiniteSetTheorems, WellFoundedInduction, TLAPS

------------------------------------------------------------------------------
(* The invariant *)

Links == 0..emptyIndex

Element == [key : Keys \cup {NoKey}, value : Vals \cup {None}, cost : Nat,
            next : Links, prev : Links]

StoreType == [index : [Keys -> Links], elements : [Slots -> Element],
              head : Links, len : 0..opts.cap, usedBytes : Nat]

\* The positions after and before i in a ring of n.
After(i, n) == IF i = n THEN 1 ELSE i + 1
Before(i, n) == IF i = 1 THEN n ELSE i - 1

\* w lists the slots U, each once.
Lists(w, n, U) ==
    /\ w \in [1..n -> U]
    /\ \A i, j \in 1..n : w[i] = w[j] => i = j
    /\ \A p \in U : \E i \in 1..n : w[i] = p

\* The slots U are linked into a ring in the order w, from the head to older ones.
Ring(S, w, n, U) ==
    /\ Lists(w, n, U)
    /\ S.head = IF n = 0 THEN emptyIndex ELSE w[1]
    /\ \A i \in 1..n : /\ S.elements[w[i]].prev = w[After(i, n)]
                       /\ S.elements[w[i]].next = w[Before(i, n)]

\* What the operations on links do to that order.
Prepend(w, pos, n) == [i \in 1..(n + 1) |-> IF i = 1 THEN pos ELSE w[i - 1]]
Skip(w, j, n) == [i \in 1..(n - 1) |-> IF i < j THEN w[i] ELSE w[i + 1]]
Rename(w, old, new, n) == [i \in 1..n |-> IF w[i] = old THEN new ELSE w[i]]

InUse(S) == 0..(S.len - 1)

Linked(S) == \E w : Ring(S, w, S.len, InUse(S))

Indexed(S) ==
    /\ \A k \in Keys : S.index[k] # emptyIndex =>
          S.index[k] \in InUse(S) /\ S.elements[S.index[k]].key = k
    /\ \A p \in InUse(S) : S.elements[p].key \in Keys /\ S.index[S.elements[p].key] = p
    /\ \A p \in Slots \ InUse(S) : S.elements[p] = ZeroElement

Counted(S) ==
    /\ \A p \in InUse(S) : S.elements[p].cost = EntryBytes
    /\ S.usedBytes = S.len * EntryBytes

WithinBytes(S) == opts.maxBytes > 0 => S.usedBytes <= opts.maxBytes \/ S.len = 1

Whole(S) == S \in StoreType /\ Indexed(S) /\ Linked(S) /\ Counted(S)

OptsType == opts \in [cap : Nat \ {0}, maxBytes : Nat, sample : Nat]
            /\ opts.cap <= emptyIndex

MemoryInv == OptsType /\ Whole(s) /\ WithinBytes(s) /\ getHits \in Nat

------------------------------------------------------------------------------
(* The links *)

\* What an operation on links leaves alone.
OnlyLinks(S, T) ==
    /\ T \in StoreType
    /\ T.index = S.index /\ T.len = S.len /\ T.usedBytes = S.usedBytes
    /\ \A p \in Slots : /\ T.elements[p].key = S.elements[p].key
                        /\ T.elements[p].value = S.elements[p].value
                        /\ T.elements[p].cost = S.elements[p].cost

\* One link of one element is set.
PutNext(S, pos, to) == [S EXCEPT !.elements[pos].next = to]
PutNexts(S, T, pos, to) ==
    /\ OnlyLinks(S, T) /\ T.head = S.head
    /\ \A p \in Slots :
          /\ T.elements[p].next = IF p = pos THEN to ELSE S.elements[p].next
          /\ T.elements[p].prev = S.elements[p].prev

PutPrev(S, pos, to) == [S EXCEPT !.elements[pos].prev = to]
PutPrevs(S, T, pos, to) ==
    /\ OnlyLinks(S, T) /\ T.head = S.head
    /\ \A p \in Slots :
          /\ T.elements[p].prev = IF p = pos THEN to ELSE S.elements[p].prev
          /\ T.elements[p].next = S.elements[p].next

PutHead(S, to) == [S EXCEPT !.head = to]
PutHeads(S, T, to) == OnlyLinks(S, T) /\ T.head = to /\ T.elements = S.elements

Untouched(S, T, U) == \A p \in Slots \ U : T.elements[p] = S.elements[p]

LEMMA Neighbours ==
    ASSUME NEW S, NEW w, NEW n \in Nat, NEW U, Ring(S, w, n, U), NEW p \in U
    PROVE  /\ S.head \in U /\ S.elements[S.head].next \in U
           /\ S.elements[p].next \in U /\ S.elements[p].prev \in U
           /\ S.elements[S.elements[p].next].prev = p
           /\ S.elements[S.elements[p].prev].next = p
           /\ S.elements[p].next = p <=> n = 1
<1>1. PICK i \in 1..n : w[i] = p
    BY DEF Ring, Lists
<1>2. n \in Nat /\ n # 0 /\ 1 \in 1..n /\ Before(1, n) \in 1..n
    BY DEF Before
<1>3. After(i, n) \in 1..n /\ Before(i, n) \in 1..n
    BY DEF After, Before
<1>4. After(Before(i, n), n) = i /\ Before(After(i, n), n) = i
    BY DEF After, Before
<1>5. (Before(i, n) = i) <=> n = 1
    BY DEF Before
<1> HIDE DEF After, Before
<1> QED
    BY <1>1, <1>2, <1>3, <1>4, <1>5 DEF Ring, Lists

LEMMA PutNextShape ==
    ASSUME NEW S \in StoreType, NEW pos \in Slots, NEW to \in Links
    PROVE  PutNexts(S, PutNext(S, pos, to), pos, to) /\ PutNext(S, pos, to) \in StoreType
<1> DEFINE e == [S.elements[pos] EXCEPT !.next = to]
           T == PutNext(S, pos, to)
<1>1. S.elements \in [Slots -> Element] /\ S.elements[pos] \in Element
    BY DEF StoreType
<1>2. /\ e \in Element /\ e.next = to /\ e.prev = S.elements[pos].prev
      /\ e.key = S.elements[pos].key /\ e.value = S.elements[pos].value
      /\ e.cost = S.elements[pos].cost
    BY <1>1 DEF Element
<1>3. T = [S EXCEPT !.elements = [S.elements EXCEPT ![pos] = e]]
    BY DEF PutNext
<1> HIDE DEF e, T
<1>4. T.elements = [S.elements EXCEPT ![pos] = e] /\ T.elements \in [Slots -> Element]
    BY <1>1, <1>2, <1>3 DEF StoreType
<1>5. /\ T \in StoreType /\ T.index = S.index /\ T.len = S.len /\ T.usedBytes = S.usedBytes
      /\ T.head = S.head
    BY <1>3, <1>4 DEF StoreType
<1>6. PutNexts(S, T, pos, to)
    BY ONLY <1>1, <1>2, <1>4, <1>5 DEF OnlyLinks, PutNexts
<1> QED
    BY <1>5, <1>6 DEF T

LEMMA PutPrevShape ==
    ASSUME NEW S \in StoreType, NEW pos \in Slots, NEW to \in Links
    PROVE  PutPrevs(S, PutPrev(S, pos, to), pos, to) /\ PutPrev(S, pos, to) \in StoreType
<1> DEFINE e == [S.elements[pos] EXCEPT !.prev = to]
           T == PutPrev(S, pos, to)
<1>1. S.elements \in [Slots -> Element] /\ S.elements[pos] \in Element
    BY DEF StoreType
<1>2. /\ e \in Element /\ e.prev = to /\ e.next = S.elements[pos].next
      /\ e.key = S.elements[pos].key /\ e.value = S.elements[pos].value
      /\ e.cost = S.elements[pos].cost
    BY <1>1 DEF Element
<1>3. T = [S EXCEPT !.elements = [S.elements EXCEPT ![pos] = e]]
    BY DEF PutPrev
<1> HIDE DEF e, T
<1>4. T.elements = [S.elements EXCEPT ![pos] = e] /\ T.elements \in [Slots -> Element]
    BY <1>1, <1>2, <1>3 DEF StoreType
<1>5. /\ T \in StoreType /\ T.index = S.index /\ T.len = S.len /\ T.usedBytes = S.usedBytes
      /\ T.head = S.head
    BY <1>3, <1>4 DEF StoreType
<1>6. PutPrevs(S, T, pos, to)
    BY ONLY <1>1, <1>2, <1>4, <1>5 DEF OnlyLinks, PutPrevs
<1> QED
    BY <1>5, <1>6 DEF T

LEMMA PutHeadShape ==
    ASSUME NEW S \in StoreType, NEW to \in Links
    PROVE  PutHeads(S, PutHead(S, to), to)
BY DEF PutHead, PutHeads, OnlyLinks, StoreType

LEMMA LinksOnly ==
    ASSUME NEW S, NEW T, NEW U, OnlyLinks(S, T), OnlyLinks(T, U)
    PROVE  OnlyLinks(S, U)
BY DEF OnlyLinks

\* pos is linked in before the head.
LEMMA LinkFrontShape ==
    ASSUME OptsType, NEW S \in StoreType, NEW pos \in Slots, S.head # pos,
           S.head # emptyIndex => /\ S.head \in Slots
                                  /\ S.elements[S.head].next \in Slots \ {pos},
           NEW T, T = LinkFront(S, pos), NEW tail, tail = S.elements[S.head].next
    PROVE  /\ OnlyLinks(S, T) /\ T.head = pos
           /\ S.head = emptyIndex =>
                 /\ T.elements[pos].next = pos /\ T.elements[pos].prev = pos
                 /\ \A p \in Slots \ {pos} : /\ T.elements[p].next = S.elements[p].next
                                             /\ T.elements[p].prev = S.elements[p].prev
           /\ S.head # emptyIndex => \A p \in Slots :
                 /\ T.elements[p].next = IF p = pos THEN tail ELSE IF p = S.head THEN pos
                                         ELSE S.elements[p].next
                 /\ T.elements[p].prev = IF p = pos THEN S.head ELSE IF p = tail THEN pos
                                         ELSE S.elements[p].prev
<1>1. Slots \subseteq Links /\ emptyIndex \notin Slots
    BY MemoryAssumption DEF Slots, Links, OptsType
<1>2. CASE S.head = emptyIndex
  <2> DEFINE A == PutNext(S, pos, pos)
             B == PutPrev(A, pos, pos)
             C == PutHead(B, pos)
  <2>1. T = C
      BY <1>2 DEF LinkFront, PutNext, PutPrev, PutHead
  <2>2. PutNexts(S, A, pos, pos) /\ A \in StoreType
      BY <1>1, PutNextShape
  <2>3. PutPrevs(A, B, pos, pos) /\ B \in StoreType
      BY <1>1, <2>2, PutPrevShape
  <2>4. PutHeads(B, C, pos)
      BY <1>1, <2>3, PutHeadShape
  <2> HIDE DEF A, B, C
  <2>5. OnlyLinks(S, C)
      BY ONLY <2>2, <2>3, <2>4, LinksOnly DEF PutNexts, PutPrevs, PutHeads
  <2> QED
      BY ONLY <1>2, <2>1, <2>2, <2>3, <2>4, <2>5, pos \in Slots
      DEF PutNexts, PutPrevs, PutHeads
<1>3. CASE S.head # emptyIndex
  <2> DEFINE A == PutNext(S, pos, tail)
             B == PutPrev(A, pos, S.head)
             C == PutPrev(B, tail, pos)
             D == PutNext(C, S.head, pos)
             E == PutHead(D, pos)
  <2>1. T = E
      BY <1>3 DEF LinkFront, PutNext, PutPrev, PutHead
  <2>2. /\ A = PutNext(S, pos, tail) /\ B = PutPrev(A, pos, S.head)
        /\ C = PutPrev(B, tail, pos) /\ D = PutNext(C, S.head, pos)
        /\ E = PutHead(D, pos)
      OBVIOUS
  <2> HIDE DEF A, B, C, D, E
  <2>3. /\ pos \in Slots /\ S.head \in Slots /\ tail \in Slots /\ tail # pos
        /\ pos \in Links /\ S.head \in Links /\ tail \in Links
      BY <1>1, <1>3
  <2>4. PutNexts(S, A, pos, tail) /\ A \in StoreType
      BY ONLY <2>2, <2>3, PutNextShape, S \in StoreType
  <2>5. PutPrevs(A, B, pos, S.head) /\ B \in StoreType
      BY ONLY <2>2, <2>3, <2>4, PutPrevShape
  <2>6. PutPrevs(B, C, tail, pos) /\ C \in StoreType
      BY ONLY <2>2, <2>3, <2>5, PutPrevShape
  <2>7. PutNexts(C, D, S.head, pos) /\ D \in StoreType
      BY ONLY <2>2, <2>3, <2>6, PutNextShape
  <2>8. PutHeads(D, E, pos)
      BY ONLY <2>2, <2>3, <2>7, PutHeadShape
  <2>9. OnlyLinks(S, E)
      BY ONLY <2>4, <2>5, <2>6, <2>7, <2>8, LinksOnly DEF PutNexts, PutPrevs, PutHeads
  <2> QED
      BY ONLY <1>3, <2>1, <2>3, <2>4, <2>5, <2>6, <2>7, <2>8, <2>9, S.head # pos
      DEF PutNexts, PutPrevs, PutHeads
<1> QED
    BY <1>2, <1>3

\* The neighbours of pos, which has others beside it, are linked to each other.
LEMMA UnlinkShape ==
    ASSUME OptsType, NEW S \in StoreType, NEW pos \in Slots,
           NEW next \in Slots, next = S.elements[pos].next, next # pos,
           NEW prev \in Slots, prev = S.elements[pos].prev,
           NEW T, T = UnlinkLRU(S, pos)
    PROVE  /\ OnlyLinks(S, T)
           /\ T.head = IF S.head = pos THEN prev ELSE S.head
           /\ \A p \in Slots :
                 /\ T.elements[p].next = IF p = prev THEN next ELSE S.elements[p].next
                 /\ T.elements[p].prev = IF p = next THEN prev ELSE S.elements[p].prev
<1> DEFINE A == PutPrev(S, next, prev)
           B == PutNext(A, prev, next)
           C == PutHead(B, IF S.head = pos THEN prev ELSE S.head)
<1>1. T = C
    BY DEF UnlinkLRU, PutNext, PutPrev, PutHead
<1>2. /\ A = PutPrev(S, next, prev) /\ B = PutNext(A, prev, next)
      /\ C = PutHead(B, IF S.head = pos THEN prev ELSE S.head)
    OBVIOUS
<1> HIDE DEF A, B, C
<1>3. /\ next \in Links /\ prev \in Links
      /\ (IF S.head = pos THEN prev ELSE S.head) \in Links
    BY MemoryAssumption DEF Slots, Links, OptsType, StoreType
<1>4. PutPrevs(S, A, next, prev) /\ A \in StoreType
    BY ONLY <1>2, <1>3, PutPrevShape, S \in StoreType, next \in Slots
<1>5. PutNexts(A, B, prev, next) /\ B \in StoreType
    BY ONLY <1>2, <1>3, <1>4, PutNextShape, prev \in Slots
<1>6. PutHeads(B, C, IF S.head = pos THEN prev ELSE S.head)
    BY ONLY <1>2, <1>3, <1>5, PutHeadShape
<1>7. OnlyLinks(S, C)
    BY ONLY <1>4, <1>5, <1>6, LinksOnly DEF PutNexts, PutPrevs, PutHeads
<1> QED
    BY ONLY <1>1, <1>4, <1>5, <1>6, <1>7 DEF PutNexts, PutPrevs, PutHeads

\* Whoever pointed at the element's old slot points at its new one.
LEMMA RepointShape ==
    ASSUME OptsType, NEW S \in StoreType, NEW old \in Slots, NEW new \in Slots, old # new,
           NEW next \in Slots \ {new}, next = S.elements[new].next,
           NEW prev \in Slots \ {new}, prev = S.elements[new].prev,
           (next = old) <=> (prev = old),
           NEW T, T = RepointMoved(S, old, new)
    PROVE  /\ OnlyLinks(S, T)
           /\ T.head = IF S.head = old THEN new ELSE S.head
           /\ \A p \in Slots :
                 /\ T.elements[p].next = IF p = (IF next = old THEN new ELSE prev)
                                         THEN new ELSE S.elements[p].next
                 /\ T.elements[p].prev = IF p = (IF prev = old THEN new ELSE next)
                                         THEN new ELSE S.elements[p].prev
<1> DEFINE to == IF S.head = old THEN new ELSE S.head
<1>1. new \in Links /\ to \in Links
    BY MemoryAssumption DEF Slots, Links, OptsType, StoreType
<1>2. CASE next = old
  <2> DEFINE A == RepointNext(S, old, new)
             B == RepointPrev(A, old, new)
             C == PutHead(B, to)
  <2>1. A = PutNext(S, new, new)
      BY <1>2 DEF RepointNext, PutNext
  <2> HIDE DEF A
  <2>2. PutNexts(S, A, new, new) /\ A \in StoreType
      BY ONLY <1>1, <2>1, PutNextShape, S \in StoreType, new \in Slots, next \in Slots \ {new}
  <2>3. A.elements[new].prev = prev
      BY ONLY <1>2, <2>2, prev = S.elements[new].prev, next # new, new \in Slots DEF PutNexts
  <2>4. B = PutPrev(A, new, new)
      BY <1>2, <2>3 DEF RepointPrev, PutPrev
  <2> HIDE DEF B
  <2>5. PutPrevs(A, B, new, new) /\ B \in StoreType
      BY ONLY <1>1, <2>2, <2>4, PutPrevShape, new \in Slots, prev \in Slots \ {new}
  <2>6. B.head = S.head
      BY <2>2, <2>5 DEF PutNexts, PutPrevs
  <2>7. T = C
      BY <2>6 DEF RepointMoved, PutHead, A, B
  <2> HIDE DEF to
  <2>8. PutHeads(B, C, to)
      BY ONLY <1>1, <2>5, PutHeadShape
  <2> HIDE DEF C
  <2>9. OnlyLinks(S, C)
      BY ONLY <2>2, <2>5, <2>8, LinksOnly DEF PutNexts, PutPrevs, PutHeads
  <2> QED
      BY ONLY <1>2, <2>2, <2>5, <2>7, <2>8, <2>9, (next = old) <=> (prev = old)
      DEF PutNexts, PutPrevs, PutHeads, to
<1>3. CASE next # old
  <2> DEFINE A == RepointNext(S, old, new)
             B == RepointPrev(A, old, new)
             C == PutHead(B, to)
  <2>1. A = PutPrev(S, next, new)
      BY <1>3 DEF RepointNext, PutPrev
  <2> HIDE DEF A
  <2>2. PutPrevs(S, A, next, new) /\ A \in StoreType
      BY ONLY <1>1, <2>1, PutPrevShape, S \in StoreType, new \in Slots, next \in Slots \ {new}
  <2>3. A.elements[new].prev = prev
      BY ONLY <1>3, <2>2, prev = S.elements[new].prev, next # new, new \in Slots DEF PutPrevs
  <2>4. B = PutNext(A, prev, new)
      BY <1>3, <2>3 DEF RepointPrev, PutNext
  <2> HIDE DEF B
  <2>5. PutNexts(A, B, prev, new) /\ B \in StoreType
      BY ONLY <1>1, <2>2, <2>4, PutNextShape, new \in Slots, prev \in Slots \ {new}
  <2>6. B.head = S.head
      BY <2>2, <2>5 DEF PutNexts, PutPrevs
  <2>7. T = C
      BY <2>6 DEF RepointMoved, PutHead, A, B
  <2> HIDE DEF to
  <2>8. PutHeads(B, C, to)
      BY ONLY <1>1, <2>5, PutHeadShape
  <2> HIDE DEF C
  <2>9. OnlyLinks(S, C)
      BY ONLY <2>2, <2>5, <2>8, LinksOnly DEF PutNexts, PutPrevs, PutHeads
  <2> QED
      BY ONLY <1>3, <2>2, <2>5, <2>7, <2>8, <2>9, (next = old) <=> (prev = old)
      DEF PutNexts, PutPrevs, PutHeads, to
<1> QED
    BY <1>2, <1>3

------------------------------------------------------------------------------
(* The ring *)

LEMMA PrependLists ==
    ASSUME NEW n \in Nat, NEW U, NEW w, Lists(w, n, U), NEW pos, pos \notin U
    PROVE  Lists(Prepend(w, pos, n), n + 1, U \cup {pos})
<1> DEFINE v == Prepend(w, pos, n)
<1>1. v = [i \in 1..(n + 1) |-> IF i = 1 THEN pos ELSE w[i - 1]]
    BY DEF Prepend
<1>2. \A i \in 1..n : i + 1 \in 1..(n + 1) /\ i + 1 # 1 /\ i + 1 - 1 = i
    OBVIOUS
<1>3. \A i \in 1..(n + 1) : i = 1 \/ i - 1 \in 1..n
    OBVIOUS
<1>4. 1 \in 1..(n + 1)
    OBVIOUS
<1> HIDE DEF v
<1>5. v[1] = pos /\ \A i \in 1..n : v[i + 1] = w[i]
    BY <1>1, <1>2, <1>4
<1>6. \A i, j \in 1..(n + 1) : v[i] = v[j] => i = j
  <2> SUFFICES ASSUME NEW i \in 1..(n + 1), NEW j \in 1..(n + 1), v[i] = v[j]
               PROVE  i = j
      OBVIOUS
  <2> QED
      BY <1>1, <1>3 DEF Lists
<1>7. v \in [1..(n + 1) -> U \cup {pos}]
    BY <1>1, <1>3 DEF Lists
<1>8. \A p \in U \cup {pos} : \E i \in 1..(n + 1) : v[i] = p
    BY <1>2, <1>4, <1>5 DEF Lists
<1> QED
    BY <1>6, <1>7, <1>8 DEF Lists, v

LEMMA SkipLists ==
    ASSUME NEW n \in Nat, NEW U, NEW w, Lists(w, n, U), NEW j \in 1..n
    PROVE  Lists(Skip(w, j, n), n - 1, U \ {w[j]})
<1> DEFINE v == Skip(w, j, n)
<1>1. v = [i \in 1..(n - 1) |-> IF i < j THEN w[i] ELSE w[i + 1]]
    BY DEF Skip
<1>2. \A i \in 1..(n - 1) : i \in 1..n /\ i + 1 \in 1..n
    OBVIOUS
<1> HIDE DEF v
<1>3. \A i, k \in 1..(n - 1) : v[i] = v[k] => i = k
  <2> SUFFICES ASSUME NEW i \in 1..(n - 1), NEW k \in 1..(n - 1), v[i] = v[k]
               PROVE  i = k
      OBVIOUS
  <2> QED
      BY <1>1, <1>2 DEF Lists
<1>4. v \in [1..(n - 1) -> U \ {w[j]}]
    BY <1>1, <1>2 DEF Lists
<1>5. \A p \in U \ {w[j]} : \E i \in 1..(n - 1) : v[i] = p
  <2> SUFFICES ASSUME NEW p \in U \ {w[j]} PROVE \E i \in 1..(n - 1) : v[i] = p
      OBVIOUS
  <2>1. PICK k \in 1..n : w[k] = p
      BY DEF Lists
  <2>2. CASE k < j
    <3>1. k \in 1..(n - 1) /\ v[k] = p
        BY <1>1, <2>1, <2>2
    <3> QED
        BY <3>1
  <2>3. CASE k > j
    <3>1. k - 1 \in 1..(n - 1) /\ ~(k - 1 < j) /\ k - 1 + 1 = k
        BY <2>3
    <3>2. v[k - 1] = p
        BY <1>1, <2>1, <3>1
    <3> QED
        BY <3>1, <3>2
  <2> QED
      BY <2>1, <2>2, <2>3
<1> QED
    BY <1>3, <1>4, <1>5 DEF Lists, v

LEMMA RenameLists ==
    ASSUME NEW n \in Nat, NEW U, NEW w, Lists(w, n, U), NEW old \in U, NEW new, new \notin U
    PROVE  Lists(Rename(w, old, new, n), n, (U \ {old}) \cup {new})
<1> DEFINE v == Rename(w, old, new, n)
<1>1. v = [i \in 1..n |-> IF w[i] = old THEN new ELSE w[i]]
    BY DEF Rename
<1> HIDE DEF v
<1>2. \A i, k \in 1..n : v[i] = v[k] => i = k
  <2> SUFFICES ASSUME NEW i \in 1..n, NEW k \in 1..n, v[i] = v[k]
               PROVE  i = k
      OBVIOUS
  <2> QED
      BY <1>1 DEF Lists
<1>3. v \in [1..n -> (U \ {old}) \cup {new}]
    BY <1>1 DEF Lists
<1>4. \A p \in (U \ {old}) \cup {new} : \E i \in 1..n : v[i] = p
    BY <1>1 DEF Lists
<1> QED
    BY <1>2, <1>3, <1>4 DEF Lists, v

LEMMA RingKept ==
    ASSUME NEW S, NEW T, NEW n \in Nat, NEW U, NEW w, Ring(S, w, n, U), T.head = S.head,
           \A p \in U : /\ T.elements[p].next = S.elements[p].next
                        /\ T.elements[p].prev = S.elements[p].prev
    PROVE  Ring(T, w, n, U)
BY DEF Ring, Lists

LEMMA Turns ==
    ASSUME NEW n \in Nat, NEW i \in 1..n
    PROVE  /\ After(i, n) \in 1..n /\ Before(i, n) \in 1..n
           /\ After(Before(i, n), n) = i /\ Before(After(i, n), n) = i
           /\ 1 \in 1..n
BY DEF After, Before

LEMMA SameElement ==
    ASSUME NEW S \in StoreType, NEW T, OnlyLinks(S, T), NEW p \in Slots,
           T.elements[p].next = S.elements[p].next, T.elements[p].prev = S.elements[p].prev
    PROVE  T.elements[p] = S.elements[p]
<1>1. S.elements[p] \in Element /\ T.elements[p] \in Element
    BY DEF OnlyLinks, StoreType
<1>2. /\ T.elements[p].key = S.elements[p].key
      /\ T.elements[p].value = S.elements[p].value
      /\ T.elements[p].cost = S.elements[p].cost
    BY DEF OnlyLinks
<1> QED
    BY <1>1, <1>2 DEF Element

\* A slot that is in no ring goes in front of it.
LEMMA FrontRing ==
    ASSUME OptsType, NEW S \in StoreType, NEW n \in Nat, NEW U, U \subseteq Slots, NEW w,
           Ring(S, w, n, U), NEW pos \in Slots, pos \notin U
    PROVE  /\ Ring(LinkFront(S, pos), Prepend(w, pos, n), n + 1, U \cup {pos})
           /\ OnlyLinks(S, LinkFront(S, pos))
           /\ Untouched(S, LinkFront(S, pos), U \cup {pos})
<1> DEFINE T == LinkFront(S, pos)
           v == Prepend(w, pos, n)
           tail == S.elements[S.head].next
<1>1. Slots \subseteq Links /\ emptyIndex \notin Slots
    BY MemoryAssumption DEF Slots, Links, OptsType
<1>2. n # 0 => S.head \in U /\ tail \in U /\ S.head = w[1] /\ tail = w[n]
    BY Turns DEF Ring, Lists, Before
<1>3. n = 0 => S.head = emptyIndex /\ U = {}
    BY DEF Ring, Lists
<1>4. v[1] = pos /\ \A i \in 1..n : v[i + 1] = w[i]
    BY DEF Prepend
<1>5. \A i \in 1..(n + 1) : i = 1 \/ \E k \in 1..n : i = k + 1
    <2>1. \A i \in 1..(n + 1) : i = 1 \/ (i - 1 \in 1..n /\ i = i - 1 + 1)
        OBVIOUS
    <2> QED
        BY <2>1
<1>6. Lists(v, n + 1, U \cup {pos})
    BY PrependLists DEF Ring
<1> HIDE DEF T, v, tail
<1>7. CASE n = 0
  <2>1. /\ OnlyLinks(S, T) /\ T.head = pos
        /\ T.elements[pos].next = pos /\ T.elements[pos].prev = pos
        /\ \A p \in Slots \ {pos} : /\ T.elements[p].next = S.elements[p].next
                                    /\ T.elements[p].prev = S.elements[p].prev
      BY <1>1, <1>3, <1>7, LinkFrontShape DEF T
  <2>2. Ring(T, v, n + 1, U \cup {pos})
      BY <1>4, <1>6, <1>7, <2>1 DEF Ring, After, Before
  <2> QED
      BY <2>1, <2>2, SameElement DEF T, v, Untouched
<1>8. CASE n # 0
  <2>1. /\ OnlyLinks(S, T) /\ T.head = pos
        /\ \A p \in Slots :
              /\ T.elements[p].next = IF p = pos THEN tail ELSE IF p = S.head THEN pos
                                      ELSE S.elements[p].next
              /\ T.elements[p].prev = IF p = pos THEN S.head ELSE IF p = tail THEN pos
                                      ELSE S.elements[p].prev
      BY <1>1, <1>2, <1>8, LinkFrontShape DEF T, tail
  <2>2. /\ T.elements[v[1]].prev = v[After(1, n + 1)]
        /\ T.elements[v[1]].next = v[Before(1, n + 1)]
      BY <1>2, <1>4, <1>8, <2>1 DEF After, Before
  <2>3. ASSUME NEW k \in 1..n
        PROVE  /\ T.elements[v[k + 1]].prev = v[After(k + 1, n + 1)]
               /\ T.elements[v[k + 1]].next = v[Before(k + 1, n + 1)]
    <3>1. v[k + 1] = w[k] /\ w[k] \in Slots /\ w[k] # pos
        BY <1>4 DEF Ring, Lists
    <3>2. w[k] = tail <=> k = n
        BY <1>2, <1>8 DEF Ring, Lists
    <3>3. w[k] = S.head <=> k = 1
        BY <1>2, <1>8 DEF Ring, Lists
    <3>4. /\ S.elements[w[k]].prev = w[After(k, n)]
          /\ S.elements[w[k]].next = w[Before(k, n)]
        BY DEF Ring
    <3>5. T.elements[v[k + 1]].prev = v[After(k + 1, n + 1)]
        BY <1>4, <2>1, <3>1, <3>2, <3>4 DEF After
    <3>6. T.elements[v[k + 1]].next = v[Before(k + 1, n + 1)]
      <4>1. CASE k = 1
          BY <1>4, <2>1, <3>1, <3>3, <4>1 DEF Before
      <4>2. CASE k # 1
        <5>1. k - 1 \in 1..n /\ k - 1 + 1 = k /\ Before(k, n) = k - 1
              /\ Before(k + 1, n + 1) = k
            BY <4>2 DEF Before
        <5> QED
            BY ONLY <1>4, <2>1, <3>1, <3>3, <3>4, <4>2, <5>1
      <4> QED
          BY <4>1, <4>2
    <3> QED
        BY <3>5, <3>6
  <2>4. Ring(T, v, n + 1, U \cup {pos})
    <3>1. n + 1 # 0 /\ T.head = v[1]
        BY <1>4, <2>1
    <3>2. \A i \in 1..(n + 1) : /\ T.elements[v[i]].prev = v[After(i, n + 1)]
                                /\ T.elements[v[i]].next = v[Before(i, n + 1)]
        BY <1>5, <2>2, <2>3
    <3> QED
        BY <1>6, <3>1, <3>2 DEF Ring
  <2> QED
      BY <1>2, <1>8, <2>1, <2>4, SameElement DEF T, v, Untouched
<1> QED
    BY <1>7, <1>8

\* The slot at place j leaves the ring.
LEMMA UnlinkRing ==
    ASSUME OptsType, NEW S \in StoreType, NEW n \in Nat, NEW U, U \subseteq Slots, NEW w,
           Ring(S, w, n, U), NEW j \in 1..n
    PROVE  /\ Ring(UnlinkLRU(S, w[j]), Skip(w, j, n), n - 1, U \ {w[j]})
           /\ OnlyLinks(S, UnlinkLRU(S, w[j]))
           /\ Untouched(S, UnlinkLRU(S, w[j]), U)
<1> DEFINE pos == w[j]
           T == UnlinkLRU(S, pos)
           v == Skip(w, j, n)
           next == S.elements[pos].next
           prev == S.elements[pos].prev
<1>1. /\ pos \in U /\ pos \in Slots /\ next = w[Before(j, n)] /\ prev = w[After(j, n)]
      /\ next \in Slots /\ prev \in Slots /\ next \in U /\ prev \in U
    BY Turns DEF Ring, Lists
<1>2. Lists(v, n - 1, U \ {pos})
    BY SkipLists DEF Ring
<1>3. next = pos <=> n = 1
  <2>1. pos \in U
      BY <1>1
  <2> HIDE DEF pos
  <2> QED
      BY ONLY <2>1, Neighbours, Ring(S, w, n, U), n \in Nat
<1>4. v = [i \in 1..(n - 1) |-> IF i < j THEN w[i] ELSE w[i + 1]]
    BY DEF Skip
<1>5. CASE n = 1
  <2>1. T = PutHead(S, emptyIndex)
      BY <1>3, <1>5 DEF UnlinkLRU, PutHead
  <2>2. PutHeads(S, T, emptyIndex)
      BY <2>1, PutHeadShape, MemoryAssumption DEF Links
  <2>3. Ring(T, v, n - 1, U \ {pos})
      BY <1>2, <1>5, <2>2 DEF Ring, PutHeads
  <2> QED
      BY <2>2, <2>3 DEF PutHeads, Untouched
<1>6. CASE n # 1
  <2>1. /\ OnlyLinks(S, T)
        /\ T.head = IF S.head = pos THEN prev ELSE S.head
        /\ \A p \in Slots :
              /\ T.elements[p].next = IF p = prev THEN next ELSE S.elements[p].next
              /\ T.elements[p].prev = IF p = next THEN prev ELSE S.elements[p].prev
      BY <1>1, <1>3, <1>6, UnlinkShape
  <2> HIDE DEF pos, T, v, next, prev
  <2>2. ASSUME NEW i \in 1..(n - 1)
        PROVE  /\ T.elements[v[i]].prev = v[After(i, n - 1)]
               /\ T.elements[v[i]].next = v[Before(i, n - 1)]
    <3> DEFINE a == IF i < j THEN i ELSE i + 1
               b == IF After(i, n - 1) < j THEN After(i, n - 1) ELSE After(i, n - 1) + 1
               c == IF Before(i, n - 1) < j THEN Before(i, n - 1) ELSE Before(i, n - 1) + 1
    <3>1. /\ a \in 1..n /\ b \in 1..n /\ c \in 1..n /\ a # j
          /\ After(i, n - 1) \in 1..(n - 1) /\ Before(i, n - 1) \in 1..(n - 1)
        BY <1>6 DEF After, Before
    <3>2. b = IF a = Before(j, n) THEN After(j, n) ELSE After(a, n)
        BY <1>6 DEF After, Before
    <3>3. c = IF a = After(j, n) THEN Before(j, n) ELSE Before(a, n)
        BY <1>6 DEF After, Before
    <3>4. v[i] = w[a] /\ v[After(i, n - 1)] = w[b] /\ v[Before(i, n - 1)] = w[c]
        BY <1>4, <3>1
    <3> HIDE DEF a, b, c
    <3>5. /\ S.elements[w[a]].prev = w[After(a, n)]
          /\ S.elements[w[a]].next = w[Before(a, n)]
          /\ w[a] \in Slots
        BY <3>1 DEF Ring, Lists
    <3>6. /\ w[a] = next <=> a = Before(j, n)
          /\ w[a] = prev <=> a = After(j, n)
        BY <1>1, <3>1, Turns DEF Ring, Lists
    <3> QED
        BY ONLY <1>1, <2>1, <3>2, <3>3, <3>4, <3>5, <3>6
  <2>3. T.head = IF n - 1 = 0 THEN emptyIndex ELSE v[1]
    <3>1. S.head = w[1] /\ (w[1] = pos <=> j = 1)
        BY DEF Ring, Lists, pos
    <3>2. v[1] = IF j = 1 THEN w[2] ELSE w[1]
        BY <1>4, <1>6
    <3>3. j = 1 => prev = w[2]
        BY <1>1, <1>6 DEF After
    <3> QED
        BY <1>6, <2>1, <3>1, <3>2, <3>3
  <2>4. Ring(T, v, n - 1, U \ {pos})
      BY <1>2, <2>2, <2>3 DEF Ring
  <2>5. \A p \in Slots \ U : T.elements[p] = S.elements[p]
      BY <1>1, <2>1, SameElement
  <2> QED
      BY <2>1, <2>4, <2>5 DEF T, v, pos, Untouched
<1> QED
    BY <1>5, <1>6

\* The element at old has been copied to new.
LEMMA RepointRing ==
    ASSUME OptsType, NEW S \in StoreType, NEW n \in Nat, NEW U, U \subseteq Slots, NEW w,
           Ring(S, w, n, U), NEW old \in U, NEW new \in Slots \ U,
           NEW T \in StoreType, T.head = S.head,
           T.elements = [S.elements EXCEPT ![new] = S.elements[old]]
    PROVE  /\ Ring(RepointMoved(T, old, new), Rename(w, old, new, n), n, (U \ {old}) \cup {new})
           /\ OnlyLinks(T, RepointMoved(T, old, new))
           /\ Untouched(S, RepointMoved(T, old, new), U \cup {new})
<1> DEFINE R == RepointMoved(T, old, new)
           v == Rename(w, old, new, n)
           next == S.elements[old].next
           prev == S.elements[old].prev
<1>1. /\ next \in U /\ prev \in U /\ S.elements[next].prev = old
      /\ S.elements[prev].next = old /\ (next = old <=> prev = old)
      /\ next # new /\ prev # new /\ old # new
    BY ONLY Neighbours, Ring(S, w, n, U), n \in Nat, old \in U, new \in Slots \ U
<1>2. S.elements \in [Slots -> Element]
    BY DEF StoreType
<1>3. /\ T.elements[new].next = next /\ T.elements[new].prev = prev
      /\ \A p \in Slots \ {new} : T.elements[p] = S.elements[p]
    BY <1>2
<1> HIDE DEF R, next, prev
<1>4. /\ OnlyLinks(T, R)
      /\ R.head = IF T.head = old THEN new ELSE T.head
      /\ \A p \in Slots :
            /\ R.elements[p].next = IF p = (IF next = old THEN new ELSE prev)
                                    THEN new ELSE T.elements[p].next
            /\ R.elements[p].prev = IF p = (IF prev = old THEN new ELSE next)
                                    THEN new ELSE T.elements[p].prev
  <2>1. next \in Slots \ {new} /\ prev \in Slots \ {new} /\ old \in Slots /\ new \in Slots
      BY <1>1
  <2> QED
      BY ONLY <1>1, <1>3, <2>1, RepointShape, OptsType, T \in StoreType DEF R
<1>5. v = [i \in 1..n |-> IF w[i] = old THEN new ELSE w[i]]
    BY DEF Rename
<1>6. Lists(v, n, (U \ {old}) \cup {new})
    BY RenameLists DEF Ring
<1> HIDE DEF v
<1>7. ASSUME NEW x \in U
      PROVE  /\ S.elements[S.elements[x].next].prev = x
             /\ S.elements[S.elements[x].prev].next = x
  <2>1. /\ S.head \in U /\ S.elements[S.head].next \in U
        /\ S.elements[x].next \in U /\ S.elements[x].prev \in U
        /\ S.elements[S.elements[x].next].prev = x
        /\ S.elements[S.elements[x].prev].next = x
        /\ S.elements[x].next = x <=> n = 1
      BY ONLY Neighbours, Ring(S, w, n, U), n \in Nat, x \in U
  <2> QED
      BY <2>1
<1>8. ASSUME NEW p \in U
      PROVE  LET q == IF p = old THEN new ELSE p
                 Moved(r) == IF r = old THEN new ELSE r
             IN  /\ R.elements[q].next = Moved(S.elements[p].next)
                 /\ R.elements[q].prev = Moved(S.elements[p].prev)
  <2>1. /\ p # new /\ S.elements[S.elements[p].next].prev = p
        /\ S.elements[S.elements[p].prev].next = p
    <3>1. p # new
        BY ONLY p \in U, new \in Slots \ U
    <3> QED
        BY ONLY <3>1, <1>7
  <2>2. CASE p = old
      BY ONLY <1>1, <1>3, <1>4, <2>2, new \in Slots \ U DEF next, prev
  <2>3. CASE p # old
    <3>1. (p = prev <=> S.elements[p].next = old) /\ (p = next <=> S.elements[p].prev = old)
        BY <1>1, <2>1 DEF next, prev
    <3>2. T.elements[p] = S.elements[p] /\ p \in Slots
        BY <1>3, <2>1
    <3> QED
        BY ONLY <1>1, <1>4, <2>1, <2>3, <3>1, <3>2
  <2> QED
      BY <2>2, <2>3
<1>9. ASSUME NEW i \in 1..n
      PROVE  R.elements[v[i]].prev = v[After(i, n)] /\ R.elements[v[i]].next = v[Before(i, n)]
  <2>1. /\ S.elements[w[i]].prev = w[After(i, n)]
        /\ S.elements[w[i]].next = w[Before(i, n)]
        /\ w[i] \in U
      BY DEF Ring, Lists
  <2> QED
      BY <1>5, <1>8, <2>1, Turns
<1>10. R.head = IF n = 0 THEN emptyIndex ELSE v[1]
  <2>1. n # 0 /\ 1 \in 1..n
      BY DEF Ring, Lists
  <2>2. S.head = w[1]
      BY <2>1 DEF Ring
  <2> QED
      BY <1>4, <1>5, <2>1, <2>2
<1>11. Ring(R, v, n, (U \ {old}) \cup {new})
    BY <1>6, <1>9, <1>10 DEF Ring
<1>12. ASSUME NEW p \in Slots \ (U \cup {new}) PROVE R.elements[p] = S.elements[p]
  <2>1. R.elements[p].next = T.elements[p].next /\ R.elements[p].prev = T.elements[p].prev
      BY <1>1, <1>4
  <2>2. R.elements[p] = T.elements[p]
      BY ONLY <1>4, <2>1, SameElement, T \in StoreType, p \in Slots \ (U \cup {new})
  <2> QED
      BY <1>3, <2>2
<1> QED
    BY <1>4, <1>11, <1>12 DEF R, v, Untouched

------------------------------------------------------------------------------
(* Removing an element *)

\* One entry less costs EntryBytes less.
LEMMA OneLess ==
    ASSUME NEW n \in Nat \ {0}
    PROVE  /\ (n - 1) * EntryBytes = n * EntryBytes - EntryBytes
           /\ (n - 1) * EntryBytes \in Nat
           /\ n * EntryBytes >= EntryBytes
<1>1. EntryBytes \in Nat
    BY MemoryAssumption
<1>2. (n - 1) * EntryBytes = n * EntryBytes - EntryBytes /\ (n - 1) * EntryBytes \in Nat
    BY <1>1
<1> QED
    BY <1>1, <1>2

LEMMA Sizes ==
    ASSUME OptsType, NEW S \in StoreType
    PROVE  /\ InUse(S) \subseteq Slots /\ Slots \subseteq Links /\ emptyIndex \notin Slots
           /\ S.len \in Nat /\ ZeroElement \in [key : {NoKey}, value : {None}, cost : Nat,
                                                next : Links, prev : Links]
BY MemoryAssumption DEF OptsType, StoreType, InUse, Slots, Links, ZeroElement

\* The store without the element at pos; the last element has taken its slot.
Removed(S, R, pos) ==
    LET last == S.len - 1 IN
    /\ R \in StoreType
    /\ R.len = last /\ R.usedBytes = S.usedBytes - EntryBytes
    /\ \A k \in Keys : R.index[k] = IF k = S.elements[pos].key THEN emptyIndex
                                    ELSE IF S.index[k] = last THEN pos ELSE S.index[k]
    /\ \A p \in 0..(last - 1) : LET q == IF p = pos THEN last ELSE p IN
          /\ R.elements[p].key = S.elements[q].key
          /\ R.elements[p].value = S.elements[q].value
          /\ R.elements[p].cost = S.elements[q].cost
    /\ \A p \in Slots \ (0..(last - 1)) : R.elements[p] = ZeroElement

LEMMA RemoveAtShape ==
    ASSUME OptsType, NEW S, Whole(S), NEW pos \in InUse(S),
           NEW w, Ring(S, w, S.len, InUse(S)), NEW j \in 1..S.len, w[j] = pos
    PROVE  LET last == S.len - 1
           IN  /\ Removed(S, RemoveAt(S, pos), pos)
               /\ Ring(RemoveAt(S, pos), Rename(Skip(w, j, S.len), last, pos, last),
                       last, 0..(last - 1))
<1> DEFINE last == S.len - 1
           A == UnlinkLRU(S, pos)
           T == [UnlinkLRU(S, pos) EXCEPT
                    !.usedBytes = @ - S.elements[pos].cost,
                    !.index[S.elements[pos].key] = emptyIndex,
                    !.len = last]
           M == [T EXCEPT !.elements[pos] = T.elements[last],
                          !.index[T.elements[last].key] = pos]
           U == IF pos = last THEN T ELSE RepointMoved(M, last, pos)
           R == [U EXCEPT !.elements[last] = ZeroElement]
           v == Skip(w, j, S.len)
           key == S.elements[pos].key
<1>1. RemoveAt(S, pos) = R
    BY DEF RemoveAt
<1>2. /\ S \in StoreType /\ S.len \in Nat /\ InUse(S) \subseteq Slots /\ pos \in Slots
      /\ last \in Nat /\ last \in InUse(S) /\ last \in Slots /\ Slots \subseteq Links
      /\ emptyIndex \notin Slots /\ emptyIndex \in Links /\ ZeroElement \in Element
      /\ S.len # 0
  <2>1. S \in StoreType
      BY DEF Whole
  <2>2. ZeroElement \in Element /\ emptyIndex \in Links
      BY MemoryAssumption DEF ZeroElement, Element, Links
  <2> QED
      BY <2>1, <2>2, Sizes DEF InUse
<1>3. /\ key \in Keys /\ S.elements[pos].cost = EntryBytes /\ S.usedBytes = S.len * EntryBytes
      /\ S.usedBytes - EntryBytes \in Nat
    BY <1>2, OneLess DEF Whole, Indexed, Counted
<1>4. /\ Ring(A, v, last, InUse(S) \ {pos}) /\ OnlyLinks(S, A) /\ A \in StoreType
      /\ Untouched(S, A, InUse(S))
  <2>1. /\ Ring(UnlinkLRU(S, w[j]), Skip(w, j, S.len), S.len - 1, InUse(S) \ {w[j]})
        /\ OnlyLinks(S, UnlinkLRU(S, w[j]))
        /\ Untouched(S, UnlinkLRU(S, w[j]), InUse(S))
    <3>1. S \in StoreType /\ S.len \in Nat /\ InUse(S) \subseteq Slots
        BY <1>2
    <3> QED
        BY ONLY <3>1, UnlinkRing, OptsType, Ring(S, w, S.len, InUse(S)), j \in 1..S.len
  <2> QED
      BY <2>1 DEF OnlyLinks
<1> HIDE DEF A, v, last
<1>5. /\ T.elements = A.elements /\ T.head = A.head /\ T.len = last
      /\ T.index = [S.index EXCEPT ![key] = emptyIndex]
      /\ T.usedBytes = S.usedBytes - EntryBytes
      /\ T \in StoreType
  <2>1. A \in [index : [Keys -> Links], elements : [Slots -> Element],
               head : Links, len : 0..opts.cap, usedBytes : Nat]
      BY <1>4 DEF StoreType
  <2>2. A.index = S.index /\ A.usedBytes = S.usedBytes
      BY <1>4 DEF OnlyLinks
  <2> DEFINE bytes == A.usedBytes - S.elements[pos].cost
             index == [A.index EXCEPT ![key] = emptyIndex]
  <2>3. bytes \in Nat /\ index \in [Keys -> Links] /\ last \in 0..opts.cap
    <3>1. bytes \in Nat
        BY ONLY <1>3, <2>2
    <3>2. index \in [Keys -> Links]
        BY ONLY <1>2, <1>3, <2>1
    <3>3. S.len \in 0..opts.cap /\ opts.cap \in Nat
        BY <1>2 DEF StoreType, OptsType
    <3> QED
        BY ONLY <1>2, <3>1, <3>2, <3>3 DEF last
  <2>4. T = [A EXCEPT !.usedBytes = bytes, !.index = index, !.len = last]
      BY DEF A
  <2> HIDE DEF bytes, index
  <2>5. /\ T.elements = A.elements /\ T.head = A.head /\ T.len = last
        /\ T.index = index /\ T.usedBytes = bytes
        /\ T \in StoreType
      BY ONLY <2>1, <2>3, <2>4 DEF StoreType
  <2> QED
      BY <1>3, <2>2, <2>5 DEF bytes, index
<1> HIDE DEF T
<1>6. /\ \A p \in Slots : /\ T.elements[p].key = S.elements[p].key
                          /\ T.elements[p].value = S.elements[p].value
                          /\ T.elements[p].cost = S.elements[p].cost
      /\ \A p \in Slots \ InUse(S) : T.elements[p] = ZeroElement
      /\ Ring(T, v, last, InUse(S) \ {pos})
  <2>1. \A p \in Slots \ InUse(S) : T.elements[p] = ZeroElement
      BY <1>4, <1>5 DEF Untouched, Whole, Indexed
  <2>2. Ring(T, v, last, InUse(S) \ {pos})
      BY ONLY <1>2, <1>4, <1>5, RingKept
  <2> QED
      BY ONLY <1>4, <1>5, <2>1, <2>2 DEF OnlyLinks
\* Both cases end with a store U in which the last slot is no longer linked.
<1>7. /\ U \in StoreType /\ U.len = last /\ U.usedBytes = S.usedBytes - EntryBytes
      /\ \A k \in Keys : U.index[k] = IF k = key THEN emptyIndex
                                      ELSE IF S.index[k] = last THEN pos ELSE S.index[k]
      /\ \A p \in 0..(last - 1) : LET q == IF p = pos THEN last ELSE p IN
            /\ U.elements[p].key = S.elements[q].key
            /\ U.elements[p].value = S.elements[q].value
            /\ U.elements[p].cost = S.elements[q].cost
      /\ \A p \in Slots \ InUse(S) : U.elements[p] = ZeroElement
      /\ Ring(U, Rename(v, last, pos, last), last, 0..(last - 1))
  <2>1. CASE pos = last
    <3>1. U = T
        BY <2>1 DEF U
    <3>2. \A k \in Keys : S.index[k] = last => k = key
        BY <1>2, <2>1 DEF Whole, Indexed
    <3>3. InUse(S) \ {pos} = 0..(last - 1) /\ 0..(last - 1) \subseteq Slots
        BY <1>2, <2>1 DEF InUse, last
    <3>4. Rename(v, last, pos, last) = v
      <4>1. v = [i \in 1..last |-> v[i]]
          BY DEF v, Skip, last
      <4>2. \A i \in 1..last : (IF v[i] = last THEN pos ELSE v[i]) = v[i]
          BY <2>1
      <4> QED
          BY ONLY <4>1, <4>2 DEF Rename
    <3>5. \A k \in Keys : T.index[k] = IF k = key THEN emptyIndex ELSE S.index[k]
        BY <1>2, <1>5 DEF StoreType
    <3> QED
        BY ONLY <1>2, <1>5, <1>6, <2>1, <3>1, <3>2, <3>3, <3>4, <3>5
  <2>2. CASE pos # last
    <3> DEFINE moved == T.elements[last].key
    <3>1. U = RepointMoved(M, last, pos)
        BY <2>2 DEF U
    <3>2. moved \in Keys /\ moved # key /\ S.index[moved] = last /\ moved = S.elements[last].key
      <4>1. S.elements[last].key \in Keys /\ S.index[S.elements[last].key] = last
          BY <1>2 DEF Whole, Indexed
      <4>2. S.index[key] = pos
          BY <1>2 DEF Whole, Indexed
      <4> QED
          BY ONLY <1>2, <1>6, <2>2, <4>1, <4>2
    <3>3. /\ M \in StoreType /\ M.head = T.head /\ M.len = last
          /\ M.usedBytes = S.usedBytes - EntryBytes
          /\ M.elements = [T.elements EXCEPT ![pos] = T.elements[last]]
          /\ M.index = [T.index EXCEPT ![moved] = pos]
        BY <1>2, <1>5, <3>2 DEF StoreType
    <3> HIDE DEF M, moved
    <3>4. /\ last \in InUse(S) \ {pos} /\ pos \in Slots \ (InUse(S) \ {pos})
          /\ InUse(S) \ {pos} \subseteq Slots
          /\ ((InUse(S) \ {pos}) \ {last}) \cup {pos} = 0..(last - 1)
          /\ (InUse(S) \ {pos}) \cup {pos} = InUse(S)
        BY <1>2, <2>2 DEF InUse, last
    <3>5. /\ Ring(U, Rename(v, last, pos, last), last, ((InUse(S) \ {pos}) \ {last}) \cup {pos})
          /\ OnlyLinks(M, U)
          /\ Untouched(T, U, (InUse(S) \ {pos}) \cup {pos})
        BY ONLY <1>2, <1>5, <1>6, <3>1, <3>3, <3>4, RepointRing, OptsType
    <3>6. \A k \in Keys : U.index[k] = IF k = key THEN emptyIndex
                                      ELSE IF S.index[k] = last THEN pos ELSE S.index[k]
      <4>1. U.index = M.index
          BY <3>5 DEF OnlyLinks
      <4>2. \A k \in Keys : M.index[k] = IF k = moved THEN pos ELSE IF k = key THEN emptyIndex
                                         ELSE S.index[k]
          BY <1>2, <1>5, <3>3 DEF StoreType
      <4>3. \A k \in Keys : S.index[k] = last => k = moved
          BY <1>2, <3>2 DEF Whole, Indexed
      <4> QED
          BY ONLY <3>2, <4>1, <4>2, <4>3
    <3>7. \A p \in 0..(last - 1) : LET q == IF p = pos THEN last ELSE p IN
            /\ U.elements[p].key = S.elements[q].key
            /\ U.elements[p].value = S.elements[q].value
            /\ U.elements[p].cost = S.elements[q].cost
      <4>1. 0..(last - 1) \subseteq Slots
          BY <3>4
      <4>2. T.elements \in [Slots -> Element]
          BY <1>5 DEF StoreType
      <4>3. \A p \in Slots : M.elements[p] = T.elements[IF p = pos THEN last ELSE p]
          BY ONLY <1>2, <3>3, <4>2
      <4> QED
          BY ONLY <1>2, <1>6, <3>5, <4>1, <4>3 DEF OnlyLinks
    <3>8. \A p \in Slots \ InUse(S) : U.elements[p] = ZeroElement
        BY ONLY <1>6, <3>4, <3>5 DEF Untouched
    <3>9. U \in StoreType /\ U.len = last /\ U.usedBytes = S.usedBytes - EntryBytes
        BY ONLY <3>3, <3>5 DEF OnlyLinks
    <3> QED
        BY ONLY <3>4, <3>5, <3>6, <3>7, <3>8, <3>9
  <2> QED
      BY <2>1, <2>2
<1> HIDE DEF U
<1>8. /\ R \in StoreType /\ R.index = U.index /\ R.len = U.len /\ R.head = U.head
      /\ R.usedBytes = U.usedBytes
      /\ R.elements = [U.elements EXCEPT ![last] = ZeroElement]
    BY <1>2, <1>7 DEF StoreType
<1> HIDE DEF R
<1>9. /\ \A p \in Slots \ {last} : R.elements[p] = U.elements[p]
      /\ R.elements[last] = ZeroElement
    BY <1>2, <1>7, <1>8 DEF StoreType
<1>10. 0..(last - 1) \subseteq Slots \ {last} /\ InUse(S) = 0..(last - 1) \cup {last}
    BY <1>2 DEF InUse, last
<1>11. Ring(R, Rename(v, last, pos, last), last, 0..(last - 1))
  <2>1. \A p \in 0..(last - 1) : /\ R.elements[p].next = U.elements[p].next
                                  /\ R.elements[p].prev = U.elements[p].prev
      BY ONLY <1>9, <1>10
  <2>2. last \in Nat /\ R.head = U.head
      BY ONLY <1>2, <1>8
  <2>3. Ring(U, Rename(v, last, pos, last), last, 0..(last - 1))
      BY ONLY <1>7
  <2> HIDE DEF v, last
  <2> QED
      BY ONLY <2>1, <2>2, <2>3, RingKept
<1>12. Removed(S, R, pos)
  <2>1. \A p \in Slots \ (0..(last - 1)) : R.elements[p] = ZeroElement
      BY ONLY <1>7, <1>9, <1>10
  <2> QED
      BY ONLY <1>7, <1>8, <1>9, <1>10, <2>1 DEF Removed, last, key
<1> QED
    BY <1>1, <1>11, <1>12 DEF v, last

LEMMA RemoveAtWhole ==
    ASSUME OptsType, NEW S, Whole(S), NEW pos \in InUse(S)
    PROVE  /\ Whole(RemoveAt(S, pos)) /\ Removed(S, RemoveAt(S, pos), pos)
           /\ WithinBytes(S) => WithinBytes(RemoveAt(S, pos))
<1> DEFINE R == RemoveAt(S, pos)
           last == S.len - 1
<1>1. PICK w : Ring(S, w, S.len, InUse(S))
    BY DEF Whole, Linked
<1>2. PICK j \in 1..S.len : w[j] = pos
    BY <1>1 DEF Ring, Lists
<1>3. /\ Removed(S, R, pos)
      /\ Ring(R, Rename(Skip(w, j, S.len), last, pos, last), last, 0..(last - 1))
    BY <1>1, <1>2, RemoveAtShape
<1>4. /\ S \in StoreType /\ S.len \in Nat /\ S.len # 0 /\ last \in Nat
      /\ InUse(S) \subseteq Slots /\ emptyIndex \notin Slots /\ last \in InUse(S)
      /\ InUse(S) = 0..(last - 1) \cup {last}
  <2>1. S \in StoreType
      BY DEF Whole
  <2> QED
      BY <2>1, Sizes DEF InUse
<1> HIDE DEF R, last
<1>5. R.len = last /\ InUse(R) = 0..(last - 1)
    BY <1>3 DEF Removed, InUse, last
<1>6. Linked(R)
    BY <1>3, <1>5 DEF Linked
<1>7. /\ \A p \in InUse(S) : S.elements[p].cost = EntryBytes
      /\ S.usedBytes = S.len * EntryBytes
      /\ R.usedBytes = S.usedBytes - EntryBytes
      /\ \A p \in InUse(R) : R.elements[p].cost = S.elements[IF p = pos THEN last ELSE p].cost
    BY <1>3, <1>5 DEF Whole, Counted, Removed, last
<1>8. R.usedBytes = last * EntryBytes
    BY ONLY <1>4, <1>7, OneLess DEF last
<1>9. Counted(R)
    BY ONLY <1>4, <1>5, <1>7, <1>8 DEF Counted
<1>10. Indexed(R)
  <2>1. /\ \A k \in Keys : R.index[k] = IF k = S.elements[pos].key THEN emptyIndex
                                        ELSE IF S.index[k] = last THEN pos ELSE S.index[k]
        /\ \A p \in InUse(R) :
              R.elements[p].key = S.elements[IF p = pos THEN last ELSE p].key
        /\ \A p \in Slots \ InUse(R) : R.elements[p] = ZeroElement
      BY <1>3, <1>5 DEF Removed, last
  <2>2. /\ \A k \in Keys : S.index[k] # emptyIndex =>
              S.index[k] \in InUse(S) /\ S.elements[S.index[k]].key = k
        /\ \A p \in InUse(S) : S.elements[p].key \in Keys /\ S.index[S.elements[p].key] = p
      BY DEF Whole, Indexed
  <2>3. ASSUME NEW k \in Keys, R.index[k] # emptyIndex
        PROVE  R.index[k] \in InUse(R) /\ R.elements[R.index[k]].key = k
      BY ONLY <1>4, <1>5, <2>1, <2>2, <2>3, pos \in InUse(S)
  <2>4. ASSUME NEW p \in InUse(R)
        PROVE  R.elements[p].key \in Keys /\ R.index[R.elements[p].key] = p
    <3> DEFINE q == IF p = pos THEN last ELSE p
    <3>1. q \in InUse(S) /\ q # pos
        BY <1>4, <1>5
    <3>2. p = IF q = last THEN pos ELSE q
        BY <1>4, <1>5
    <3> HIDE DEF q
    <3>3. R.elements[p].key = S.elements[q].key
        BY <2>1 DEF q
    <3> QED
        BY ONLY <2>1, <2>2, <3>1, <3>2, <3>3, pos \in InUse(S)
  <2> QED
      BY <2>1, <2>3, <2>4 DEF Indexed
<1>11. WithinBytes(S) => WithinBytes(R)
  <2> SUFFICES ASSUME WithinBytes(S), opts.maxBytes > 0
               PROVE  R.usedBytes <= opts.maxBytes \/ R.len = 1
      BY DEF WithinBytes
  <2>1. EntryBytes \in Nat /\ opts.maxBytes \in Nat
      BY MemoryAssumption DEF OptsType
  <2>2. CASE S.len = 1
    <3>1. R.usedBytes = 0
        BY ONLY <1>7, <2>1, <2>2
    <3> QED
        BY ONLY <2>1, <3>1
  <2>3. CASE S.len # 1
    <3>1. S.usedBytes <= opts.maxBytes
        BY <2>3 DEF WithinBytes
    <3>2. S.usedBytes \in Nat
        BY <1>4 DEF StoreType
    <3> QED
        BY ONLY <1>7, <2>1, <3>1, <3>2
  <2> QED
      BY <2>2, <2>3
<1>12. R \in StoreType
    BY <1>3 DEF Removed
<1> QED
    BY <1>3, <1>6, <1>9, <1>10, <1>11, <1>12 DEF Whole, R

------------------------------------------------------------------------------
(* Moving an element to the front *)

LEMMA LinksWhole ==
    ASSUME OptsType, NEW S, Whole(S), NEW T, OnlyLinks(S, T), Untouched(S, T, InUse(S)),
           NEW w, Ring(T, w, S.len, InUse(S))
    PROVE  Whole(T) /\ (WithinBytes(S) => WithinBytes(T))
<1>1. InUse(T) = InUse(S) /\ T.len = S.len
    BY DEF OnlyLinks, InUse
<1>2. Linked(T)
    BY <1>1 DEF Linked
<1>3. S \in StoreType /\ InUse(S) \subseteq Slots
    BY Sizes DEF Whole
<1>4. Indexed(T)
    BY <1>1, <1>3 DEF Whole, Indexed, OnlyLinks, Untouched
<1>5. Counted(T)
    BY <1>1, <1>3 DEF Whole, Counted, OnlyLinks
<1> QED
    BY <1>1, <1>2, <1>4, <1>5 DEF Whole, OnlyLinks, WithinBytes

LEMMA MoveToFrontShape ==
    ASSUME OptsType, NEW S, Whole(S), NEW pos \in InUse(S),
           NEW w, Ring(S, w, S.len, InUse(S)), NEW j \in 1..S.len, w[j] = pos
    PROVE  /\ Ring(MoveToFront(S, pos), Prepend(Skip(w, j, S.len), pos, S.len - 1),
                   S.len, InUse(S))
           /\ OnlyLinks(S, MoveToFront(S, pos))
           /\ Untouched(S, MoveToFront(S, pos), InUse(S))
<1> DEFINE n == S.len
           v == Skip(w, j, n)
           A == UnlinkLRU(S, pos)
           B == LinkFront(A, pos)
<1>1. /\ S \in StoreType /\ n \in Nat /\ InUse(S) \subseteq Slots /\ pos \in Slots
      /\ emptyIndex \notin Slots /\ n # 0 /\ n - 1 \in Nat
  <2>1. S \in StoreType
      BY DEF Whole
  <2> QED
      BY <2>1, Sizes DEF InUse
<1>2. S.head = w[1] /\ 1 \in 1..n /\ S.head \in InUse(S)
    BY <1>1 DEF Ring, Lists
<1>3. CASE S.head = pos
  <2>1. j = 1
    <3>1. \A i \in 1..n : w[i] = w[j] => i = j
        BY DEF Ring, Lists
    <3> QED
        BY ONLY <1>2, <1>3, <3>1, w[j] = pos
  <2>2. w = [i \in 1..n |-> w[i]]
      BY DEF Ring, Lists
  <2>3. Prepend(v, pos, n - 1) = w
    <3>1. \A i \in 1..n : i # 1 => i - 1 \in 1..(n - 1) /\ ~(i - 1 < 1) /\ i - 1 + 1 = i
        BY <1>1
    <3>2. n - 1 + 1 = n
        BY <1>1
    <3>3. v = [i \in 1..(n - 1) |-> IF i < 1 THEN w[i] ELSE w[i + 1]]
        BY <2>1 DEF Skip
    <3> HIDE DEF v, n
    <3>4. \A i \in 1..n : (IF i = 1 THEN pos ELSE v[i - 1]) = w[i]
        BY ONLY <1>2, <1>3, <3>1, <3>3
    <3> QED
        BY ONLY <2>2, <3>2, <3>4 DEF Prepend
  <2>4. MoveToFront(S, pos) = S
      BY <1>3 DEF MoveToFront
  <2> QED
      BY <1>1, <2>3, <2>4 DEF OnlyLinks, Untouched
<1>4. CASE S.head # pos
  <2>1. MoveToFront(S, pos) = B
      BY <1>1, <1>2, <1>4 DEF MoveToFront
  <2>2. Ring(A, v, n - 1, InUse(S) \ {pos}) /\ OnlyLinks(S, A) /\ Untouched(S, A, InUse(S))
    <3>1. /\ Ring(UnlinkLRU(S, w[j]), Skip(w, j, S.len), S.len - 1, InUse(S) \ {w[j]})
          /\ OnlyLinks(S, UnlinkLRU(S, w[j]))
          /\ Untouched(S, UnlinkLRU(S, w[j]), InUse(S))
        BY ONLY <1>1, UnlinkRing, OptsType, Ring(S, w, S.len, InUse(S)), j \in 1..S.len
    <3> QED
        BY <3>1
  <2> HIDE DEF A, v, n
  <2>3. A \in StoreType
      BY ONLY <2>2 DEF OnlyLinks
  <2>4. /\ InUse(S) \ {pos} \subseteq Slots /\ pos \notin InUse(S) \ {pos}
        /\ (InUse(S) \ {pos}) \cup {pos} = InUse(S) /\ n - 1 + 1 = n
      BY <1>1
  <2>5. /\ Ring(B, Prepend(v, pos, n - 1), n - 1 + 1, (InUse(S) \ {pos}) \cup {pos})
        /\ OnlyLinks(A, B)
        /\ Untouched(A, B, (InUse(S) \ {pos}) \cup {pos})
      BY ONLY <1>1, <2>2, <2>3, <2>4, FrontRing, OptsType
  <2>6. OnlyLinks(S, B) /\ Untouched(S, B, InUse(S))
      BY ONLY <2>2, <2>4, <2>5, LinksOnly DEF Untouched
  <2> QED
      BY <2>1, <2>4, <2>5, <2>6 DEF n, v
<1> QED
    BY <1>3, <1>4

LEMMA MoveToFrontWhole ==
    ASSUME OptsType, NEW S, Whole(S), NEW pos \in InUse(S)
    PROVE  /\ Whole(MoveToFront(S, pos)) /\ OnlyLinks(S, MoveToFront(S, pos))
           /\ WithinBytes(S) => WithinBytes(MoveToFront(S, pos))
<1>1. PICK w : Ring(S, w, S.len, InUse(S))
    BY DEF Whole, Linked
<1>2. PICK j \in 1..S.len : w[j] = pos
    BY <1>1 DEF Ring, Lists
<1> QED
    BY <1>1, <1>2, MoveToFrontShape, LinksWhole

------------------------------------------------------------------------------
(* Loops *)

LEMMA Least ==
    ASSUME NEW T, T \subseteq Nat, T # {}
    PROVE  \E n \in T : \A m \in T : n <= m
<1>1. PICK n \in T : \A m \in T : ~(<<m, n>> \in OpToRel(<, Nat))
    BY NatLessThanWellFounded, WFMin, Zenon
<1>2. \A m \in T : ~(m < n)
    BY <1>1 DEF OpToRel
<1> QED
    BY <1>2

\* What holds before the first turn and after every other one: Done is the set of
\* the turns after which it does.
LEMMA TurnByTurn ==
    ASSUME NEW m \in Nat, NEW Done, 0 \in Done,
           \A n \in 1..m : n - 1 \in Done => n \in Done
    PROVE  \A n \in 0..m : n \in Done
<1> DEFINE T == {n \in Nat : n <= m /\ n \notin Done}
<1> SUFFICES ASSUME T # {} PROVE FALSE
    OBVIOUS
<1>1. PICK n \in T : \A k \in T : n <= k
    BY Least
<1>2. n # 0 /\ n \in 1..m /\ n - 1 \in Nat /\ n - 1 <= m
    BY <1>1
<1>3. n - 1 \in Done
    BY <1>1, <1>2
<1> QED
    BY <1>1, <1>2, <1>3

\* f applied again and again.
Applied(g, f, x, m) == g = [n \in 0..m |-> IF n = 0 THEN x ELSE f[g[n - 1]]]

LEMMA Repeated ==
    ASSUME NEW f, NEW x, NEW m \in Nat
    PROVE  \E g : Applied(g, f, x, m)
<1> DEFINE Done == {k \in 0..m : \E g : Applied(g, f, x, k)}
<1>1. 0 \in Done
  <2>1. Applied([n \in 0..0 |-> x], f, x, 0)
      BY DEF Applied
  <2> QED
      BY <2>1
<1>2. ASSUME NEW k \in 1..m, k - 1 \in Done PROVE k \in Done
  <2>1. PICK g : Applied(g, f, x, k - 1)
      BY <1>2
  <2> DEFINE h == [n \in 0..k |-> IF n = 0 THEN x ELSE f[g[n - 1]]]
  <2>2. \A n \in 0..(k - 1) : h[n] = g[n]
      BY <2>1 DEF Applied
  <2>3. Applied(h, f, x, k)
    <3>1. \A n \in 0..k : n # 0 => h[n - 1] = g[n - 1]
        BY <2>2
    <3>2. h = [n \in 0..k |-> IF n = 0 THEN x ELSE f[g[n - 1]]]
        OBVIOUS
    <3> HIDE DEF h
    <3>3. \A n \in 0..k : (IF n = 0 THEN x ELSE f[g[n - 1]]) = (IF n = 0 THEN x ELSE f[h[n - 1]])
        BY <3>1
    <3> QED
        BY <3>2, <3>3 DEF Applied
  <2>4. k \in 0..m
      OBVIOUS
  <2> HIDE DEF h
  <2> QED
      BY <2>3, <2>4
<1>3. \A k \in 0..m : k \in Done
  <2> HIDE DEF Done
  <2> QED
      BY ONLY <1>1, <1>2, TurnByTurn, m \in Nat
<1>4. m \in Done
    BY <1>3
<1> QED
    BY <1>4

WholeStores == {S \in StoreType : Whole(S)}

RoomTurn(S) == IF Full(S) THEN RemoveAt(S, LRU(S)) ELSE S

RoomLoop(g, S) ==
    g = [n \in 0..opts.cap |-> IF n = 0 THEN S
                               ELSE IF Full(g[n - 1]) THEN RemoveAt(g[n - 1], LRU(g[n - 1]))
                               ELSE g[n - 1]]

LEMMA LRUInUse ==
    ASSUME OptsType, NEW S, Whole(S), S.len # 0
    PROVE  /\ S.head \in InUse(S) /\ LRU(S) \in InUse(S)
           /\ \A w : Ring(S, w, S.len, InUse(S)) => LRU(S) = w[S.len]
<1>1. S \in StoreType /\ S.len \in Nat
    BY Sizes DEF Whole
<1>2. ASSUME NEW w, Ring(S, w, S.len, InUse(S))
      PROVE  LRU(S) = w[S.len] /\ LRU(S) \in InUse(S) /\ S.head \in InUse(S)
  <2>1. 1 \in 1..S.len /\ S.len \in 1..S.len /\ Before(1, S.len) = S.len
      BY <1>1 DEF Before
  <2>2. S.head = w[1] /\ S.elements[w[1]].next = w[S.len]
      BY <1>2, <2>1 DEF Ring
  <2> QED
      BY <1>2, <2>1, <2>2 DEF Ring, Lists, LRU
<1> QED
    BY <1>2 DEF Whole, Linked

LEMMA RoomTurnWhole ==
    ASSUME OptsType, NEW S \in WholeStores
    PROVE  RoomTurn(S) \in WholeStores /\ (Full(S) => S.len # 0)
<1>1. Full(S) => S.len # 0
    BY DEF Full, OptsType
<1> QED
    BY <1>1, LRUInUse, RemoveAtWhole DEF RoomTurn, WholeStores, Whole

\* The turns of the loop in Set.
LEMMA RoomTurns ==
    ASSUME OptsType, NEW S \in WholeStores
    PROVE  \E after : /\ MakeRoom(S) = after[opts.cap] /\ after[0] = S
                      /\ \A n \in 0..opts.cap : after[n] \in WholeStores
                      /\ \A n \in 1..opts.cap : n - 1 \in 0..opts.cap
                                                /\ after[n] = RoomTurn(after[n - 1])
<1> DEFINE f == [T \in WholeStores |-> RoomTurn(T)]
           after[n \in 0..opts.cap] ==
               IF n = 0 THEN S
               ELSE IF Full(after[n - 1]) THEN RemoveAt(after[n - 1], LRU(after[n - 1]))
                    ELSE after[n - 1]
<1>1. opts.cap \in Nat
    BY DEF OptsType
<1>2. PICK g : Applied(g, f, S, opts.cap)
    BY ONLY <1>1, Repeated
<1>3. g[0] = S /\ \A n \in 1..opts.cap : n - 1 \in 0..opts.cap /\ g[n] = f[g[n - 1]]
  <2> HIDE DEF f
  <2> QED
      BY ONLY <1>1, <1>2 DEF Applied
<1>4. \A n \in 0..opts.cap : g[n] \in WholeStores
  <2> DEFINE Done == {n \in 0..opts.cap : g[n] \in WholeStores}
  <2>1. 0 \in Done
      BY <1>1, <1>3
  <2>2. ASSUME NEW n \in 1..opts.cap, n - 1 \in Done PROVE n \in Done
    <3>1. g[n] = RoomTurn(g[n - 1])
        BY <1>3, <2>2
    <3>2. n \in 0..opts.cap
        BY <1>1
    <3> QED
        BY <2>2, <3>1, <3>2, RoomTurnWhole
  <2> HIDE DEF Done
  <2>3. \A n \in 0..opts.cap : n \in Done
      BY ONLY <1>1, <2>1, <2>2, TurnByTurn
  <2> QED
      BY <2>3 DEF Done
<1>5. RoomLoop(g, S)
  <2>1. \A n \in 0..opts.cap : n # 0 => f[g[n - 1]] = RoomTurn(g[n - 1])
      BY <1>1, <1>3, <1>4
  <2> HIDE DEF f
  <2> QED
      BY <1>2, <2>1 DEF Applied, RoomLoop, RoomTurn
<1>6. RoomLoop(after, S)
  <2>1. after = CHOOSE h : h = [n \in 0..opts.cap |->
                                 IF n = 0 THEN S
                                 ELSE IF Full(h[n - 1]) THEN RemoveAt(h[n - 1], LRU(h[n - 1]))
                                 ELSE h[n - 1]]
      BY DEF after
  <2> HIDE DEF after
  <2> QED
      BY <1>5, <2>1 DEF RoomLoop
<1>7. MakeRoom(S) = after[opts.cap]
    BY DEF MakeRoom
<1> HIDE DEF after
<1>8. after[0] = S /\ \A n \in 1..opts.cap : n - 1 \in 0..opts.cap
                                              /\ after[n] = RoomTurn(after[n - 1])
    BY <1>1, <1>6 DEF RoomLoop, RoomTurn
<1>9. \A n \in 0..opts.cap : after[n] \in WholeStores
  <2> DEFINE Done == {n \in 0..opts.cap : after[n] \in WholeStores}
  <2>1. 0 \in Done
      BY <1>1, <1>8
  <2>2. ASSUME NEW n \in 1..opts.cap, n - 1 \in Done PROVE n \in Done
      BY <1>8, <2>2, RoomTurnWhole
  <2> HIDE DEF Done
  <2>3. \A n \in 0..opts.cap : n \in Done
      BY ONLY <1>1, <2>1, <2>2, TurnByTurn
  <2> QED
      BY <2>3 DEF Done
<1> QED
    BY <1>7, <1>8, <1>9

\* enforceBytes changes nothing where the limit holds.
LEMMA NothingToEnforce ==
    ASSUME OptsType, NEW S \in StoreType, WithinBytes(S)
    PROVE  EnforceBytes(S) = S
<1> DEFINE Over(T) == opts.maxBytes > 0 /\ T.usedBytes > opts.maxBytes /\ T.len > 1
           after[n \in 0..opts.cap] ==
               IF n = 0 THEN S
               ELSE IF Over(after[n - 1]) THEN RemoveAt(after[n - 1], LRU(after[n - 1]))
                    ELSE after[n - 1]
           Loop(g) == g = [n \in 0..opts.cap |->
                             IF n = 0 THEN S
                             ELSE IF Over(g[n - 1]) THEN RemoveAt(g[n - 1], LRU(g[n - 1]))
                             ELSE g[n - 1]]
<1>1. opts.cap \in Nat /\ opts.maxBytes \in Nat /\ S.usedBytes \in Nat /\ S.len \in Nat
    BY DEF OptsType, StoreType
<1>2. ~Over(S)
    BY <1>1 DEF WithinBytes
<1>3. Loop([n \in 0..opts.cap |-> S])
  <2> DEFINE g == [n \in 0..opts.cap |-> S]
  <2>1. \A n \in 0..opts.cap : n # 0 => g[n - 1] = S
      BY <1>1
  <2>2. \A n \in 0..opts.cap :
           S = IF n = 0 THEN S
               ELSE IF Over(g[n - 1]) THEN RemoveAt(g[n - 1], LRU(g[n - 1])) ELSE g[n - 1]
      BY <1>2, <2>1
  <2> HIDE DEF Over
  <2> QED
      BY <2>2
<1>4. Loop(after)
  <2>1. after = CHOOSE h : Loop(h)
      BY DEF after
  <2> HIDE DEF after, Loop
  <2> QED
      BY <1>3, <2>1
<1>5. EnforceBytes(S) = after[opts.cap]
    BY DEF EnforceBytes
<1> HIDE DEF after, Over
<1>6. after[0] = S /\ \A n \in 1..opts.cap :
         after[n] = IF Over(after[n - 1]) THEN RemoveAt(after[n - 1], LRU(after[n - 1]))
                    ELSE after[n - 1]
    BY <1>1, <1>4
<1> DEFINE Done == {n \in 0..opts.cap : after[n] = S}
<1>7. \A n \in 0..opts.cap : n \in Done
  <2>1. 0 \in Done
      BY <1>1, <1>6
  <2>2. ASSUME NEW n \in 1..opts.cap, n - 1 \in Done PROVE n \in Done
      BY <1>1, <1>2, <1>6, <2>2
  <2> HIDE DEF Done
  <2> QED
      BY ONLY <1>1, <2>1, <2>2, TurnByTurn
<1> QED
    BY <1>1, <1>5, <1>7

\* The scan of DeleteByTag: a store and the position it has come to.
Scans == [S : WholeStores, pos : Nat]

TagTurn(a, tag) ==
    IF a.pos >= a.S.len THEN a
    ELSE IF tag \in TagsOf(a.S.elements[a.pos].value) THEN [a EXCEPT !.S = RemoveAt(a.S, a.pos)]
    ELSE [a EXCEPT !.pos = @ + 1]

TagLoop(g, S, tag) ==
    g = [n \in 0..opts.cap |-> IF n = 0 THEN [S |-> S, pos |-> 0] ELSE TagTurn(g[n - 1], tag)]

LEMMA TagTurnWhole ==
    ASSUME OptsType, NEW a \in Scans, NEW tag
    PROVE  /\ TagTurn(a, tag) \in Scans
           /\ WithinBytes(a.S) => WithinBytes(TagTurn(a, tag).S)
<1>1. a.S \in StoreType /\ Whole(a.S) /\ a.pos \in Nat /\ a.S.len \in Nat
    BY Sizes DEF Scans, WholeStores
<1>2. CASE a.pos >= a.S.len
    BY <1>2 DEF TagTurn
<1>3. CASE a.pos < a.S.len
  <2>1. a.pos \in InUse(a.S)
      BY <1>1, <1>3 DEF InUse
  <2>2. /\ RemoveAt(a.S, a.pos) \in WholeStores
        /\ WithinBytes(a.S) => WithinBytes(RemoveAt(a.S, a.pos))
      BY <1>1, <2>1, RemoveAtWhole DEF WholeStores, Whole
  <2>3. ~(a.pos >= a.S.len)
      BY <1>1, <1>3
  <2>4. CASE tag \in TagsOf(a.S.elements[a.pos].value)
    <3>1. TagTurn(a, tag) = [a EXCEPT !.S = RemoveAt(a.S, a.pos)]
        BY ONLY <2>3, <2>4 DEF TagTurn
    <3> QED
        BY <2>2, <3>1 DEF Scans
  <2>5. CASE tag \notin TagsOf(a.S.elements[a.pos].value)
    <3>1. TagTurn(a, tag) = [a EXCEPT !.pos = a.pos + 1]
        BY ONLY <2>3, <2>5 DEF TagTurn
    <3> QED
        BY <1>1, <3>1 DEF Scans
  <2> QED
      BY <2>4, <2>5
<1> QED
    BY <1>1, <1>2, <1>3

LEMMA TagTurns ==
    ASSUME OptsType, NEW S \in WholeStores, NEW tag
    PROVE  \E after : /\ RemoveTagged(S, tag) = after[opts.cap].S
                      /\ after[0] = [S |-> S, pos |-> 0]
                      /\ \A n \in 0..opts.cap : after[n] \in Scans
                      /\ \A n \in 1..opts.cap : n - 1 \in 0..opts.cap
                                                /\ after[n] = TagTurn(after[n - 1], tag)
<1> DEFINE start == [S |-> S, pos |-> 0]
           f == [a \in Scans |-> TagTurn(a, tag)]
           turn(a) == IF a.pos >= a.S.len THEN a
                      ELSE IF tag \in TagsOf(a.S.elements[a.pos].value)
                      THEN [a EXCEPT !.S = RemoveAt(a.S, a.pos)]
                      ELSE [a EXCEPT !.pos = @ + 1]
           after[n \in 0..opts.cap] ==
               IF n = 0 THEN [S |-> S, pos |-> 0] ELSE turn(after[n - 1])
<1>1. opts.cap \in Nat /\ start \in Scans
    BY DEF OptsType, Scans
<1>2. PICK g : Applied(g, f, start, opts.cap)
    BY ONLY <1>1, Repeated
<1>3. g[0] = start /\ \A n \in 1..opts.cap : n - 1 \in 0..opts.cap /\ g[n] = f[g[n - 1]]
  <2> HIDE DEF f, start
  <2> QED
      BY ONLY <1>1, <1>2 DEF Applied
<1>4. \A n \in 0..opts.cap : g[n] \in Scans
  <2> DEFINE Done == {n \in 0..opts.cap : g[n] \in Scans}
  <2> HIDE DEF start
  <2>1. 0 \in Done
      BY <1>1, <1>3
  <2>2. ASSUME NEW n \in 1..opts.cap, n - 1 \in Done PROVE n \in Done
    <3>1. g[n] = TagTurn(g[n - 1], tag)
        BY <1>3, <2>2
    <3>2. n \in 0..opts.cap
        BY <1>1
    <3> QED
        BY <2>2, <3>1, <3>2, TagTurnWhole
  <2> HIDE DEF Done
  <2>3. \A n \in 0..opts.cap : n \in Done
      BY ONLY <1>1, <2>1, <2>2, TurnByTurn
  <2> QED
      BY <2>3 DEF Done
<1>5. TagLoop(g, S, tag)
  <2>1. \A n \in 0..opts.cap : n # 0 => f[g[n - 1]] = TagTurn(g[n - 1], tag)
      BY <1>1, <1>3, <1>4
  <2> HIDE DEF f
  <2> QED
      BY <1>2, <2>1 DEF Applied, TagLoop
<1>6. TagLoop(after, S, tag)
  <2>1. after = CHOOSE h : TagLoop(h, S, tag)
      BY DEF after, TagLoop, TagTurn
  <2> HIDE DEF after
  <2> QED
      BY <1>5, <2>1
<1>7. RemoveTagged(S, tag) = after[opts.cap].S
    BY DEF RemoveTagged
<1> HIDE DEF after
<1>8. after[0] = start /\ \A n \in 1..opts.cap : n - 1 \in 0..opts.cap
                                                 /\ after[n] = TagTurn(after[n - 1], tag)
    BY <1>1, <1>6 DEF TagLoop
<1>9. \A n \in 0..opts.cap : after[n] \in Scans
  <2> DEFINE Done == {n \in 0..opts.cap : after[n] \in Scans}
  <2> HIDE DEF start
  <2>1. 0 \in Done
      BY <1>1, <1>8
  <2>2. ASSUME NEW n \in 1..opts.cap, n - 1 \in Done PROVE n \in Done
    <3>2. n \in 0..opts.cap
        BY <1>1
    <3> QED
        BY <1>8, <2>2, <3>2, TagTurnWhole
  <2> HIDE DEF Done
  <2>3. \A n \in 0..opts.cap : n \in Done
      BY ONLY <1>1, <2>1, <2>2, TurnByTurn
  <2> QED
      BY <2>3 DEF Done
<1> QED
    BY <1>7, <1>8, <1>9

------------------------------------------------------------------------------
(* The operations *)

LEMMA RoomMade ==
    ASSUME OptsType, NEW S \in WholeStores
    PROVE  /\ MakeRoom(S) \in WholeStores /\ ~Full(MakeRoom(S))
           /\ \A k \in Keys : S.index[k] = emptyIndex => MakeRoom(S).index[k] = emptyIndex
<1>1. PICK after : /\ MakeRoom(S) = after[opts.cap] /\ after[0] = S
                   /\ \A n \in 0..opts.cap : after[n] \in WholeStores
                   /\ \A n \in 1..opts.cap : n - 1 \in 0..opts.cap
                                             /\ after[n] = RoomTurn(after[n - 1])
    BY RoomTurns
<1>2. opts.cap \in Nat /\ S.len \in Nat /\ S.len <= opts.cap
    BY DEF OptsType, WholeStores, StoreType
<1> DEFINE Done == {n \in 0..opts.cap :
                      /\ ~Full(after[n]) \/ after[n].len + n <= S.len
                      /\ \A k \in Keys : S.index[k] = emptyIndex => after[n].index[k] = emptyIndex}
<1>3. 0 \in Done
    BY <1>1, <1>2
<1>4. ASSUME NEW n \in 1..opts.cap, n - 1 \in Done PROVE n \in Done
  <2> DEFINE T == after[n - 1]
  <2>1. n \in 0..opts.cap /\ n - 1 \in 0..opts.cap /\ T \in WholeStores /\ after[n] = RoomTurn(T)
      BY <1>1, <1>2
  <2>2. CASE ~Full(T)
      BY <1>4, <2>1, <2>2 DEF RoomTurn
  <2>3. CASE Full(T)
    <3>1. Whole(T) /\ T.len # 0 /\ LRU(T) \in InUse(T) /\ T.len \in Nat
        BY <2>1, <2>3, RoomTurnWhole, LRUInUse DEF WholeStores, StoreType
    <3>2. after[n] = RemoveAt(T, LRU(T))
        BY <2>1, <2>3 DEF RoomTurn
    <3>3. Removed(T, after[n], LRU(T))
        BY <3>1, <3>2, RemoveAtWhole
    <3>4. after[n].len + n <= S.len
        BY <1>2, <1>4, <2>3, <3>1, <3>3 DEF Removed
    <3>5. \A k \in Keys : T.index[k] = emptyIndex => after[n].index[k] = emptyIndex
      <4>1. T.len - 1 # emptyIndex
          BY <3>1, Sizes DEF Whole, InUse
      <4> QED
          BY <3>3, <4>1 DEF Removed
    <3> QED
        BY <1>4, <2>1, <3>4, <3>5
  <2> QED
      BY <2>2, <2>3
<1>5. opts.cap \in Done
  <2> HIDE DEF Done
  <2>1. \A n \in 0..opts.cap : n \in Done
      BY ONLY <1>2, <1>3, <1>4, TurnByTurn
  <2> QED
      BY <1>2, <2>1
<1>6. MakeRoom(S) \in WholeStores
    BY <1>1, <1>2
<1>7. ~Full(MakeRoom(S))
  <2>1. MakeRoom(S).len \in Nat
      BY <1>6 DEF WholeStores, StoreType
  <2>2. Full(MakeRoom(S)) => MakeRoom(S).len + opts.cap <= S.len
      BY <1>1, <1>5
  <2> QED
      BY <1>2, <1>6, <2>1, <2>2, RoomTurnWhole
<1> QED
    BY <1>1, <1>5, <1>6, <1>7

\* Another value under the same key.
Valued(S, pos, v) ==
    [S EXCEPT !.usedBytes = @ + EntryBytes - S.elements[pos].cost,
              !.elements[pos].value = v, !.elements[pos].cost = EntryBytes]

LEMMA ValuedShape ==
    ASSUME OptsType, NEW S, Whole(S), NEW pos \in InUse(S), NEW v \in Vals
    PROVE  LET T == Valued(S, pos, v)
           IN  /\ T \in StoreType /\ T.index = S.index /\ T.len = S.len
               /\ T.head = S.head /\ T.usedBytes = S.usedBytes
               /\ T.elements = [S.elements EXCEPT ![pos] = [S.elements[pos] EXCEPT !.value = v]]
<1> DEFINE T == Valued(S, pos, v)
           e == [[S.elements[pos] EXCEPT !.value = v] EXCEPT !.cost = EntryBytes]
           d == [S.elements[pos] EXCEPT !.value = v]
<1>1. S \in StoreType /\ pos \in Slots /\ S.elements[pos] \in Element
      /\ S.elements[pos].cost = EntryBytes
  <2>1. S \in StoreType
      BY DEF Whole
  <2> QED
      BY <2>1, Sizes DEF Whole, Counted, StoreType
<1>2. e = d /\ d \in Element
    BY <1>1, MemoryAssumption DEF Element
<1>3. S.usedBytes + EntryBytes - S.elements[pos].cost = S.usedBytes /\ S.usedBytes \in Nat
    BY <1>1, MemoryAssumption DEF StoreType
<1>4. [[S.elements EXCEPT ![pos].value = v] EXCEPT ![pos].cost = EntryBytes]
        = [S.elements EXCEPT ![pos] = e]
    BY <1>1 DEF StoreType
<1>5. T = [S EXCEPT !.usedBytes = S.usedBytes, !.elements = [S.elements EXCEPT ![pos] = d]]
    BY <1>2, <1>3, <1>4 DEF Valued
<1> HIDE DEF T, d
<1>6. [S.elements EXCEPT ![pos] = d] \in [Slots -> Element]
    BY <1>1, <1>2 DEF StoreType
<1>7. /\ T \in StoreType /\ T.index = S.index /\ T.len = S.len
      /\ T.head = S.head /\ T.usedBytes = S.usedBytes
      /\ T.elements = [S.elements EXCEPT ![pos] = d]
    BY <1>1, <1>3, <1>5, <1>6 DEF StoreType
<1> QED
    BY <1>7 DEF T, d

LEMMA ValuedWhole ==
    ASSUME OptsType, NEW S, Whole(S), NEW pos \in InUse(S), NEW v \in Vals
    PROVE  /\ Whole(Valued(S, pos, v)) /\ InUse(Valued(S, pos, v)) = InUse(S)
           /\ \A w : Ring(S, w, S.len, InUse(S)) => Ring(Valued(S, pos, v), w, S.len, InUse(S))
           /\ WithinBytes(S) => WithinBytes(Valued(S, pos, v))
<1> DEFINE T == Valued(S, pos, v)
<1>1. /\ T \in StoreType /\ T.index = S.index /\ T.len = S.len
      /\ T.head = S.head /\ T.usedBytes = S.usedBytes
      /\ T.elements = [S.elements EXCEPT ![pos] = [S.elements[pos] EXCEPT !.value = v]]
    BY ValuedShape
<1> HIDE DEF T
<1>2. S \in StoreType /\ InUse(S) \subseteq Slots /\ pos \in Slots /\ S.len \in Nat
  <2>1. S \in StoreType
      BY DEF Whole
  <2> QED
      BY <2>1, Sizes
<1>3. \A p \in Slots : /\ T.elements[p].key = S.elements[p].key
                       /\ T.elements[p].cost = S.elements[p].cost
                       /\ T.elements[p].next = S.elements[p].next
                       /\ T.elements[p].prev = S.elements[p].prev
                       /\ p # pos => T.elements[p] = S.elements[p]
  <2>1. S.elements \in [Slots -> Element] /\ S.elements[pos] \in Element
      BY <1>2 DEF StoreType
  <2> QED
      BY <1>1, <1>2, <2>1 DEF Element
<1>4. InUse(T) = InUse(S)
    BY <1>1 DEF InUse
<1>5. \A w : Ring(S, w, S.len, InUse(S)) => Ring(T, w, S.len, InUse(S))
  <2>1. \A p \in InUse(S) : /\ T.elements[p].next = S.elements[p].next
                            /\ T.elements[p].prev = S.elements[p].prev
      BY <1>2, <1>3
  <2> QED
      BY ONLY <1>1, <1>2, <2>1, RingKept
<1>6. Linked(T)
    BY <1>1, <1>4, <1>5 DEF Whole, Linked
<1>7. Indexed(T)
    BY <1>1, <1>2, <1>3, <1>4 DEF Whole, Indexed
<1>8. Counted(T)
    BY <1>1, <1>2, <1>3, <1>4 DEF Whole, Counted
<1> QED
    BY <1>1, <1>4, <1>5, <1>6, <1>7, <1>8 DEF Whole, WithinBytes, T

LEMMA OverwriteWhole ==
    ASSUME OptsType, NEW k \in Keys, NEW v \in Vals, Has(k), Whole(s), WithinBytes(s)
    PROVE  /\ Overwrite(k, v) = MoveToFront(Valued(s, s.index[k], v), s.index[k])
           /\ Whole(Overwrite(k, v)) /\ WithinBytes(Overwrite(k, v))
<1> DEFINE pos == s.index[k]
           T == MoveToFront(Valued(s, pos, v), pos)
<1>1. pos \in InUse(s)
    BY DEF Whole, Indexed, Has
<1>2. /\ Whole(Valued(s, pos, v)) /\ WithinBytes(Valued(s, pos, v))
      /\ pos \in InUse(Valued(s, pos, v))
    BY <1>1, ValuedWhole
<1>3. Whole(T) /\ WithinBytes(T)
    BY ONLY <1>2, MoveToFrontWhole, OptsType
<1>4. Overwrite(k, v) = EnforceBytes(T)
    BY DEF Overwrite, Valued
<1>5. EnforceBytes(T) = T
    BY ONLY <1>3, NothingToEnforce, OptsType DEF Whole
<1> QED
    BY <1>3, <1>4, <1>5

\* A new element in the first free slot, not linked yet.
Placed(S, k, v) ==
    [S EXCEPT !.len = @ + 1,
              !.elements[S.len] = [key |-> k, value |-> v, cost |-> EntryBytes,
                                   next |-> emptyIndex, prev |-> emptyIndex],
              !.index[k] = S.len]

Inserted(S, k, v) == [LinkFront(Placed(S, k, v), S.len) EXCEPT !.usedBytes = @ + EntryBytes]

\* R is S with one more element in front.
Grown(S, R, k, v) ==
    /\ R.len = S.len + 1 /\ R.index = [S.index EXCEPT ![k] = S.len]
    /\ \A p \in InUse(S) : /\ R.elements[p].key = S.elements[p].key
                           /\ R.elements[p].value = S.elements[p].value
    /\ R.elements[S.len].key = k /\ R.elements[S.len].value = v
    /\ \A w : Ring(S, w, S.len, InUse(S)) => Ring(R, Prepend(w, S.len, S.len), R.len, InUse(R))

LEMMA InsertWhole ==
    ASSUME OptsType, NEW k \in Keys, NEW v \in Vals, NEW S, Whole(S), ~Full(S),
           S.index[k] = emptyIndex
    PROVE  /\ Whole(Inserted(S, k, v)) /\ WithinBytes(Inserted(S, k, v))
           /\ Grown(S, Inserted(S, k, v), k, v)
<1> DEFINE pos == S.len
           R == Inserted(S, k, v)
           e == [key |-> k, value |-> v, cost |-> EntryBytes,
                 next |-> emptyIndex, prev |-> emptyIndex]
           P == Placed(S, k, v)
           L == LinkFront(P, pos)
<1>1. /\ S \in StoreType /\ pos \in Nat /\ pos \in Slots /\ pos \notin InUse(S) /\ pos \in Links
      /\ InUse(S) \subseteq Slots /\ emptyIndex \notin Slots /\ pos + 1 \in 0..opts.cap
      /\ 0..pos = InUse(S) \cup {pos} /\ pos + 1 \in Nat /\ pos + 1 - 1 = pos
  <2>1. S \in StoreType
      BY DEF Whole
  <2>2. pos \in 0..opts.cap /\ pos # opts.cap /\ opts.cap \in Nat
      BY <2>1 DEF StoreType, Full, OptsType
  <2>3. pos \in Slots /\ pos + 1 \in 0..opts.cap /\ pos \in Nat
      BY ONLY <2>2 DEF Slots
  <2> QED
      BY <2>1, <2>3, Sizes DEF InUse
<1>2. e \in Element
    BY MemoryAssumption DEF Element, Links
<1>3. /\ P \in StoreType /\ P.index = [S.index EXCEPT ![k] = pos] /\ P.len = pos + 1
      /\ P.head = S.head /\ P.usedBytes = S.usedBytes
      /\ P.elements = [S.elements EXCEPT ![pos] = e]
    BY <1>1, <1>2 DEF Placed, StoreType
<1> HIDE DEF P, e, R
<1>4. \A p \in Slots \ {pos} : P.elements[p] = S.elements[p]
    BY <1>1, <1>3 DEF StoreType
<1>5. P.elements[pos] = e /\ e.key = k /\ e.value = v /\ e.cost = EntryBytes
    BY <1>1, <1>3 DEF StoreType, e
<1>6. PICK w : Ring(S, w, pos, InUse(S))
    BY DEF Whole, Linked
<1>7. ASSUME NEW u, Ring(S, u, pos, InUse(S))
      PROVE  /\ Ring(L, Prepend(u, pos, pos), pos + 1, InUse(S) \cup {pos})
             /\ OnlyLinks(P, L) /\ Untouched(P, L, InUse(S) \cup {pos})
  <2>1. Ring(P, u, pos, InUse(S))
    <3>1. \A p \in InUse(S) : /\ P.elements[p].next = S.elements[p].next
                              /\ P.elements[p].prev = S.elements[p].prev
        BY <1>1, <1>4
    <3> QED
        BY ONLY <1>1, <1>3, <1>7, <3>1, RingKept
  <2> QED
      BY ONLY <1>1, <1>3, <2>1, FrontRing, OptsType
<1>8. OnlyLinks(P, L) /\ Untouched(P, L, InUse(S) \cup {pos})
    BY <1>6, <1>7
<1> HIDE DEF L, pos
<1>9. S.usedBytes = pos * EntryBytes /\ (pos + 1) * EntryBytes = S.usedBytes + EntryBytes
      /\ S.usedBytes + EntryBytes \in Nat
  <2>1. S.usedBytes = pos * EntryBytes
      BY DEF Whole, Counted, pos
  <2>2. EntryBytes \in Nat /\ S.usedBytes \in Nat
      BY <1>1, MemoryAssumption DEF StoreType
  <2> QED
      BY ONLY <1>1, <2>1, <2>2
<1>10. /\ R \in StoreType /\ R.index = L.index /\ R.len = L.len /\ R.head = L.head
       /\ R.usedBytes = L.usedBytes + EntryBytes /\ R.elements = L.elements
  <2>1. L \in StoreType /\ L.usedBytes = S.usedBytes
      BY <1>3, <1>8 DEF OnlyLinks
  <2>2. R = [L EXCEPT !.usedBytes = L.usedBytes + EntryBytes]
      BY DEF L, P, pos, R, Inserted
  <2> QED
      BY ONLY <1>9, <2>1, <2>2 DEF StoreType
<1>11. R.len = pos + 1 /\ R.index = [S.index EXCEPT ![k] = pos]
       /\ R.usedBytes = S.usedBytes + EntryBytes
    BY ONLY <1>3, <1>8, <1>10 DEF OnlyLinks
<1>12. InUse(R) = InUse(S) \cup {pos}
    BY ONLY <1>1, <1>11 DEF InUse
<1>13. /\ \A p \in InUse(S) : /\ R.elements[p].key = S.elements[p].key
                              /\ R.elements[p].value = S.elements[p].value
                              /\ R.elements[p].cost = S.elements[p].cost
       /\ R.elements[pos].key = k /\ R.elements[pos].value = v
       /\ R.elements[pos].cost = EntryBytes
    BY ONLY <1>1, <1>4, <1>5, <1>8, <1>10 DEF OnlyLinks
<1>14. ASSUME NEW u, Ring(S, u, pos, InUse(S)) PROVE Ring(R, Prepend(u, pos, pos), R.len, InUse(R))
  <2>1. Ring(L, Prepend(u, pos, pos), pos + 1, InUse(S) \cup {pos})
      BY <1>7, <1>14
  <2>2. Ring(R, Prepend(u, pos, pos), pos + 1, InUse(S) \cup {pos})
      BY ONLY <1>1, <1>10, <2>1, RingKept
  <2> QED
      BY <1>11, <1>12, <2>2
<1>15. Linked(R)
    BY <1>6, <1>14 DEF Linked
<1>16. Indexed(R)
  <2>1. \A j \in Keys : R.index[j] = IF j = k THEN pos ELSE S.index[j]
      BY <1>1, <1>11 DEF StoreType
  <2>2. /\ \A j \in Keys : S.index[j] # emptyIndex =>
              S.index[j] \in InUse(S) /\ S.elements[S.index[j]].key = j
        /\ \A p \in InUse(S) : S.elements[p].key \in Keys /\ S.index[S.elements[p].key] = p
        /\ \A p \in Slots \ InUse(S) : S.elements[p] = ZeroElement
      BY DEF Whole, Indexed
  <2>3. \A p \in InUse(R) : R.elements[p].key \in Keys /\ R.index[R.elements[p].key] = p
    <3>1. \A p \in InUse(S) : S.elements[p].key # k
        BY <1>1, <2>2
    <3> QED
        BY ONLY <1>12, <1>13, <2>1, <2>2, <3>1, k \in Keys
  <2>4. \A p \in Slots \ InUse(R) : R.elements[p] = ZeroElement
      BY ONLY <1>4, <1>8, <1>10, <1>12, <2>2 DEF Untouched
  <2>5. \A j \in Keys : R.index[j] # emptyIndex =>
           R.index[j] \in InUse(R) /\ R.elements[R.index[j]].key = j
      BY ONLY <1>12, <1>13, <2>1, <2>2
  <2> QED
      BY <2>3, <2>4, <2>5 DEF Indexed
<1>17. Counted(R)
  <2>1. \A p \in InUse(S) : S.elements[p].cost = EntryBytes
      BY DEF Whole, Counted
  <2> QED
      BY ONLY <1>9, <1>11, <1>12, <1>13, <2>1 DEF Counted
<1>18. WithinBytes(R)
  <2>1. opts.maxBytes \in Nat /\ (opts.maxBytes > 0 =>
            S.usedBytes + EntryBytes <= opts.maxBytes \/ pos = 0)
      BY <1>1, <1>9 DEF Full, OptsType, pos
  <2> QED
      BY ONLY <1>11, <2>1 DEF WithinBytes
<1> QED
  <2>1. Grown(S, R, k, v)
      BY ONLY <1>11, <1>13, <1>14 DEF Grown, pos
  <2> QED
      BY <1>10, <1>15, <1>16, <1>17, <1>18, <2>1 DEF Whole, R

LEMMA TaggedWhole ==
    ASSUME OptsType, NEW S, Whole(S), WithinBytes(S), NEW tag
    PROVE  Whole(RemoveTagged(S, tag)) /\ WithinBytes(RemoveTagged(S, tag))
<1>1. S \in WholeStores /\ opts.cap \in Nat
    BY DEF WholeStores, Whole, OptsType
<1>2. PICK after : /\ RemoveTagged(S, tag) = after[opts.cap].S
                   /\ after[0] = [S |-> S, pos |-> 0]
                   /\ \A n \in 0..opts.cap : after[n] \in Scans
                   /\ \A n \in 1..opts.cap : n - 1 \in 0..opts.cap
                                             /\ after[n] = TagTurn(after[n - 1], tag)
    BY <1>1, TagTurns
<1> DEFINE Done == {n \in 0..opts.cap : WithinBytes(after[n].S)}
<1>3. 0 \in Done
    BY <1>1, <1>2
<1>4. ASSUME NEW n \in 1..opts.cap, n - 1 \in Done PROVE n \in Done
  <2>1. n \in 0..opts.cap
      BY <1>1
  <2> QED
      BY <1>2, <1>4, <2>1, TagTurnWhole
<1>5. \A n \in 0..opts.cap : n \in Done
  <2> HIDE DEF Done
  <2> QED
      BY ONLY <1>1, <1>3, <1>4, TurnByTurn
<1> QED
    BY <1>1, <1>2, <1>5 DEF Scans, WholeStores

LEMMA EmptyWhole ==
    ASSUME OptsType
    PROVE  Whole(EmptyStore) /\ WithinBytes(EmptyStore)
<1> DEFINE E == EmptyStore
<1>1. /\ E.index = [k \in Keys |-> emptyIndex] /\ E.elements = [p \in Slots |-> ZeroElement]
      /\ E.head = emptyIndex /\ E.len = 0 /\ E.usedBytes = 0
    BY DEF EmptyStore
<1>2. ZeroElement \in Element /\ emptyIndex \in Links
    BY MemoryAssumption DEF ZeroElement, Element, Links
<1>3. E \in StoreType
    BY <1>2 DEF EmptyStore, StoreType, OptsType
<1> HIDE DEF E
<1>4. InUse(E) = {}
    BY <1>1 DEF InUse
<1>5. Ring(E, [i \in 1..0 |-> 0], 0, {})
    BY <1>1 DEF Ring, Lists
<1>6. Linked(E)
    BY <1>1, <1>4, <1>5 DEF Linked
<1>7. Indexed(E)
    BY <1>1, <1>4 DEF Indexed
<1>8. 0 = 0 * EntryBytes
    BY MemoryAssumption
<1>9. Counted(E)
    BY ONLY <1>1, <1>4, <1>8 DEF Counted
<1>10. WithinBytes(E)
    BY <1>1 DEF WithinBytes, OptsType
<1> QED
    BY <1>3, <1>6, <1>7, <1>9, <1>10 DEF Whole, E

LEMMA ClearEmpties ==
    ASSUME OptsType, Whole(s)
    PROVE  [EmptyStore EXCEPT !.elements = [p \in Slots |-> IF p < s.len THEN ZeroElement
                                                            ELSE s.elements[p]]]
              = EmptyStore
<1>1. \A p \in Slots : p < s.len \/ p \in Slots \ InUse(s)
    BY Sizes DEF Whole, InUse, Slots, OptsType
<1>2. \A p \in Slots : (IF p < s.len THEN ZeroElement ELSE s.elements[p]) = ZeroElement
    BY <1>1 DEF Whole, Indexed
<1> QED
    BY <1>2 DEF EmptyStore

LEMMA SameOptions ==
    ASSUME OptsType, opts' = opts, Whole(s'), WithinBytes(s')
    PROVE  OptsType' /\ Whole(s)' /\ WithinBytes(s)'
<1>1. Slots' = Slots /\ InUse(s)' = InUse(s')
    BY DEF Slots, InUse
<1>2. StoreType' = StoreType
    BY <1>1 DEF StoreType
<1>3. Indexed(s)' /\ Counted(s)' /\ WithinBytes(s)'
    BY <1>1 DEF Whole, Indexed, Counted, WithinBytes
<1>4. Linked(s)'
    BY <1>1 DEF Whole, Linked, Ring, Lists, After, Before
<1> QED
    BY <1>2, <1>3, <1>4 DEF Whole, OptsType

LEMMA MemoryInit ==
    ASSUME Init PROVE MemoryInv
<1>1. PICK o \in Options : New(o)
    BY DEF Init
<1>2. OptsType
    BY <1>1, MemoryAssumption DEF New, OptsType
<1> QED
    BY <1>1, <1>2, EmptyWhole DEF MemoryInv, New

LEMMA MemoryStep ==
    ASSUME MemoryInv, [Next]_vars PROVE MemoryInv'
<1> USE DEF MemoryInv
<1>1. ASSUME NEW k \in Keys, Get(k) PROVE MemoryInv'
  <2>1. s.index[k] \in InUse(s)
      BY <1>1 DEF Get, Has, Whole, Indexed
  <2>2. s' = MoveToFront(s, s.index[k]) \/ s' = s
      BY <1>1 DEF Get, Touch
  <2>3. Whole(s') /\ WithinBytes(s')
      BY <2>1, <2>2, MoveToFrontWhole
  <2>4. opts' = opts /\ getHits' \in Nat
      BY <1>1 DEF Get, Touch, OptsType
  <2> QED
      BY <2>3, <2>4, SameOptions
<1>2. ASSUME NEW k \in Keys, Delete(k) PROVE MemoryInv'
  <2>1. Has(k) => s.index[k] \in InUse(s)
      BY DEF Has, Whole, Indexed
  <2>2. Whole(s') /\ WithinBytes(s')
      BY <1>2, <2>1, RemoveAtWhole DEF Delete
  <2> QED
      BY <1>2, <2>2, SameOptions DEF Delete
<1>3. ASSUME NEW k \in Keys, NEW v \in Vals, Set(k, v) PROVE MemoryInv'
  <2>1. CASE Has(k)
      BY <1>3, <2>1, OverwriteWhole, SameOptions DEF Set
  <2>2. CASE ~Has(k)
    <3> DEFINE S == MakeRoom(s)
    <3>1. s \in WholeStores
        BY DEF WholeStores, Whole
    <3>2. Whole(S) /\ ~Full(S) /\ S.index[k] = emptyIndex
        BY <2>2, <3>1, RoomMade DEF WholeStores, Has
    <3>3. Insert(k, v) = Inserted(S, k, v)
        BY DEF Insert, Inserted, Placed
    <3> HIDE DEF S
    <3>4. Whole(Insert(k, v)) /\ WithinBytes(Insert(k, v))
        BY ONLY <3>2, <3>3, InsertWhole, OptsType, k \in Keys, v \in Vals
    <3> QED
        BY <1>3, <2>2, <3>4, SameOptions DEF Set
  <2> QED
      BY <2>1, <2>2
<1>4. ASSUME NEW tag \in Tags, DeleteByTag(tag) PROVE MemoryInv'
  <2>1. Whole(RemoveTagged(s, tag)) /\ WithinBytes(RemoveTagged(s, tag))
      BY TaggedWhole
  <2> QED
      BY <1>4, <2>1, SameOptions DEF DeleteByTag
<1>5. ASSUME Clear PROVE MemoryInv'
  <2>1. s' = EmptyStore
      BY <1>5, ClearEmpties DEF Clear
  <2> QED
      BY <1>5, <2>1, EmptyWhole, SameOptions DEF Clear
<1>6. ASSUME UNCHANGED vars PROVE MemoryInv'
    BY <1>6, SameOptions DEF vars
<1> QED
    BY <1>1, <1>2, <1>3, <1>4, <1>5, <1>6 DEF Next

------------------------------------------------------------------------------
(* What follows *)

\* The walk along prev finds the ring.
LEMMA WalkIsRing ==
    ASSUME OptsType, NEW S, Whole(S), NEW w, Ring(S, w, S.len, InUse(S))
    PROVE  Walk(S) = w
<1> DEFINE at[n \in 1..S.len] == IF n = 1 THEN S.head ELSE S.elements[at[n - 1]].prev
           Is(g) == g = [n \in 1..S.len |-> IF n = 1 THEN S.head ELSE S.elements[g[n - 1]].prev]
<1>1. S.len \in Nat
    BY DEF Whole, StoreType
<1>2. /\ w = [n \in 1..S.len |-> w[n]]
      /\ \A n \in 1..S.len : n = 1 => w[n] = S.head
      /\ \A n \in 1..S.len : n # 1 => n - 1 \in 1..S.len /\ w[n] = S.elements[w[n - 1]].prev
  <2>1. \A n \in 1..S.len : n # 1 => n - 1 \in 1..S.len /\ After(n - 1, S.len) = n
      BY <1>1 DEF After
  <2>2. w \in [1..S.len -> InUse(S)]
      BY DEF Ring, Lists
  <2>3. \A n \in 1..S.len : n = 1 => w[n] = S.head
      BY <1>1 DEF Ring
  <2>4. ASSUME NEW n \in 1..S.len, n # 1
        PROVE  n - 1 \in 1..S.len /\ w[n] = S.elements[w[n - 1]].prev
    <3>1. S.elements[w[n - 1]].prev = w[After(n - 1, S.len)]
        BY <2>1, <2>4 DEF Ring
    <3> QED
        BY ONLY <2>1, <2>4, <3>1
  <2> QED
      BY ONLY <2>2, <2>3, <2>4
<1> HIDE DEF Is
<1>3. Is(w)
  <2>1. \A n \in 1..S.len : w[n] = IF n = 1 THEN S.head ELSE S.elements[w[n - 1]].prev
      BY ONLY <1>2
  <2> QED
      BY <1>2, <2>1 DEF Is
<1>4. Is(at)
  <2>1. at = CHOOSE g : Is(g)
      BY DEF at, Is
  <2> HIDE DEF at
  <2> QED
      BY <1>3, <2>1
<1>5. Walk(S) = at
    BY DEF Walk
<1> HIDE DEF at
<1>6. /\ at = [n \in 1..S.len |-> at[n]]
      /\ \A n \in 1..S.len : at[n] = IF n = 1 THEN S.head ELSE S.elements[at[n - 1]].prev
    BY <1>4 DEF Is
<1> DEFINE Done == {n \in 0..S.len : n # 0 => at[n] = w[n]}
<1>7. 0 \in Done
    BY <1>1
<1>8. ASSUME NEW n \in 1..S.len, n - 1 \in Done PROVE n \in Done
  <2>1. n \in 0..S.len
      BY <1>1
  <2>2. CASE n = 1
    <3>1. at[n] = S.head /\ w[n] = S.head
        BY <1>2, <1>6, <2>2
    <3> QED
        BY <2>1, <3>1
  <2>3. CASE n # 1
    <3>1. n - 1 # 0 /\ at[n - 1] = w[n - 1]
        BY <1>1, <1>8, <2>3
    <3>2. at[n] = S.elements[at[n - 1]].prev /\ w[n] = S.elements[w[n - 1]].prev
        BY ONLY <1>2, <1>6, <2>3, n \in 1..S.len
    <3> QED
        BY <2>1, <3>1, <3>2
  <2> QED
      BY <2>2, <2>3
<1>9. \A n \in 0..S.len : n \in Done
  <2> HIDE DEF Done
  <2> QED
      BY ONLY <1>1, <1>7, <1>8, TurnByTurn
<1>10. \A n \in 1..S.len : at[n] = w[n]
  <2>1. \A n \in 1..S.len : n \in 0..S.len /\ n # 0
      BY <1>1
  <2> QED
      BY <1>9, <2>1
<1> QED
    BY <1>2, <1>5, <1>6, <1>10

\* The inductive invariant: the ring is a list of the slots in use, each once
\* (stores/memory/store.go:98-330).
THEOREM MemoryInvariant == Spec => []MemoryInv
<1>1. MemoryInv /\ [Next]_vars => MemoryInv'
    BY MemoryStep
<1> QED
    BY <1>1, MemoryInit, PTL DEF Spec

\* After every operation the index finds each element and the arena has no holes.
THEOREM ArenaIsIndexed == Spec => []IndexMatchesArena
<1>1. MemoryInv => IndexMatchesArena
    BY DEF MemoryInv, Whole, Indexed, InUse, IndexMatchesArena, Has, Used
<1> QED
    BY <1>1, MemoryInvariant, PTL

\* The links never lose an element, whichever was moved or removed.
THEOREM TheRingIsWhole == Spec => []RingIsWhole
<1>1. MemoryInv => RingIsWhole
  <2> SUFFICES ASSUME MemoryInv PROVE RingIsWhole
      OBVIOUS
  <2>1. PICK w : Ring(s, w, s.len, InUse(s))
      BY DEF MemoryInv, Whole, Linked
  <2>2. Used = InUse(s) /\ s.len \in Nat /\ Walk(s) = w
    <3>1. OptsType /\ Whole(s)
        BY DEF MemoryInv
    <3>2. Walk(s) = w
        BY ONLY <2>1, <3>1, WalkIsRing
    <3>3. s.len \in Nat
        BY ONLY <3>1, Sizes DEF Whole
    <3> QED
        BY ONLY <3>2, <3>3 DEF Used, InUse
  <2>3. ASSUME NEW p \in Used
        PROVE  /\ s.elements[p].next \in Used /\ s.elements[p].prev \in Used
               /\ s.elements[s.elements[p].next].prev = p
               /\ s.elements[s.elements[p].prev].next = p
    <3>1. /\ s.head \in InUse(s) /\ s.elements[s.head].next \in InUse(s)
          /\ s.elements[p].next \in InUse(s) /\ s.elements[p].prev \in InUse(s)
          /\ s.elements[s.elements[p].next].prev = p
          /\ s.elements[s.elements[p].prev].next = p
          /\ s.elements[p].next = p <=> s.len = 1
        BY <2>1, <2>2, Neighbours
    <3> QED
        BY <2>2, <3>1
  <2>4. (s.head = emptyIndex) <=> (s.len = 0)
    <3>1. emptyIndex \notin InUse(s)
        BY Sizes DEF MemoryInv, Whole
    <3>2. s.len # 0 => 1 \in 1..s.len
        BY ONLY <2>2
    <3> QED
        BY ONLY <2>1, <3>1, <3>2 DEF Ring, Lists
  <2>5. {Walk(s)[n] : n \in 1..s.len} = Used
      BY ONLY <2>1, <2>2 DEF Ring, Lists
  <2> QED
      BY ONLY <2>3, <2>4, <2>5 DEF RingIsWhole
<1> QED
    BY <1>1, MemoryInvariant, PTL

\* However entries are replaced, evicted and removed, the byte count is exact and
\* the limits hold after every operation.
THEOREM LimitsHold == Spec => []WithinLimits
<1>1. MemoryInv => WithinLimits
    BY DEF MemoryInv, OptsType, Whole, StoreType, Counted, WithinBytes, WithinLimits
<1> QED
    BY <1>1, MemoryInvariant, PTL

------------------------------------------------------------------------------
(* The order of use *)

\* The keys of the slots w; the pairs of a list of keys, an earlier with a later one.
KeysOn(S, w) == [i \in 1..S.len |-> S.elements[w[i]].key]
Pairs(q, n) == {x \in Keys \X Keys : \E i, j \in 1..n : i <= j /\ x = <<q[i], q[j]>>}

HeldIn(S) == {k \in Keys : S.index[k] # emptyIndex}
ValueIn(S, k) == S.elements[S.index[k]].value

Within(O, kept) == O \cap (kept \X kept)
InFront(O, k, kept) == Within(O, kept \ {k}) \cup ({k} \X (kept \cup {k}))

\* O is the order of use of the keys S holds.
InOrder(S, O) == \E w : Ring(S, w, S.len, InUse(S)) /\ O = Pairs(KeysOn(S, w), S.len)

\* T is S without the keys it holds no longer.
Forgot(S, T) ==
    /\ HeldIn(T) \subseteq HeldIn(S)
    /\ \A k \in HeldIn(T) : ValueIn(T, k) = ValueIn(S, k)
    /\ \A O : InOrder(S, O) => InOrder(T, Within(O, HeldIn(T)))

LEMMA PairsOfPrepend ==
    ASSUME NEW n \in Nat, NEW q \in [1..n -> Keys], NEW k \in Keys
    PROVE  Pairs(Prepend(q, k, n), n + 1)
              = Pairs(q, n) \cup ({k} \X ({q[i] : i \in 1..n} \cup {k}))
<1> DEFINE r == Prepend(q, k, n)
<1>1. /\ 1 \in 1..(n + 1) /\ r[1] = k
      /\ \A i \in 1..n : i + 1 \in 1..(n + 1) /\ i + 1 # 1 /\ i + 1 - 1 = i
      /\ \A i \in 1..(n + 1) : r[i] \in Keys /\ (i = 1 \/ (i - 1 \in 1..n /\ r[i] = q[i - 1]))
    BY DEF Prepend
<1>2. \A i \in 1..n : r[i + 1] = q[i]
    BY <1>1 DEF Prepend
<1> HIDE DEF r
<1>3. ASSUME NEW x \in Pairs(r, n + 1)
      PROVE  x \in Pairs(q, n) \/ x \in {k} \X ({q[i] : i \in 1..n} \cup {k})
  <2>1. PICK i \in 1..(n + 1), j \in 1..(n + 1) : i <= j /\ x = <<r[i], r[j]>> /\ x \in Keys \X Keys
      BY <1>3 DEF Pairs
  <2>2. CASE i = 1
      BY <1>1, <2>1, <2>2
  <2>3. CASE i # 1
    <3>1. j # 1 /\ i - 1 <= j - 1
        BY <2>1, <2>3
    <3>2. i - 1 \in 1..n /\ j - 1 \in 1..n /\ r[i] = q[i - 1] /\ r[j] = q[j - 1]
        BY <1>1, <2>3, <3>1
    <3> QED
        BY <2>1, <3>1, <3>2 DEF Pairs
  <2> QED
      BY <2>2, <2>3
<1>4. ASSUME NEW x \in Pairs(q, n)
      PROVE  x \in Pairs(r, n + 1)
  <2>1. PICK i \in 1..n, j \in 1..n : i <= j /\ x = <<q[i], q[j]>> /\ x \in Keys \X Keys
      BY <1>4 DEF Pairs
  <2>2. i + 1 <= j + 1 /\ x = <<r[i + 1], r[j + 1]>> /\ i + 1 \in 1..(n + 1) /\ j + 1 \in 1..(n + 1)
      BY <1>1, <1>2, <2>1
  <2> QED
      BY ONLY <2>1, <2>2 DEF Pairs
<1>5. ASSUME NEW a \in {q[i] : i \in 1..n} \cup {k}
      PROVE  <<k, a>> \in Pairs(r, n + 1)
  <2>1. PICK j \in 1..(n + 1) : a = r[j] /\ 1 <= j
    <3>1. CASE a = k
        BY <1>1, <3>1
    <3>2. CASE a # k
      <4>1. PICK i \in 1..n : a = q[i]
          BY <1>5, <3>2
      <4>2. i + 1 \in 1..(n + 1) /\ a = r[i + 1] /\ 1 <= i + 1
          BY <1>1, <1>2, <4>1
      <4> QED
          BY <4>2
    <3> QED
        BY <3>1, <3>2
  <2>2. <<k, a>> = <<r[1], r[j]>> /\ <<k, a>> \in Keys \X Keys
      BY <1>1, <2>1
  <2> QED
      BY ONLY <1>1, <2>1, <2>2 DEF Pairs
<1> QED
    BY <1>3, <1>4, <1>5 DEF r

LEMMA PairsOfSkip ==
    ASSUME NEW n \in Nat, NEW q \in [1..n -> Keys], NEW j \in 1..n,
           \A i, l \in 1..n : q[i] = q[l] => i = l
    PROVE  Pairs(Skip(q, j, n), n - 1) = {x \in Pairs(q, n) : x[1] # q[j] /\ x[2] # q[j]}
<1> DEFINE r == Skip(q, j, n)
           Up(i) == IF i < j THEN i ELSE i + 1
           Down(i) == IF i < j THEN i ELSE i - 1
<1>1. \A i \in 1..(n - 1) : Up(i) \in 1..n /\ Up(i) # j /\ r[i] = q[Up(i)]
    BY DEF Skip
<1>2. \A i \in 1..n : i # j => Down(i) \in 1..(n - 1) /\ Up(Down(i)) = i
    OBVIOUS
<1>3. \A i, l \in 1..(n - 1) : i <= l => Up(i) <= Up(l)
    OBVIOUS
<1>4. \A i, l \in 1..n : i # j /\ l # j /\ i <= l => Down(i) <= Down(l)
    OBVIOUS
<1> HIDE DEF Up, Down, r
<1>5. ASSUME NEW x \in Pairs(r, n - 1)
      PROVE  x \in Pairs(q, n) /\ x[1] # q[j] /\ x[2] # q[j]
  <2>1. PICK i \in 1..(n - 1), l \in 1..(n - 1) : i <= l /\ x = <<r[i], r[l]>> /\ x \in Keys \X Keys
      BY <1>5 DEF Pairs
  <2>2. /\ Up(i) \in 1..n /\ Up(l) \in 1..n /\ Up(i) # j /\ Up(l) # j /\ Up(i) <= Up(l)
        /\ x = <<q[Up(i)], q[Up(l)]>>
      BY <1>1, <1>3, <2>1
  <2> QED
      BY <2>1, <2>2 DEF Pairs
<1>6. ASSUME NEW x \in Pairs(q, n), x[1] # q[j], x[2] # q[j]
      PROVE  x \in Pairs(r, n - 1)
  <2>1. PICK i \in 1..n, l \in 1..n : i <= l /\ x = <<q[i], q[l]>> /\ x \in Keys \X Keys
      BY <1>6 DEF Pairs
  <2>2. i # j /\ l # j
      BY <1>6, <2>1
  <2>3. Down(i) \in 1..(n - 1) /\ Down(l) \in 1..(n - 1) /\ Down(i) <= Down(l)
      BY <1>2, <1>4, <2>1, <2>2
  <2>4. r[Down(i)] = q[i] /\ r[Down(l)] = q[l]
      BY <1>1, <1>2, <2>2, <2>3
  <2> QED
      BY <2>1, <2>3, <2>4 DEF Pairs
<1> QED
    BY <1>5, <1>6 DEF r

\* The keys on the ring are those held, each once.
LEMMA KeysOnRing ==
    ASSUME OptsType, NEW S, Whole(S), NEW w, Ring(S, w, S.len, InUse(S))
    PROVE  /\ KeysOn(S, w) \in [1..S.len -> Keys]
           /\ \A i, j \in 1..S.len : KeysOn(S, w)[i] = KeysOn(S, w)[j] => i = j
           /\ {KeysOn(S, w)[i] : i \in 1..S.len} = HeldIn(S)
           /\ Within(Pairs(KeysOn(S, w), S.len), HeldIn(S)) = Pairs(KeysOn(S, w), S.len)
<1>1. /\ \A k \in Keys : S.index[k] # emptyIndex =>
            S.index[k] \in InUse(S) /\ S.elements[S.index[k]].key = k
      /\ \A p \in InUse(S) : S.elements[p].key \in Keys /\ S.index[S.elements[p].key] = p
      /\ emptyIndex \notin InUse(S)
    BY Sizes DEF Whole, Indexed
<1>2. /\ \A i \in 1..S.len : w[i] \in InUse(S)
      /\ \A i, j \in 1..S.len : w[i] = w[j] => i = j
      /\ \A p \in InUse(S) : \E i \in 1..S.len : w[i] = p
    BY DEF Ring, Lists
<1> DEFINE q == KeysOn(S, w)
<1>3. q \in [1..S.len -> Keys] /\ \A i \in 1..S.len : q[i] = S.elements[w[i]].key
    BY ONLY <1>1, <1>2 DEF KeysOn
<1> HIDE DEF q
<1>4. \A i, j \in 1..S.len : q[i] = q[j] => i = j
    BY ONLY <1>1, <1>2, <1>3
<1>5. {q[i] : i \in 1..S.len} = HeldIn(S)
  <2>1. \A i \in 1..S.len : q[i] \in HeldIn(S)
      BY ONLY <1>1, <1>2, <1>3 DEF HeldIn
  <2>2. ASSUME NEW k \in HeldIn(S) PROVE \E i \in 1..S.len : q[i] = k
      BY ONLY <1>1, <1>2, <1>3, k \in HeldIn(S) DEF HeldIn
  <2> QED
      BY ONLY <2>1, <2>2
<1>6. Within(Pairs(q, S.len), HeldIn(S)) = Pairs(q, S.len)
    BY ONLY <1>5 DEF Within, Pairs
<1> QED
    BY <1>3, <1>4, <1>5, <1>6 DEF q

LEMMA ForgetsOne ==
    ASSUME OptsType, NEW S, Whole(S), NEW pos \in InUse(S)
    PROVE  /\ Forgot(S, RemoveAt(S, pos))
           /\ HeldIn(RemoveAt(S, pos)) = HeldIn(S) \ {S.elements[pos].key}
<1> DEFINE R == RemoveAt(S, pos)
           gone == S.elements[pos].key
           last == S.len - 1
<1>1. Removed(S, R, pos)
    BY RemoveAtWhole
<1>2. /\ \A k \in Keys : S.index[k] # emptyIndex =>
            S.index[k] \in InUse(S) /\ S.elements[S.index[k]].key = k
      /\ \A p \in InUse(S) : S.elements[p].key \in Keys /\ S.index[S.elements[p].key] = p
      /\ emptyIndex \notin InUse(S)
    BY Sizes DEF Whole, Indexed
<1>3. /\ S.len \in Nat /\ R.len = last /\ last \in InUse(S) /\ last \in Nat
      /\ \A p \in InUse(S) : p # last => p \in 0..(last - 1)
      /\ InUse(R) = 0..(last - 1)
    BY <1>1, Sizes DEF Removed, InUse, Whole
<1>4. /\ \A k \in Keys : R.index[k] = IF k = gone THEN emptyIndex
                                       ELSE IF S.index[k] = last THEN pos ELSE S.index[k]
      /\ \A p \in 0..(last - 1) : LET q == IF p = pos THEN last ELSE p IN
            /\ R.elements[p].key = S.elements[q].key
            /\ R.elements[p].value = S.elements[q].value
    BY <1>1 DEF Removed
<1>5. gone \in Keys /\ S.index[gone] = pos
    BY <1>2
<1> HIDE DEF R, gone
<1>6. \A p \in InUse(S) : p # pos =>
         LET q == IF p = last THEN pos ELSE p IN
         /\ q \in 0..(last - 1)
         /\ R.elements[q].key = S.elements[p].key /\ R.elements[q].value = S.elements[p].value
    BY ONLY <1>3, <1>4, pos \in InUse(S)
<1>7. HeldIn(R) = HeldIn(S) \ {gone}
  <2>1. pos # emptyIndex /\ last # emptyIndex
      BY <1>2, <1>3
  <2> HIDE DEF last
  <2>2. \A k \in Keys : R.index[k] # emptyIndex <=> (k # gone /\ S.index[k] # emptyIndex)
      BY ONLY <1>4, <2>1
  <2> QED
      BY ONLY <2>2 DEF HeldIn
<1>8. ASSUME NEW k \in HeldIn(R) PROVE ValueIn(R, k) = ValueIn(S, k)
  <2>1. k \in Keys /\ k # gone /\ S.index[k] # emptyIndex
      BY <1>7 DEF HeldIn
  <2>2. S.index[k] \in InUse(S) /\ S.index[k] # pos
      BY <1>2, <2>1 DEF gone
  <2>3. R.index[k] = IF S.index[k] = last THEN pos ELSE S.index[k]
      BY <1>4, <2>1
  <2> HIDE DEF last
  <2> QED
      BY ONLY <1>6, <2>2, <2>3 DEF ValueIn
<1>9. ASSUME NEW O, InOrder(S, O) PROVE InOrder(R, Within(O, HeldIn(R)))
  <2>1. PICK w : Ring(S, w, S.len, InUse(S)) /\ O = Pairs(KeysOn(S, w), S.len)
      BY <1>9 DEF InOrder
  <2>2. PICK j \in 1..S.len : w[j] = pos
      BY <2>1 DEF Ring, Lists
  <2> DEFINE z == Skip(w, j, S.len)
             v == Rename(z, last, pos, last)
             q == KeysOn(S, w)
  <2>3. Ring(R, v, R.len, InUse(R))
    <3>1. Ring(R, v, last, 0..(last - 1))
        BY <2>1, <2>2, RemoveAtShape DEF R
    <3> QED
        BY ONLY <1>3, <3>1
  <2>4. /\ q \in [1..S.len -> Keys]
        /\ \A i, l \in 1..S.len : q[i] = q[l] => i = l
        /\ Within(Pairs(q, S.len), HeldIn(S)) = Pairs(q, S.len)
      BY <2>1, KeysOnRing
  <2>5. q[j] = gone
      BY <2>2 DEF KeysOn, gone
  <2>6. KeysOn(R, v) = Skip(q, j, S.len)
    <3>1. \A i \in 1..S.len : w[i] \in InUse(S) /\ (w[i] = w[j] => i = j)
        BY <2>1 DEF Ring, Lists
    <3>2. \A i \in 1..last : IF i < j THEN i \in 1..S.len /\ i # j
                             ELSE i + 1 \in 1..S.len /\ i + 1 # j
        BY <1>3
    <3>3. \A i \in 1..last : z[i] = IF i < j THEN w[i] ELSE w[i + 1]
        BY DEF Skip
    <3>4. \A i \in 1..last : z[i] \in InUse(S) /\ z[i] # pos
        BY <2>2, <3>1, <3>2, <3>3
    <3>5. \A i \in 1..last : v[i] = IF z[i] = last THEN pos ELSE z[i]
        BY DEF Rename
    <3> HIDE DEF z, v, last
    <3>6. \A i \in 1..last : R.elements[v[i]].key = S.elements[z[i]].key
        BY ONLY <1>6, <3>4, <3>5
    <3>7. \A i \in 1..last : S.elements[z[i]].key = IF i < j THEN q[i] ELSE q[i + 1]
        BY <3>2, <3>3 DEF KeysOn
    <3>8. KeysOn(R, v) = [i \in 1..last |-> R.elements[v[i]].key]
        BY <1>3 DEF KeysOn
    <3>9. Skip(q, j, S.len) = [i \in 1..last |-> IF i < j THEN q[i] ELSE q[i + 1]]
        BY DEF Skip, last
    <3> QED
        BY ONLY <3>6, <3>7, <3>8, <3>9
  <2> HIDE DEF q, v, z, last
  <2>7. Pairs(Skip(q, j, S.len), S.len - 1) = {x \in Pairs(q, S.len) : x[1] # q[j] /\ x[2] # q[j]}
      BY ONLY <1>3, <2>4, PairsOfSkip, j \in 1..S.len
  <2>8. Pairs(KeysOn(R, v), R.len) = {x \in Pairs(q, S.len) : x[1] # gone /\ x[2] # gone}
      BY <1>3, <2>5, <2>6, <2>7 DEF last
  <2>9. {x \in Pairs(q, S.len) : x[1] # gone /\ x[2] # gone} = Within(O, HeldIn(R))
    <3>1. O = Pairs(q, S.len) /\ O \subseteq HeldIn(S) \X HeldIn(S)
        BY <2>1, <2>4 DEF q, Within
    <3> QED
        BY ONLY <1>7, <3>1 DEF Within
  <2> QED
      BY ONLY <2>3, <2>8, <2>9 DEF InOrder
<1> QED
    BY <1>7, <1>8, <1>9 DEF Forgot, R, gone

LEMMA ForgotTwice ==
    ASSUME NEW S, NEW T, NEW U, Forgot(S, T), Forgot(T, U)
    PROVE  Forgot(S, U)
<1>1. \A O : Within(Within(O, HeldIn(T)), HeldIn(U)) = Within(O, HeldIn(U))
    BY DEF Forgot, Within
<1> QED
    BY <1>1 DEF Forgot

LEMMA OrderOfHeld ==
    ASSUME OptsType, NEW S, Whole(S), NEW O, InOrder(S, O)
    PROVE  /\ O \subseteq HeldIn(S) \X HeldIn(S) /\ Within(O, HeldIn(S)) = O
           /\ \A k \in Keys : <<k, k>> \in O <=> k \in HeldIn(S)
<1>1. PICK w : Ring(S, w, S.len, InUse(S)) /\ O = Pairs(KeysOn(S, w), S.len)
    BY DEF InOrder
<1> DEFINE q == KeysOn(S, w)
<1>2. /\ {q[i] : i \in 1..S.len} = HeldIn(S)
      /\ Within(Pairs(q, S.len), HeldIn(S)) = Pairs(q, S.len)
    BY <1>1, KeysOnRing
<1> HIDE DEF q
<1>3. ASSUME NEW k \in HeldIn(S) PROVE <<k, k>> \in O
  <2>1. PICK i \in 1..S.len : q[i] = k
      BY <1>2
  <2>2. i <= i /\ k \in Keys
      BY DEF HeldIn
  <2> QED
      BY <1>1, <2>1, <2>2 DEF Pairs, q
<1> QED
    BY <1>1, <1>2, <1>3 DEF Within, q

LEMMA ForgotNothing ==
    ASSUME OptsType, NEW S, Whole(S)
    PROVE  Forgot(S, S)
BY OrderOfHeld DEF Forgot

\* The ring has one element for each key held.
LEMMA HeldCount ==
    ASSUME OptsType, NEW S, Whole(S)
    PROVE  Cardinality(HeldIn(S)) = S.len
<1> DEFINE f == [p \in InUse(S) |-> S.elements[p].key]
<1>1. /\ \A k \in Keys : S.index[k] # emptyIndex =>
            S.index[k] \in InUse(S) /\ S.elements[S.index[k]].key = k
      /\ \A p \in InUse(S) : S.elements[p].key \in Keys /\ S.index[S.elements[p].key] = p
      /\ emptyIndex \notin InUse(S) /\ S.len \in Nat
    BY Sizes DEF Whole, Indexed
<1>2. f \in Bijection(InUse(S), HeldIn(S))
  <2>1. \A p \in InUse(S) : f[p] \in HeldIn(S) /\ S.index[f[p]] = p
      BY ONLY <1>1 DEF HeldIn
  <2>2. \A k \in HeldIn(S) : \E p \in InUse(S) : f[p] = k
      BY ONLY <1>1 DEF HeldIn
  <2>3. f \in [InUse(S) -> HeldIn(S)]
      BY ONLY <2>1
  <2> HIDE DEF f
  <2> QED
      BY ONLY <2>1, <2>2, <2>3 DEF Bijection, Injection, Surjection, IsInjective
<1>3. ExistsBijection(InUse(S), HeldIn(S))
    BY <1>2 DEF ExistsBijection
<1>4. IsFiniteSet(InUse(S)) /\ Cardinality(InUse(S)) = S.len
  <2>1. 0 \in Int /\ S.len - 1 \in Int /\ (IF 0 > S.len - 1 THEN 0 ELSE S.len - 1 - 0 + 1) = S.len
      BY <1>1
  <2> QED
      BY <2>1, FS_Interval DEF InUse
<1> QED
    BY <1>3, <1>4, FS_Bijection

LEMMA FullMeans ==
    ASSUME OptsType, NEW S, Whole(S)
    PROVE  Full(S) <=> ~LRU_!Fits(S.len + 1)
<1>1. /\ S.len \in Nat /\ S.len <= opts.cap /\ opts.cap \in Nat /\ opts.maxBytes \in Nat
      /\ S.usedBytes = S.len * EntryBytes /\ EntryBytes \in Nat
    BY MemoryAssumption DEF Whole, StoreType, Counted, OptsType
<1>2. (S.len + 1) * EntryBytes = S.usedBytes + EntryBytes /\ S.usedBytes \in Nat
    BY <1>1
<1>3. S.len = opts.cap <=> ~(S.len + 1 <= opts.cap)
    BY <1>1
<1>4. S.len + 1 = 1 <=> ~(S.len > 0)
    BY <1>1
<1>5. S.usedBytes + EntryBytes > opts.maxBytes <=> ~((S.len + 1) * EntryBytes <= opts.maxBytes)
    BY ONLY <1>1, <1>2
<1> QED
    BY ONLY <1>3, <1>4, <1>5 DEF Full, LRU_!Fits

------------------------------------------------------------------------------
(* Eviction *)

\* T is S after some turns of the loop in Set.
Evicted(S, O, T) ==
    /\ Forgot(S, T)
    /\ HeldIn(T) = HeldIn(S) \/ ~LRU_!Fits(T.len + 2)
    /\ \A a \in HeldIn(T), b \in HeldIn(S) \ HeldIn(T) : <<a, b>> \in O

LEMMA EvictsOldest ==
    ASSUME OptsType, NEW S, NEW O, InOrder(S, O), NEW T \in WholeStores, Evicted(S, O, T)
    PROVE  Evicted(S, O, RoomTurn(T))
<1>1. CASE ~Full(T)
    BY <1>1 DEF RoomTurn
<1>2. CASE Full(T)
  <2> DEFINE R == RemoveAt(T, LRU(T))
             least == T.elements[LRU(T)].key
  <2>1. Whole(T) /\ T.len # 0 /\ T.len \in Nat /\ LRU(T) \in InUse(T)
      BY <1>2, RoomTurnWhole, LRUInUse, Sizes DEF WholeStores
  <2>2. Forgot(T, R) /\ HeldIn(R) = HeldIn(T) \ {least}
      BY <2>1, ForgetsOne
  <2>3. R.len = T.len - 1 /\ RoomTurn(T) = R
      BY <1>2, <2>1, RemoveAtWhole DEF Removed, RoomTurn
  <2>4. Forgot(S, R)
      BY ONLY <2>2, ForgotTwice, Evicted(S, O, T) DEF Evicted
  <2>5. ~LRU_!Fits(R.len + 2)
    <3>1. R.len + 2 = T.len + 1
        BY <2>1, <2>3
    <3> QED
        BY <1>2, <2>1, <3>1, FullMeans
  <2>6. ASSUME NEW a \in HeldIn(T) PROVE <<a, least>> \in O
    <3>1. InOrder(T, Within(O, HeldIn(T)))
        BY DEF Evicted, Forgot
    <3>2. PICK w : /\ Ring(T, w, T.len, InUse(T))
                   /\ Within(O, HeldIn(T)) = Pairs(KeysOn(T, w), T.len)
        BY <3>1 DEF InOrder
    <3> DEFINE q == KeysOn(T, w)
    <3>3. q \in [1..T.len -> Keys] /\ {q[i] : i \in 1..T.len} = HeldIn(T)
        BY <2>1, <3>2, KeysOnRing
    <3>4. T.len \in 1..T.len /\ q[T.len] = least
      <4>1. T.len \in 1..T.len
          BY <2>1
      <4>2. LRU(T) = w[T.len]
          BY <2>1, <3>2, LRUInUse
      <4> QED
          BY <4>1, <4>2 DEF KeysOn
    <3> HIDE DEF q, least
    <3>5. PICK i \in 1..T.len : q[i] = a
        BY <3>3
    <3>6. i <= T.len
        BY <2>1
    <3>7. <<a, least>> \in Keys \X Keys
        BY <3>3, <3>4, <3>5
    <3>8. <<a, least>> \in Pairs(q, T.len)
        BY ONLY <3>4, <3>5, <3>6, <3>7 DEF Pairs
    <3> QED
        BY <3>2, <3>8 DEF q, Within
  <2> HIDE DEF R, least
  <2>7. \A a \in HeldIn(R), b \in HeldIn(S) \ HeldIn(R) : <<a, b>> \in O
      BY ONLY <2>2, <2>6, Evicted(S, O, T) DEF Evicted
  <2> QED
      BY ONLY <2>3, <2>4, <2>5, <2>7 DEF Evicted
<1> QED
    BY <1>1, <1>2

LEMMA RoomEvicts ==
    ASSUME OptsType, NEW S \in WholeStores, NEW O, InOrder(S, O)
    PROVE  Evicted(S, O, MakeRoom(S))
<1>1. PICK after : /\ MakeRoom(S) = after[opts.cap] /\ after[0] = S
                   /\ \A n \in 0..opts.cap : after[n] \in WholeStores
                   /\ \A n \in 1..opts.cap : n - 1 \in 0..opts.cap
                                             /\ after[n] = RoomTurn(after[n - 1])
    BY RoomTurns
<1>2. opts.cap \in Nat /\ 0 \in 0..opts.cap
    BY DEF OptsType
<1> DEFINE Done == {n \in 0..opts.cap : Evicted(S, O, after[n])}
<1>3. 0 \in Done
    BY <1>1, <1>2, ForgotNothing DEF Evicted, WholeStores
<1>4. ASSUME NEW n \in 1..opts.cap, n - 1 \in Done PROVE n \in Done
  <2>1. n \in 0..opts.cap
      BY <1>2
  <2> QED
      BY <1>1, <1>4, <2>1, EvictsOldest
<1>5. \A n \in 0..opts.cap : n \in Done
  <2> HIDE DEF Done
  <2> QED
      BY ONLY <1>2, <1>3, <1>4, TurnByTurn
<1> QED
    BY <1>1, <1>2, <1>5

\* a is the scan of S for tag after n turns.
Scanned(S, tag, a, n) ==
    /\ Forgot(S, a.S)
    /\ \A k \in HeldIn(S) \ HeldIn(a.S) : tag \in TagsOf(ValueIn(S, k))
    /\ \A p \in InUse(a.S) : p < a.pos => tag \notin TagsOf(a.S.elements[p].value)
    /\ a.pos < a.S.len => a.S.len + n <= opts.cap + a.pos

LEMMA ScanGoesOn ==
    ASSUME OptsType, NEW S, NEW tag, NEW a \in Scans, NEW n \in Nat, Scanned(S, tag, a, n)
    PROVE  Scanned(S, tag, TagTurn(a, tag), n + 1)
<1> DEFINE T == a.S
           pos == a.pos
           b == TagTurn(a, tag)
<1>1. T \in StoreType /\ Whole(T) /\ pos \in Nat /\ T.len \in Nat /\ opts.cap \in Nat
    BY Sizes DEF Scans, WholeStores, OptsType
<1>2. CASE pos >= T.len
    BY <1>1, <1>2 DEF TagTurn, Scanned
<1>3. CASE pos < T.len
  <2>1. pos \in InUse(T) /\ ~(pos >= T.len) /\ T.len + n <= opts.cap + pos
      BY <1>1, <1>3 DEF InUse, Scanned
  <2>2. CASE tag \in TagsOf(T.elements[pos].value)
    <3> DEFINE R == RemoveAt(T, pos)
               gone == T.elements[pos].key
    <3>1. b.S = R /\ b.pos = pos
        BY <2>1, <2>2 DEF TagTurn, Scans
    <3>2. Forgot(T, R) /\ HeldIn(R) = HeldIn(T) \ {gone} /\ Removed(T, R, pos)
        BY <1>1, <2>1, ForgetsOne, RemoveAtWhole
    <3>3. Forgot(S, R)
        BY ONLY <3>2, ForgotTwice, Scanned(S, tag, a, n) DEF Scanned
    <3>4. R.len = T.len - 1
        BY <3>2 DEF Removed
    <3>5. ASSUME NEW p \in InUse(R), p < pos
          PROVE  tag \notin TagsOf(R.elements[p].value)
      <4>1. p \in InUse(T) /\ p \in 0..(T.len - 1 - 1) /\ p # pos
          BY <1>1, <2>1, <3>4, <3>5 DEF InUse
      <4>2. R.elements[p].value = T.elements[p].value
          BY <3>2, <4>1 DEF Removed
      <4> QED
          BY <3>5, <4>1, <4>2 DEF Scanned
    <3>6. tag \in TagsOf(ValueIn(S, gone))
      <4>1. gone \in HeldIn(T) /\ ValueIn(T, gone) = T.elements[pos].value
        <5>1. gone \in Keys /\ T.index[gone] = pos
            BY <1>1, <2>1 DEF Whole, Indexed
        <5>2. pos # emptyIndex
            BY <1>1, <2>1, Sizes
        <5> QED
            BY ONLY <5>1, <5>2 DEF HeldIn, ValueIn
      <4> QED
          BY <2>2, <4>1 DEF Scanned, Forgot
    <3>7. pos < R.len => R.len + (n + 1) <= opts.cap + pos
        BY <1>1, <2>1, <3>4
    <3> HIDE DEF R, gone, b
    <3>8. \A k \in HeldIn(S) \ HeldIn(R) : tag \in TagsOf(ValueIn(S, k))
        BY ONLY <3>2, <3>6, Scanned(S, tag, a, n) DEF Scanned
    <3>9. Scanned(S, tag, b, n + 1)
        BY ONLY <3>1, <3>3, <3>5, <3>7, <3>8 DEF Scanned
    <3> QED
        BY <3>9 DEF b
  <2>3. CASE tag \notin TagsOf(T.elements[pos].value)
    <3>1. b.S = T /\ b.pos = pos + 1
        BY <2>1, <2>3 DEF TagTurn, Scans
    <3>2. \A p \in InUse(T) : p < pos + 1 => p < pos \/ p = pos
        BY <1>1 DEF InUse
    <3>3. \A p \in InUse(T) : p < pos + 1 => tag \notin TagsOf(T.elements[p].value)
        BY <2>3, <3>2 DEF Scanned
    <3>4. pos + 1 < T.len => T.len + (n + 1) <= opts.cap + (pos + 1)
        BY <1>1, <2>1
    <3> HIDE DEF b
    <3>5. Scanned(S, tag, b, n + 1)
        BY ONLY <3>1, <3>3, <3>4, Scanned(S, tag, a, n) DEF Scanned
    <3> QED
        BY <3>5 DEF b
  <2> QED
      BY <2>2, <2>3
<1> QED
    BY <1>1, <1>2, <1>3

\* DeleteByTag removes the entries with the tag and no others.
LEMMA TaggedForgotten ==
    ASSUME OptsType, NEW S \in WholeStores, NEW tag
    PROVE  /\ Forgot(S, RemoveTagged(S, tag))
           /\ HeldIn(RemoveTagged(S, tag)) = {k \in HeldIn(S) : tag \notin TagsOf(ValueIn(S, k))}
<1>1. opts.cap \in Nat /\ 0 \in 0..opts.cap /\ opts.cap \in 0..opts.cap
      /\ S.len \in Nat /\ S.len <= opts.cap /\ Whole(S)
    BY DEF OptsType, WholeStores, StoreType
<1>2. PICK after : /\ RemoveTagged(S, tag) = after[opts.cap].S
                   /\ after[0] = [S |-> S, pos |-> 0]
                   /\ \A n \in 0..opts.cap : after[n] \in Scans
                   /\ \A n \in 1..opts.cap : n - 1 \in 0..opts.cap
                                             /\ after[n] = TagTurn(after[n - 1], tag)
    BY TagTurns
<1> DEFINE Done == {n \in 0..opts.cap : Scanned(S, tag, after[n], n)}
<1>3. 0 \in Done
  <2>1. after[0].S = S /\ after[0].pos = 0 /\ Forgot(S, S)
      BY <1>1, <1>2, ForgotNothing
  <2>2. \A p \in InUse(S) : ~(p < 0)
      BY <1>1 DEF InUse
  <2>3. S.len + 0 <= opts.cap + 0
      BY <1>1
  <2> QED
      BY ONLY <1>1, <2>1, <2>2, <2>3 DEF Scanned
<1>4. ASSUME NEW n \in 1..opts.cap, n - 1 \in Done PROVE n \in Done
  <2>1. n \in 0..opts.cap /\ n - 1 \in Nat /\ n - 1 + 1 = n
      BY <1>1
  <2>2. after[n] = TagTurn(after[n - 1], tag) /\ after[n - 1] \in Scans
      BY <1>2
  <2>3. Scanned(S, tag, TagTurn(after[n - 1], tag), n - 1 + 1)
      BY <1>4, <2>1, <2>2, ScanGoesOn
  <2> QED
      BY <2>1, <2>2, <2>3
<1>5. \A n \in 0..opts.cap : n \in Done
  <2> HIDE DEF Done
  <2> QED
      BY ONLY <1>1, <1>3, <1>4, TurnByTurn
<1> DEFINE a == after[opts.cap]
           T == a.S
<1>6. Scanned(S, tag, a, opts.cap) /\ a \in Scans
    BY <1>1, <1>2, <1>5
<1>7. Whole(T) /\ a.pos \in Nat /\ T.len \in Nat
    BY <1>6, Sizes DEF Scans, WholeStores
<1> HIDE DEF a
<1>8. a.pos >= T.len
    BY <1>1, <1>6, <1>7 DEF Scanned
<1>9. ASSUME NEW k \in HeldIn(T) PROVE tag \notin TagsOf(ValueIn(S, k))
  <2>1. T.index[k] \in InUse(T)
      BY <1>7 DEF Whole, Indexed, HeldIn
  <2>2. T.index[k] < a.pos
      BY <1>7, <1>8, <2>1 DEF InUse
  <2> QED
      BY <1>6, <2>1, <2>2 DEF Scanned, Forgot, ValueIn
<1>10. Forgot(S, T) /\ \A k \in HeldIn(S) \ HeldIn(T) : tag \in TagsOf(ValueIn(S, k))
    BY <1>6 DEF Scanned
<1> HIDE DEF T
<1>11. HeldIn(T) = {k \in HeldIn(S) : tag \notin TagsOf(ValueIn(S, k))}
    BY ONLY <1>9, <1>10 DEF Forgot
<1> QED
    BY <1>2, <1>10, <1>11 DEF T, a

------------------------------------------------------------------------------
(* The operations on the order of use *)

\* S and T hold the same entries.
SameEntries(S, T) ==
    /\ HeldIn(T) = HeldIn(S)
    /\ \A k \in HeldIn(S) : ValueIn(T, k) = ValueIn(S, k)

LEMMA MovesToFront ==
    ASSUME OptsType, NEW S, Whole(S), NEW pos \in InUse(S), NEW O, InOrder(S, O)
    PROVE  /\ SameEntries(S, MoveToFront(S, pos))
           /\ InOrder(MoveToFront(S, pos), InFront(O, S.elements[pos].key, HeldIn(S)))
<1> DEFINE M == MoveToFront(S, pos)
           k == S.elements[pos].key
           n == S.len
<1>1. PICK w : Ring(S, w, S.len, InUse(S)) /\ O = Pairs(KeysOn(S, w), S.len)
    BY DEF InOrder
<1>2. PICK j \in 1..S.len : w[j] = pos
    BY <1>1 DEF Ring, Lists
<1> DEFINE q == KeysOn(S, w)
           z == Skip(w, j, n)
           v == Prepend(z, pos, n - 1)
<1>3. Ring(M, v, n, InUse(S)) /\ OnlyLinks(S, M)
    BY <1>1, <1>2, MoveToFrontShape
<1>4. /\ q \in [1..n -> Keys] /\ {q[i] : i \in 1..n} = HeldIn(S)
      /\ \A i, l \in 1..n : q[i] = q[l] => i = l
      /\ Within(Pairs(q, n), HeldIn(S)) = Pairs(q, n)
    BY <1>1, KeysOnRing
<1>5. n \in Nat /\ n - 1 \in Nat /\ n - 1 + 1 = n /\ InUse(S) \subseteq Slots
    BY Sizes DEF Whole
<1> HIDE DEF M
<1>6. M.index = S.index /\ M.len = n /\ InUse(M) = InUse(S)
      /\ \A p \in InUse(S) : /\ M.elements[p].key = S.elements[p].key
                             /\ M.elements[p].value = S.elements[p].value
    BY <1>3, <1>5 DEF OnlyLinks, InUse
<1>7. \A x \in HeldIn(S) : S.index[x] \in InUse(S)
    BY DEF Whole, Indexed, HeldIn
<1>8. SameEntries(S, M)
    BY <1>6, <1>7 DEF SameEntries, HeldIn, ValueIn
<1>9. q[j] = k /\ k \in Keys
    BY <1>2, <1>4 DEF KeysOn
<1>10. KeysOn(M, v) = Prepend(Skip(q, j, n), k, n - 1)
  <2>1. \A i \in 1..n : w[i] \in InUse(S) /\ q[i] = S.elements[w[i]].key
      BY <1>1 DEF Ring, Lists, KeysOn
  <2>2. \A i \in 1..(n - 1) : i \in 1..n /\ i + 1 \in 1..n
      BY <1>5
  <2>3. \A i \in 1..(n - 1) : z[i] \in InUse(S) /\ S.elements[z[i]].key = Skip(q, j, n)[i]
      BY <2>1, <2>2 DEF Skip
  <2>4. \A i \in 1..n : i # 1 => i - 1 \in 1..(n - 1)
      BY <1>5
  <2>5. v = [i \in 1..n |-> IF i = 1 THEN pos ELSE z[i - 1]]
      BY <1>5 DEF Prepend
  <2>6. Prepend(Skip(q, j, n), k, n - 1) = [i \in 1..n |-> IF i = 1 THEN k ELSE Skip(q, j, n)[i - 1]]
      BY <1>5 DEF Prepend
  <2> HIDE DEF v, z, n, q
  <2>7. \A i \in 1..n : M.elements[v[i]].key = IF i = 1 THEN k ELSE Skip(q, j, n)[i - 1]
      BY ONLY <1>6, <2>3, <2>4, <2>5, pos \in InUse(S) DEF k
  <2> QED
      BY ONLY <1>6, <2>6, <2>7 DEF KeysOn
<1>11. Skip(q, j, n) \in [1..(n - 1) -> Keys]
  <2>1. \A i \in 1..(n - 1) : i \in 1..n /\ i + 1 \in 1..n
      BY <1>5
  <2> HIDE DEF q, n
  <2> QED
      BY ONLY <1>4, <2>1 DEF Skip
<1>12. {Skip(q, j, n)[i] : i \in 1..(n - 1)} \cup {k} = HeldIn(S)
  <2>1. \A i \in 1..(n - 1) : i \in 1..n /\ i + 1 \in 1..n
      BY <1>5
  <2>2. \A i \in 1..n : i # j => \E l \in 1..(n - 1) : i = IF l < j THEN l ELSE l + 1
    <3> TAKE i \in 1..n
    <3> HAVE i # j
    <3>1. CASE i < j
        BY <1>5, <3>1
    <3>2. CASE ~(i < j)
      <4>1. i - 1 \in 1..(n - 1) /\ ~(i - 1 < j) /\ i = i - 1 + 1
          BY <1>5, <3>2
      <4> QED
          BY <4>1
    <3> QED
        BY <3>1, <3>2
  <2> HIDE DEF q, n
  <2>3. \A i \in 1..(n - 1) : Skip(q, j, n)[i] = q[IF i < j THEN i ELSE i + 1]
      BY DEF Skip
  <2>4. \A i \in 1..(n - 1) : Skip(q, j, n)[i] \in HeldIn(S)
      BY ONLY <1>4, <2>1, <2>3
  <2>5. \A x \in HeldIn(S) : x # k => \E i \in 1..(n - 1) : Skip(q, j, n)[i] = x
      BY ONLY <1>4, <1>9, <2>2, <2>3
  <2>6. k \in HeldIn(S)
      BY <1>4, <1>9 DEF n
  <2> QED
      BY ONLY <2>4, <2>5, <2>6
<1> HIDE DEF q, n, v, k
<1>13. Pairs(KeysOn(M, v), n) = Pairs(Skip(q, j, n), n - 1) \cup ({k} \X HeldIn(S))
    BY ONLY <1>5, <1>9, <1>10, <1>11, <1>12, PairsOfPrepend
<1>14. Pairs(Skip(q, j, n), n - 1) = {x \in Pairs(q, n) : x[1] # k /\ x[2] # k}
  <2>1. j \in 1..n
      BY DEF n
  <2> QED
      BY ONLY <1>4, <1>5, <1>9, <2>1, PairsOfSkip
<1>15. {x \in Pairs(q, n) : x[1] # k /\ x[2] # k} = Within(O, HeldIn(S) \ {k})
  <2>1. O = Pairs(q, n) /\ O \subseteq HeldIn(S) \X HeldIn(S)
      BY <1>1, <1>4 DEF q, n, Within
  <2> QED
      BY ONLY <2>1 DEF Within
<1>16. HeldIn(S) \cup {k} = HeldIn(S)
    BY <1>12
<1>17. InOrder(M, InFront(O, k, HeldIn(S)))
    BY ONLY <1>3, <1>6, <1>13, <1>14, <1>15, <1>16 DEF InOrder, InFront
<1> QED
    BY <1>8, <1>17 DEF M, k

LEMMA ValuedInOrder ==
    ASSUME OptsType, NEW S, Whole(S), NEW pos \in InUse(S), NEW v \in Vals,
           NEW O, InOrder(S, O)
    PROVE  /\ InOrder(Valued(S, pos, v), O) /\ HeldIn(Valued(S, pos, v)) = HeldIn(S)
           /\ \A k \in HeldIn(S) : ValueIn(Valued(S, pos, v), k)
                                    = IF k = S.elements[pos].key THEN v ELSE ValueIn(S, k)
           /\ \A p \in InUse(S) : Valued(S, pos, v).elements[p].key = S.elements[p].key
<1> DEFINE T == Valued(S, pos, v)
<1>1. /\ T.index = S.index /\ T.len = S.len
      /\ T.elements = [S.elements EXCEPT ![pos] = [S.elements[pos] EXCEPT !.value = v]]
    BY ValuedShape
<1>2. Whole(T) /\ InUse(T) = InUse(S)
      /\ \A w : Ring(S, w, S.len, InUse(S)) => Ring(T, w, S.len, InUse(S))
    BY ValuedWhole
<1>3. S.elements \in [Slots -> Element] /\ InUse(S) \subseteq Slots
    BY Sizes DEF Whole, StoreType
<1> HIDE DEF T
<1>4. \A p \in InUse(S) : /\ T.elements[p].key = S.elements[p].key
                          /\ T.elements[p].value = IF p = pos THEN v ELSE S.elements[p].value
  <2>1. S.elements[pos] \in Element
      BY <1>3
  <2>2. LET e == [S.elements[pos] EXCEPT !.value = v]
        IN  e.value = v /\ e.key = S.elements[pos].key
      BY ONLY <2>1 DEF Element
  <2> QED
      BY ONLY <1>1, <1>3, <2>2, pos \in InUse(S)
<1>5. \A k \in HeldIn(S) : S.index[k] \in InUse(S) /\ (S.index[k] = pos <=> k = S.elements[pos].key)
    BY DEF Whole, Indexed, HeldIn
<1>6. \A k \in HeldIn(S) : ValueIn(T, k) = IF k = S.elements[pos].key THEN v ELSE ValueIn(S, k)
    BY ONLY <1>1, <1>4, <1>5 DEF ValueIn
<1>7. HeldIn(T) = HeldIn(S)
    BY <1>1 DEF HeldIn
<1>8. InOrder(T, O)
  <2>1. PICK w : Ring(S, w, S.len, InUse(S)) /\ O = Pairs(KeysOn(S, w), S.len)
      BY DEF InOrder
  <2>2. \A i \in 1..S.len : w[i] \in InUse(S)
      BY <2>1 DEF Ring, Lists
  <2>3. KeysOn(T, w) = KeysOn(S, w)
      BY ONLY <1>1, <1>4, <2>2 DEF KeysOn
  <2>4. Ring(T, w, T.len, InUse(T)) /\ O = Pairs(KeysOn(T, w), T.len)
      BY <1>1, <1>2, <2>1, <2>3
  <2> QED
      BY ONLY <2>4 DEF InOrder
<1> QED
    BY <1>4, <1>6, <1>7, <1>8 DEF T

LEMMA GrownInOrder ==
    ASSUME OptsType, NEW S, Whole(S), NEW k \in Keys, S.index[k] = emptyIndex, ~Full(S),
           NEW v, NEW R, Grown(S, R, k, v), NEW O, InOrder(S, O)
    PROVE  /\ HeldIn(R) = HeldIn(S) \cup {k} /\ ValueIn(R, k) = v
           /\ \A a \in HeldIn(S) : ValueIn(R, a) = ValueIn(S, a)
           /\ InOrder(R, InFront(O, k, HeldIn(S)))
<1> DEFINE n == S.len
<1>1. n \in Nat /\ n # emptyIndex /\ S.index \in [Keys -> Links]
    BY MemoryAssumption DEF Whole, StoreType, Full, OptsType, Links
<1>2. \A a \in Keys : R.index[a] = IF a = k THEN n ELSE S.index[a]
    BY <1>1 DEF Grown
<1>3. HeldIn(R) = HeldIn(S) \cup {k}
    BY <1>1, <1>2 DEF HeldIn
<1>4. ValueIn(R, k) = v
    BY <1>2 DEF Grown, ValueIn
<1>5. \A a \in HeldIn(S) : a # k /\ a \in Keys /\ S.index[a] \in InUse(S)
    BY DEF HeldIn, Whole, Indexed
<1>6. \A a \in HeldIn(S) : ValueIn(R, a) = ValueIn(S, a)
    BY <1>2, <1>5 DEF Grown, ValueIn
<1>7. PICK w : Ring(S, w, n, InUse(S)) /\ O = Pairs(KeysOn(S, w), n)
    BY DEF InOrder
<1> DEFINE q == KeysOn(S, w)
           z == Prepend(w, n, n)
<1>8. q \in [1..n -> Keys] /\ {q[i] : i \in 1..n} = HeldIn(S)
      /\ Within(Pairs(q, n), HeldIn(S)) = Pairs(q, n)
    BY <1>7, KeysOnRing
<1>9. KeysOn(R, z) = Prepend(q, k, n)
  <2>1. \A i \in 1..n : w[i] \in InUse(S) /\ q[i] = S.elements[w[i]].key
      BY <1>7 DEF Ring, Lists, KeysOn
  <2>2. \A i \in 1..(n + 1) : i # 1 => i - 1 \in 1..n
      BY <1>1
  <2>3. \A i \in 1..(n + 1) : R.elements[z[i]].key = IF i = 1 THEN k ELSE q[i - 1]
      BY <2>1, <2>2 DEF Grown, Prepend
  <2>4. R.len = n + 1
      BY DEF Grown
  <2> HIDE DEF n, q, z
  <2> QED
      BY ONLY <2>3, <2>4 DEF KeysOn, Prepend
<1>10. Ring(R, z, R.len, InUse(R)) /\ R.len = n + 1
    BY <1>7 DEF Grown
<1> HIDE DEF n, q, z
<1>11. Pairs(KeysOn(R, z), R.len) = Pairs(q, n) \cup ({k} \X (HeldIn(S) \cup {k}))
    BY ONLY <1>1, <1>8, <1>9, <1>10, PairsOfPrepend, k \in Keys
<1>12. Pairs(q, n) = Within(O, HeldIn(S) \ {k})
  <2>1. HeldIn(S) \ {k} = HeldIn(S) /\ O = Pairs(q, n)
      BY <1>5, <1>7 DEF q
  <2> QED
      BY ONLY <1>8, <2>1
<1>13. InOrder(R, InFront(O, k, HeldIn(S)))
    BY ONLY <1>10, <1>11, <1>12 DEF InOrder, InFront
<1> QED
    BY <1>3, <1>4, <1>6, <1>13

\* The refinement mapping computes the order of use.
LEMMA RecencyIsOrder ==
    ASSUME OptsType, NEW S, Whole(S)
    PROVE  InOrder(S, Recency(S)) /\ \A O : InOrder(S, O) => O = Recency(S)
<1>1. ASSUME NEW w, Ring(S, w, S.len, InUse(S)) PROVE Recency(S) = Pairs(KeysOn(S, w), S.len)
  <2> DEFINE q == KeysOn(S, w)
  <2>1. Walk(S) = w
      BY <1>1, WalkIsRing
  <2>2. q \in [1..S.len -> Keys] /\ S.len \in Nat
      BY <1>1, KeysOnRing, Sizes DEF Whole
  <2>3. Recency(S) = UNION {{<<S.elements[w[i]].key, S.elements[w[j]].key>> : j \in i..S.len}
                              : i \in 1..S.len}
      BY <2>1 DEF Recency
  <2>4. \A i \in 1..S.len : S.elements[w[i]].key = q[i]
      BY DEF KeysOn
  <2>5. \A i \in 1..S.len : \A j : j \in i..S.len <=> (j \in 1..S.len /\ i <= j)
      BY <2>2
  <2> HIDE DEF q
  <2>6. ASSUME NEW x \in Recency(S) PROVE x \in Pairs(q, S.len)
    <3>1. PICK i \in 1..S.len : x \in {<<S.elements[w[i]].key, S.elements[w[j]].key>> : j \in i..S.len}
        BY ONLY <2>3, <2>6
    <3>2. PICK j \in i..S.len : x = <<S.elements[w[i]].key, S.elements[w[j]].key>>
        BY ONLY <3>1
    <3>3. j \in 1..S.len /\ i <= j
        BY ONLY <2>5, i \in 1..S.len, j \in i..S.len
    <3>4. x = <<q[i], q[j]>> /\ x \in Keys \X Keys
        BY ONLY <2>2, <2>4, <3>2, <3>3, i \in 1..S.len
    <3> QED
        BY ONLY <3>3, <3>4, i \in 1..S.len DEF Pairs
  <2>7. ASSUME NEW x \in Pairs(q, S.len) PROVE x \in Recency(S)
    <3>1. PICK i \in 1..S.len, j \in 1..S.len : i <= j /\ x = <<q[i], q[j]>>
        BY <2>7 DEF Pairs
    <3>2. j \in i..S.len /\ x = <<S.elements[w[i]].key, S.elements[w[j]].key>>
        BY ONLY <2>4, <2>5, <3>1
    <3> QED
        BY ONLY <2>3, <3>2, i \in 1..S.len
  <2> QED
      BY <2>6, <2>7 DEF q
<1> QED
    BY <1>1 DEF InOrder, Whole, Linked

------------------------------------------------------------------------------
(* The refinement *)

LEMMA WholeAfter ==
    ASSUME MemoryInv, [Next]_vars
    PROVE  Whole(s')
<1>1. MemoryInv'
    BY MemoryStep
<1>2. opts' = opts
    BY DEF Next, vars, Get, Touch, Delete, Set, DeleteByTag, Clear
<1>3. Slots' = Slots /\ InUse(s)' = InUse(s')
    BY <1>2 DEF Slots, InUse
<1>4. StoreType' = StoreType
    BY <1>2, <1>3 DEF StoreType
<1>5. Indexed(s') /\ Counted(s')
    BY <1>1, <1>3 DEF MemoryInv, Whole, Indexed, Counted
<1>6. Linked(s')
    BY <1>1, <1>3 DEF MemoryInv, Whole, Linked, Ring, Lists, After, Before
<1> QED
    BY <1>1, <1>4, <1>5, <1>6 DEF MemoryInv, Whole

\* The mapped variables before and after a step.
LEMMA Mapped ==
    ASSUME MemoryInv, [Next]_vars
    PROVE  /\ InOrder(s, Recency(s)) /\ LRU_!Held = HeldIn(s)
           /\ Entries(s) = [k \in Keys |-> IF k \in HeldIn(s) THEN ValueIn(s, k) ELSE None]
           /\ \A O : InOrder(s', O) => Recency(s)' = O
           /\ Entries(s)' = [k \in Keys |-> IF k \in HeldIn(s') THEN ValueIn(s', k) ELSE None]
<1>1. OptsType /\ Whole(s) /\ Whole(s')
    BY WholeAfter DEF MemoryInv
<1>2. InOrder(s, Recency(s))
    BY ONLY <1>1, RecencyIsOrder
<1>3. LRU_!Held = HeldIn(s)
    BY <1>1, <1>2, OrderOfHeld DEF LRU_!Held, HeldIn
<1>4. Recency(s)' = Recency(s')
    BY DEF Recency, Walk
<1>5. ASSUME NEW O, InOrder(s', O) PROVE Recency(s)' = O
    BY ONLY <1>1, <1>4, <1>5, RecencyIsOrder
<1>6. ASSUME NEW S
      PROVE  Entries(S) = [k \in Keys |-> IF k \in HeldIn(S) THEN ValueIn(S, k) ELSE None]
    BY DEF Entries, HeldIn, ValueIn
<1>7. Entries(s)' = Entries(s')
    BY DEF Entries
<1> QED
    BY <1>2, <1>3, <1>5, <1>6, <1>7

LEMMA KeepsMapped ==
    ASSUME MemoryInv, [Next]_vars, Forgot(s, s'), UNCHANGED <<opts, getHits>>
    PROVE  LRU_!Keeps(HeldIn(s'))
<1> DEFINE kept == HeldIn(s')
<1>1. /\ InOrder(s, Recency(s))
      /\ Entries(s) = [k \in Keys |-> IF k \in HeldIn(s) THEN ValueIn(s, k) ELSE None]
      /\ \A O : InOrder(s', O) => Recency(s)' = O
      /\ Entries(s)' = [k \in Keys |-> IF k \in kept THEN ValueIn(s', k) ELSE None]
    BY Mapped
<1>2. /\ kept \subseteq HeldIn(s) /\ HeldIn(s) \subseteq Keys
      /\ \A k \in kept : ValueIn(s', k) = ValueIn(s, k)
      /\ InOrder(s', Within(Recency(s), kept))
    BY <1>1 DEF Forgot, HeldIn
<1> HIDE DEF kept
<1>3. Recency(s)' = Recency(s) \cap (kept \X kept)
    BY ONLY <1>1, <1>2 DEF Within
<1>4. Entries(s)' = [k \in Keys |-> IF k \in kept THEN Entries(s)[k] ELSE None]
  <2>1. \A k \in kept : Entries(s)[k] = ValueIn(s', k)
      BY ONLY <1>1, <1>2
  <2> QED
      BY ONLY <1>1, <2>1
<1>5. LRU_!Keeps(kept)
    BY ONLY <1>3, <1>4, UNCHANGED <<opts, getHits>> DEF LRU_!Keeps, LRU_!Among, LRU_!Keeping
<1> QED
    BY <1>5 DEF kept

LEMMA HitMapped ==
    ASSUME MemoryInv, [Next]_vars, NEW k \in Keys, Get(k)
    PROVE  LRU_!Hit(k)
<1> DEFINE pos == s.index[k]
           M == MoveToFront(s, pos)
<1>1. /\ InOrder(s, Recency(s)) /\ LRU_!Held = HeldIn(s)
      /\ Entries(s) = [j \in Keys |-> IF j \in HeldIn(s) THEN ValueIn(s, j) ELSE None]
      /\ \A O : InOrder(s', O) => Recency(s)' = O
      /\ Entries(s)' = [j \in Keys |-> IF j \in HeldIn(s') THEN ValueIn(s', j) ELSE None]
    BY Mapped
<1>2. OptsType /\ Whole(s)
    BY DEF MemoryInv
<1>3. k \in HeldIn(s) /\ pos \in InUse(s) /\ s.elements[pos].key = k
    BY <1>2 DEF Get, Has, HeldIn, Whole, Indexed
<1>4. SameEntries(s, M) /\ InOrder(M, InFront(Recency(s), k, HeldIn(s)))
    BY <1>1, <1>2, <1>3, MovesToFront
<1>5. /\ opts' = opts
      /\ IF opts.sample <= 1 THEN s' = M /\ getHits' = getHits
         ELSE /\ getHits' = (getHits + 1) % opts.sample
              /\ s' = IF getHits' = 0 THEN M ELSE s
    BY DEF Get, Touch
<1> HIDE DEF M, pos
<1>6. s' = M => Recency(s)' = LRU_!Front(k, HeldIn(s))
    BY ONLY <1>1, <1>4 DEF LRU_!Front, LRU_!Among, InFront, Within
<1>7. s' = s => Recency(s)' = Recency(s)
    BY ONLY <1>1
<1>8. Entries(s)' = Entries(s)
  <2>1. SameEntries(s, s')
      BY <1>4, <1>5 DEF SameEntries
  <2> QED
      BY ONLY <1>1, <2>1 DEF SameEntries
<1> QED
    BY ONLY <1>1, <1>3, <1>5, <1>6, <1>7, <1>8 DEF LRU_!Hit

LEMMA OverwriteMapped ==
    ASSUME MemoryInv, [Next]_vars, NEW k \in Keys, NEW v \in Vals, Set(k, v), Has(k)
    PROVE  LRU_!Set(k, v)
<1> DEFINE pos == s.index[k]
           T == Valued(s, pos, v)
           O == Recency(s)
<1>1. /\ InOrder(s, O) /\ LRU_!Held = HeldIn(s)
      /\ Entries(s) = [j \in Keys |-> IF j \in HeldIn(s) THEN ValueIn(s, j) ELSE None]
      /\ \A P : InOrder(s', P) => Recency(s)' = P
      /\ Entries(s)' = [j \in Keys |-> IF j \in HeldIn(s') THEN ValueIn(s', j) ELSE None]
    BY Mapped
<1>2. OptsType /\ Whole(s) /\ WithinBytes(s)
    BY DEF MemoryInv
<1>3. k \in HeldIn(s) /\ pos \in InUse(s) /\ s.elements[pos].key = k
    BY <1>2 DEF Has, HeldIn, Whole, Indexed
<1>4. s' = MoveToFront(T, pos) /\ UNCHANGED <<opts, getHits>>
    BY <1>2, OverwriteWhole DEF Set
<1>5. /\ InOrder(T, O) /\ HeldIn(T) = HeldIn(s)
      /\ \A j \in HeldIn(s) : ValueIn(T, j) = IF j = k THEN v ELSE ValueIn(s, j)
      /\ T.elements[pos].key = k
    BY <1>1, <1>2, <1>3, ValuedInOrder
<1>6. Whole(T) /\ pos \in InUse(T)
    BY <1>2, <1>3, ValuedWhole
<1> HIDE DEF T, pos, O
<1>7. SameEntries(T, s') /\ InOrder(s', InFront(O, k, HeldIn(T)))
    BY ONLY <1>2, <1>4, <1>5, <1>6, MovesToFront
<1>8. Recency(s)' = LRU_!Front(k, HeldIn(s))
    BY ONLY <1>1, <1>5, <1>7 DEF LRU_!Front, LRU_!Among, InFront, Within, O
<1>9. Entries(s)' = [LRU_!Keeping(HeldIn(s)) EXCEPT ![k] = v]
  <2>1. \A j \in HeldIn(s) : ValueIn(s', j) = IF j = k THEN v ELSE ValueIn(s, j)
      BY ONLY <1>5, <1>7 DEF SameEntries
  <2>2. HeldIn(s') = HeldIn(s)
      BY <1>5, <1>7 DEF SameEntries
  <2>3. LRU_!Keeping(HeldIn(s)) = Entries(s)
      BY <1>1 DEF LRU_!Keeping
  <2>4. [Entries(s) EXCEPT ![k] = v] = [j \in Keys |-> IF j = k THEN v ELSE Entries(s)[j]]
      BY <1>1
  <2> QED
      BY ONLY <1>1, <1>3, <2>1, <2>2, <2>3, <2>4
<1>10. HeldIn(s) \in SUBSET LRU_!Held /\ HeldIn(s) = LRU_!Held
    BY <1>1
<1> QED
    BY ONLY <1>1, <1>3, <1>4, <1>8, <1>9, <1>10 DEF LRU_!Set

LEMMA InsertMapped ==
    ASSUME MemoryInv, [Next]_vars, NEW k \in Keys, NEW v \in Vals, Set(k, v), ~Has(k)
    PROVE  LRU_!Set(k, v)
<1> DEFINE S == MakeRoom(s)
           O == Recency(s)
           kept == HeldIn(S)
<1>1. /\ InOrder(s, O) /\ LRU_!Held = HeldIn(s)
      /\ Entries(s) = [j \in Keys |-> IF j \in HeldIn(s) THEN ValueIn(s, j) ELSE None]
      /\ \A P : InOrder(s', P) => Recency(s)' = P
      /\ Entries(s)' = [j \in Keys |-> IF j \in HeldIn(s') THEN ValueIn(s', j) ELSE None]
    BY Mapped
<1>2. OptsType /\ s \in WholeStores
    BY DEF MemoryInv, WholeStores, Whole
<1>3. Evicted(s, O, S)
    BY <1>1, <1>2, RoomEvicts
<1>4. Whole(S) /\ ~Full(S) /\ S.index[k] = emptyIndex /\ S.len \in Nat
    BY <1>2, RoomMade, Sizes DEF WholeStores, Has
<1>5. s' = Inserted(S, k, v) /\ UNCHANGED <<opts, getHits>>
    BY DEF Set, Insert, Inserted, Placed
<1>6. Cardinality(kept) = S.len /\ LRU_!Fits(S.len + 1)
    BY <1>2, <1>4, HeldCount, FullMeans
<1> HIDE DEF S, O
<1>7. Grown(S, s', k, v)
    BY ONLY <1>2, <1>4, <1>5, InsertWhole, k \in Keys, v \in Vals
<1>8. InOrder(S, Within(O, kept))
    BY ONLY <1>1, <1>3 DEF Evicted, Forgot
<1>9. /\ HeldIn(s') = kept \cup {k} /\ ValueIn(s', k) = v
      /\ \A a \in kept : ValueIn(s', a) = ValueIn(S, a)
      /\ InOrder(s', InFront(Within(O, kept), k, kept))
    BY ONLY <1>2, <1>4, <1>7, <1>8, GrownInOrder, k \in Keys
<1>10. kept \subseteq HeldIn(s) /\ k \notin HeldIn(s) /\ \A a \in kept : ValueIn(S, a) = ValueIn(s, a)
    BY <1>3 DEF Evicted, Forgot, Has, HeldIn
<1> HIDE DEF kept
<1>11. Recency(s)' = LRU_!Front(k, kept)
    BY ONLY <1>1, <1>9 DEF LRU_!Front, LRU_!Among, InFront, Within, O
<1>12. Entries(s)' = [LRU_!Keeping(kept) EXCEPT ![k] = v]
  <2>1. LRU_!Keeping(kept) = [j \in Keys |-> IF j \in kept THEN ValueIn(s, j) ELSE None]
      BY <1>1, <1>10 DEF LRU_!Keeping
  <2>2. [LRU_!Keeping(kept) EXCEPT ![k] = v]
           = [j \in Keys |-> IF j = k THEN v ELSE IF j \in kept THEN ValueIn(s, j) ELSE None]
      BY ONLY <2>1
  <2> QED
      BY ONLY <1>1, <1>9, <1>10, <2>2
<1>13. LRU_!Stay(kept)
  <2>1. LRU_!Cardinality(kept) = Cardinality(kept)
      BY ONLY TRUE DEF LRU_!Cardinality, Cardinality
  <2> QED
      BY ONLY <1>1, <1>3, <1>6, <2>1 DEF LRU_!Stay, Evicted, O, kept
<1> QED
    BY ONLY <1>1, <1>5, <1>10, <1>11, <1>12, <1>13 DEF LRU_!Set

LEMMA EmptyInOrder ==
    ASSUME OptsType
    PROVE  InOrder(EmptyStore, {}) /\ HeldIn(EmptyStore) = {}
<1>1. /\ EmptyStore.index = [k \in Keys |-> emptyIndex] /\ EmptyStore.head = emptyIndex
      /\ EmptyStore.len = 0
    BY DEF EmptyStore
<1>2. HeldIn(EmptyStore) = {} /\ InUse(EmptyStore) = {}
    BY <1>1 DEF HeldIn, InUse
<1>3. Ring(EmptyStore, [i \in 1..0 |-> 0], 0, {})
    BY <1>1 DEF Ring, Lists
<1>4. \A q : Pairs(q, 0) = {}
    BY DEF Pairs
<1> QED
    BY <1>1, <1>2, <1>3, <1>4 DEF InOrder

LEMMA StepMapped ==
    ASSUME MemoryInv, [Next]_vars
    PROVE  [LRU_!Next]_(LRU_!vars)
<1>1. /\ InOrder(s, Recency(s)) /\ LRU_!Held = HeldIn(s)
      /\ Entries(s) = [k \in Keys |-> IF k \in HeldIn(s) THEN ValueIn(s, k) ELSE None]
    BY Mapped
<1>2. OptsType /\ Whole(s) /\ s \in WholeStores
    BY DEF MemoryInv, WholeStores, Whole
<1>3. ASSUME NEW k \in Keys, Delete(k) PROVE LRU_!Delete(k)
  <2>1. Forgot(s, s') /\ HeldIn(s') = HeldIn(s) \ {k}
    <3>1. CASE Has(k)
      <4>1. s.index[k] \in InUse(s) /\ s.elements[s.index[k]].key = k
          BY <1>2, <3>1 DEF Has, Whole, Indexed
      <4>2. s' = RemoveAt(s, s.index[k])
          BY <1>3, <3>1 DEF Delete
      <4> QED
          BY <1>2, <4>1, <4>2, ForgetsOne
    <3>2. CASE ~Has(k)
      <4>1. s' = s /\ k \notin HeldIn(s)
          BY <1>3, <3>2 DEF Delete, Has, HeldIn
      <4> QED
          BY <1>2, <4>1, ForgotNothing
    <3> QED
        BY <3>1, <3>2
  <2>2. LRU_!Keeps(HeldIn(s'))
      BY <1>3, <2>1, KeepsMapped DEF Delete
  <2> QED
      BY ONLY <1>1, <2>1, <2>2 DEF LRU_!Delete
<1>4. ASSUME NEW tag \in Tags, DeleteByTag(tag) PROVE LRU_!DeleteByTag(tag)
  <2>1. /\ Forgot(s, s')
        /\ HeldIn(s') = {k \in HeldIn(s) : tag \notin TagsOf(ValueIn(s, k))}
      BY <1>2, <1>4, TaggedForgotten DEF DeleteByTag
  <2>2. LRU_!Keeps(HeldIn(s'))
      BY <1>4, <2>1, KeepsMapped DEF DeleteByTag
  <2>3. \A k \in HeldIn(s) : Entries(s)[k] = ValueIn(s, k)
      BY <1>1 DEF HeldIn
  <2>4. HeldIn(s') = {k \in LRU_!Held : tag \notin TagsOf(Entries(s)[k])}
      BY ONLY <1>1, <2>1, <2>3
  <2> QED
      BY ONLY <2>2, <2>4 DEF LRU_!DeleteByTag
<1>5. ASSUME Clear PROVE LRU_!Clear
  <2>1. s' = EmptyStore
      BY <1>2, <1>5, ClearEmpties DEF Clear
  <2>2. InOrder(s', {}) /\ HeldIn(s') = {}
      BY <1>2, <2>1, EmptyInOrder
  <2>3. \A O : Within(O, HeldIn(s')) = {}
      BY ONLY <2>2 DEF Within
  <2>4. Forgot(s, s')
      BY ONLY <2>2, <2>3 DEF Forgot
  <2>5. LRU_!Keeps(HeldIn(s'))
      BY <1>5, <2>4, KeepsMapped DEF Clear
  <2> QED
      BY ONLY <2>2, <2>5 DEF LRU_!Clear
<1>6. ASSUME UNCHANGED vars PROVE UNCHANGED LRU_!vars
    BY <1>6 DEF vars, LRU_!vars, Recency, Walk, Entries
<1>7. ASSUME NEW k \in Keys, Get(k) PROVE LRU_!Hit(k)
    BY <1>7, HitMapped
<1>8. ASSUME NEW k \in Keys, NEW v \in Vals, Set(k, v) PROVE LRU_!Set(k, v)
    BY <1>8, OverwriteMapped, InsertMapped
<1> QED
    BY <1>3, <1>4, <1>5, <1>6, <1>7, <1>8 DEF Next, LRU_!Next

LEMMA InitMapped ==
    ASSUME Init
    PROVE  LRU_!Init
<1>1. OptsType
    BY MemoryInit DEF MemoryInv
<1>2. s = EmptyStore /\ getHits = 0
    BY DEF Init, New
<1>3. Whole(s)
    BY <1>1, <1>2, EmptyWhole
<1>4. Recency(s) = {}
    BY <1>1, <1>2, <1>3, EmptyInOrder, RecencyIsOrder
<1>5. Entries(s) = [k \in Keys |-> None]
    BY <1>2 DEF Entries, EmptyStore
<1>6. opts \in {[o EXCEPT !.sample = IF @ = 0 THEN 1 ELSE @] : o \in Options}
    BY DEF Init, New
<1> QED
    BY <1>2, <1>4, <1>5, <1>6 DEF LRU_!Init

\* With all its moving between slots the store is an LRU map: it forgets the least
\* recently used entries, no more than it must, and disturbs no other entry.
THEOREM RefinesLRU == Spec => ImplementsLRU
<1>1. MemoryInv /\ [Next]_vars => [LRU_!Next]_(LRU_!vars)
    BY StepMapped
<1> QED
    BY <1>1, InitMapped, MemoryInvariant, PTL DEF Spec, ImplementsLRU, LRU_!Spec
==============================================================================
