----------------------------- MODULE MemoryStore -----------------------------
(***************************************************************************)
(* memory.Store (stores/memory/store.go): a hash index over an arena of    *)
(* elements that are also linked into a ring in order of use.  The head is *)
(* the most recently used element, head.next the least recently used one,  *)
(* prev leads from newer to older.  The arena is kept dense: removing an   *)
(* element moves the last one into its slot.  Every operation runs under   *)
(* one mutex, so each is one step; helpers map the store before a call to  *)
(* the store after it, loops are functions of the number of turns.         *)
(***************************************************************************)
EXTENDS Naturals

CONSTANTS Keys, Vals, None, Tags, TagsOf(_), EntryBytes, Options,
          NoKey,     \* the zero value of K
          emptyIndex \* math.MaxUint32, which is no slot's number

ASSUME MemoryAssumption ==
    /\ EntryBytes \in Nat \ {0}
    /\ Options \subseteq [cap : Nat \ {0}, maxBytes : Nat, sample : Nat]
    /\ emptyIndex \in Nat
    /\ \A o \in Options : o.cap <= emptyIndex
    /\ None \notin Vals /\ NoKey \notin Keys

VARIABLES s,      \* [index, elements, head, len, usedBytes]
          opts,   \* capacity and the options New was given
          getHits \* counted modulo the sample, which is all that is read of it

vars == <<s, opts, getHits>>

Slots == 0..(opts.cap - 1)

\* The zero element: its links are 0, not emptyIndex.
ZeroElement == [key |-> NoKey, value |-> None, cost |-> 0, next |-> 0, prev |-> 0]

\* The index is a function on all keys, emptyIndex where the map has no entry.
EmptyStore == [index     |-> [k \in Keys |-> emptyIndex],
               elements  |-> [p \in Slots |-> ZeroElement],
               head      |-> emptyIndex,
               len       |-> 0,
               usedBytes |-> 0]

New(o) ==
    /\ opts = [o EXCEPT !.sample = IF @ = 0 THEN 1 ELSE @]
    /\ s = EmptyStore
    /\ getHits = 0

Init == \E o \in Options : New(o)

------------------------------------------------------------------------------
(* The ring *)

LinkFront(S, pos) ==
    IF S.head = emptyIndex
    THEN [S EXCEPT !.head = pos,
                   !.elements[pos].next = pos, !.elements[pos].prev = pos]
    ELSE LET tail == S.elements[S.head].next
         IN  [S EXCEPT !.elements[pos].next = tail,
                       !.elements[pos].prev = S.head,
                       !.elements[tail].prev = pos,
                       !.elements[S.head].next = pos,
                       !.head = pos]

UnlinkLRU(S, pos) ==
    LET next == S.elements[pos].next
        prev == S.elements[pos].prev
    IN  IF next = pos THEN [S EXCEPT !.head = emptyIndex]
        ELSE [S EXCEPT !.elements[next].prev = prev,
                       !.elements[prev].next = next,
                       !.head = IF @ = pos THEN prev ELSE @]

MoveToFront(S, pos) ==
    IF S.head \in {pos, emptyIndex} THEN S ELSE LinkFront(UnlinkLRU(S, pos), pos)

\* Mutant: only the forward link of the neighbours is repaired.
RepointNextOnly(S, oldPos, newPos) ==
    LET moved == S.elements[newPos]
    IN  [S EXCEPT !.elements[moved.prev].next = newPos,
                  !.head = IF @ = oldPos THEN newPos ELSE @]

\* The element just copied from oldPos to newPos may be its own neighbour.
RepointNext(S, oldPos, newPos) ==
    LET next == S.elements[newPos].next
    IN  IF next = oldPos THEN [S EXCEPT !.elements[newPos].next = newPos]
                         ELSE [S EXCEPT !.elements[next].prev = newPos]

RepointPrev(S, oldPos, newPos) ==
    LET prev == S.elements[newPos].prev
    IN  IF prev = oldPos THEN [S EXCEPT !.elements[newPos].prev = newPos]
                         ELSE [S EXCEPT !.elements[prev].next = newPos]

RepointMoved(S, oldPos, newPos) ==
    [RepointPrev(RepointNext(S, oldPos, newPos), oldPos, newPos)
        EXCEPT !.head = IF @ = oldPos THEN newPos ELSE @]

\* Mutant: the moved element keeps its old position in the index.
RemoveAtForgetsMoved(S, pos) ==
    LET last == S.len - 1
        T == [UnlinkLRU(S, pos) EXCEPT !.usedBytes = @ - S.elements[pos].cost,
                                       !.index[S.elements[pos].key] = emptyIndex,
                                       !.len = last]
    IN  IF pos = last THEN T
        ELSE RepointMoved([T EXCEPT !.elements[pos] = T.elements[last]], last, pos)

\* removeAt: the last element fills the hole.
RemoveAt(S, pos) ==
    LET last == S.len - 1
        T == [UnlinkLRU(S, pos) EXCEPT
                 !.usedBytes = @ - S.elements[pos].cost,
                 !.index[S.elements[pos].key] = emptyIndex,
                 !.len = last]
        U == IF pos = last THEN T
             ELSE RepointMoved([T EXCEPT !.elements[pos] = T.elements[last],
                                         !.index[T.elements[last].key] = pos],
                               last, pos)
    IN  [U EXCEPT !.elements[last] = ZeroElement]

LRU(S) == S.elements[S.head].next

------------------------------------------------------------------------------
(* The loops of Set and DeleteByTag *)

\* Mutant: the loop of Set stops one entry too late.
FullLate(S) == S.len = opts.cap \/
    (opts.maxBytes > 0 /\ S.usedBytes > opts.maxBytes /\ S.len > 0)

\* There is no place for one more entry.
Full(S) == S.len = opts.cap \/
    (opts.maxBytes > 0 /\ S.usedBytes + EntryBytes > opts.maxBytes /\ S.len > 0)

MakeRoom(S) ==
    LET after[n \in 0..opts.cap] ==
            IF n = 0 THEN S
            ELSE IF Full(after[n - 1]) THEN RemoveAt(after[n - 1], LRU(after[n - 1]))
                 ELSE after[n - 1]
    IN  after[opts.cap]

\* enforceBytes after an overwrite.
EnforceBytes(S) ==
    LET Over(T) == opts.maxBytes > 0 /\ T.usedBytes > opts.maxBytes /\ T.len > 1
        after[n \in 0..opts.cap] ==
            IF n = 0 THEN S
            ELSE IF Over(after[n - 1]) THEN RemoveAt(after[n - 1], LRU(after[n - 1]))
                 ELSE after[n - 1]
    IN  after[opts.cap]

\* Mutant: the scan steps over the element that was moved into the hole.
RemoveTaggedSkips(S, tag) ==
    LET after[n \in 0..opts.cap] ==
            IF n = 0 THEN S
            ELSE IF n - 1 < after[n - 1].len
                    /\ tag \in TagsOf(after[n - 1].elements[n - 1].value)
                 THEN RemoveAt(after[n - 1], n - 1)
                 ELSE after[n - 1]
    IN  after[opts.cap]

\* The scan stays where it is after a removal, which refills that slot.
RemoveTagged(S, tag) ==
    LET turn(a) == IF a.pos >= a.S.len THEN a
                   ELSE IF tag \in TagsOf(a.S.elements[a.pos].value)
                   THEN [a EXCEPT !.S = RemoveAt(a.S, a.pos)]
                   ELSE [a EXCEPT !.pos = @ + 1]
        after[n \in 0..opts.cap] ==
            IF n = 0 THEN [S |-> S, pos |-> 0] ELSE turn(after[n - 1])
    IN  after[opts.cap].S

------------------------------------------------------------------------------
(* The operations *)

Has(k) == s.index[k] # emptyIndex

\* refreshOnGet, then moveToFront when it says so.
Touch(pos) ==
    IF opts.sample <= 1
    THEN s' = MoveToFront(s, pos) /\ UNCHANGED getHits
    ELSE /\ getHits' = (getHits + 1) % opts.sample
         /\ s' = IF getHits' = 0 THEN MoveToFront(s, pos) ELSE s

\* A hit of Get, or of PeekFreshValue on a fresh entry.  A miss, Peek, and
\* PeekFreshValue on an entry past its freshness change nothing.
Get(k) ==
    /\ Has(k)
    /\ Touch(s.index[k])
    /\ UNCHANGED opts

Overwrite(k, v) ==
    LET pos == s.index[k]
    IN  EnforceBytes(MoveToFront(
            [s EXCEPT !.usedBytes = @ + EntryBytes - s.elements[pos].cost,
                      !.elements[pos].value = v,
                      !.elements[pos].cost = EntryBytes], pos))

Insert(k, v) ==
    LET S == MakeRoom(s)
    IN  [LinkFront([S EXCEPT !.len = @ + 1,
                             !.elements[S.len] =
                                 [key |-> k, value |-> v, cost |-> EntryBytes,
                                  next |-> emptyIndex, prev |-> emptyIndex],
                             !.index[k] = S.len],
                   S.len) EXCEPT !.usedBytes = @ + EntryBytes]

Set(k, v) ==
    /\ s' = IF Has(k) THEN Overwrite(k, v) ELSE Insert(k, v)
    /\ UNCHANGED <<opts, getHits>>

Delete(k) ==
    /\ s' = IF Has(k) THEN RemoveAt(s, s.index[k]) ELSE s
    /\ UNCHANGED <<opts, getHits>>

DeleteByTag(tag) ==
    /\ s' = RemoveTagged(s, tag)
    /\ UNCHANGED <<opts, getHits>>

\* Only the slots in use are zeroed; the hit count survives.
Clear ==
    /\ s' = [EmptyStore EXCEPT
                !.elements = [p \in Slots |-> IF p < s.len THEN ZeroElement
                                              ELSE s.elements[p]]]
    /\ UNCHANGED <<opts, getHits>>

Next ==
    \/ \E k \in Keys : Get(k) \/ Delete(k) \/ \E v \in Vals : Set(k, v)
    \/ \E tag \in Tags : DeleteByTag(tag)
    \/ Clear

Spec == Init /\ [][Next]_vars

------------------------------------------------------------------------------
(* Correctness *)

Used == 0..(s.len - 1)

\* The elements in order of use: from the head along prev.
Walk(S) ==
    LET at[n \in 1..S.len] == IF n = 1 THEN S.head ELSE S.elements[at[n - 1]].prev
    IN  at

\* A key and itself, and a key and those used before it.
Recency(S) ==
    LET w == Walk(S)
        K(n) == S.elements[w[n]].key
    IN  UNION {{<<K(i), K(j)>> : j \in i..S.len} : i \in 1..S.len}

\* The arena is dense, zero beyond len, and agrees with the index.
IndexMatchesArena ==
    /\ \A k \in Keys : Has(k) => s.index[k] \in Used /\ s.elements[s.index[k]].key = k
    /\ \A p \in Used : s.index[s.elements[p].key] = p
    /\ \A p \in Slots \ Used : s.elements[p] = ZeroElement

\* The used slots form one ring in both directions.
RingIsWhole ==
    /\ (s.head = emptyIndex) <=> (s.len = 0)
    /\ \A p \in Used :
          /\ s.elements[p].next \in Used /\ s.elements[p].prev \in Used
          /\ s.elements[s.elements[p].next].prev = p
          /\ s.elements[s.elements[p].prev].next = p
    /\ {Walk(s)[n] : n \in 1..s.len} = Used

\* The counters tell the truth and the limits hold; a single entry larger than
\* the byte limit is still admitted (store.go:123,137).
WithinLimits ==
    /\ s.len <= opts.cap
    /\ s.usedBytes = s.len * EntryBytes
    /\ opts.maxBytes > 0 => s.usedBytes <= opts.maxBytes \/ s.len = 1

Entries(S) ==
    [k \in Keys |-> IF S.index[k] # emptyIndex THEN S.elements[S.index[k]].value ELSE None]

\* The store behaves as an LRU map: it evicts from the least recently used end
\* and only as much as is needed, and no operation disturbs other entries.
LRU_ == INSTANCE LRUStore WITH
    order <- Recency(s),
    value <- Entries(s),
    hits  <- getHits,
    Options <- {[o EXCEPT !.sample = IF @ = 0 THEN 1 ELSE @] : o \in Options}

ImplementsLRU == LRU_!Spec
==============================================================================
