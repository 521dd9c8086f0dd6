------------------------------ MODULE LRUStore -------------------------------
(***************************************************************************)
(* What memory.Store promises (stores/memory/store.go): a map bounded in   *)
(* entries and bytes that forgets the least recently used entries first.   *)
(* An entry is a member of Vals; the bytes of an entry are the same for    *)
(* all entries of one store, since they are the sizes of its types.        *)
(***************************************************************************)
EXTENDS Naturals, FiniteSets

CONSTANTS Keys, Vals, None,
          Tags, TagsOf(_),   \* Stored.Tags
          EntryBytes,        \* entryBytes(key, value)
          Options            \* what New and its options may set

VARIABLES opts,  \* capacity, byte limit (0 for none), recency sample
          order, \* <<a, b>>: a and b are held, b was not used later than a
          value, \* value[k]: the entry under k, or None
          hits   \* counted hits since recency was last refreshed

vars == <<opts, order, value, hits>>

Held == {k \in Keys : <<k, k>> \in order}

Among(kept) == order \cap (kept \X kept)
Front(k, kept) == Among(kept \ {k}) \cup ({k} \X (kept \cup {k}))
Keeping(kept) == [k \in Keys |-> IF k \in kept THEN value[k] ELSE None]

\* Any single entry is admitted.
Fits(n) == /\ n <= opts.cap
           /\ opts.maxBytes > 0 => n * EntryBytes <= opts.maxBytes \/ n = 1

\* What stays when one more entry comes: the latest used, and as many as fit.
Stay(kept) ==
    /\ \A a \in kept, b \in Held \ kept : <<a, b>> \in order
    /\ Fits(Cardinality(kept) + 1)
    /\ kept = Held \/ ~Fits(Cardinality(kept) + 2)

Init ==
    /\ opts \in Options
    /\ order = {}
    /\ value = [k \in Keys |-> None]
    /\ hits = 0

\* Every sample-th hit makes its key the most recently used.
Hit(k) ==
    /\ k \in Held
    /\ IF opts.sample <= 1 THEN order' = Front(k, Held) /\ hits' = hits
       ELSE /\ hits' = (hits + 1) % opts.sample
            /\ order' = IF hits' = 0 THEN Front(k, Held) ELSE order
    /\ UNCHANGED <<opts, value>>

Set(k, v) ==
    /\ \E kept \in SUBSET Held :
          /\ IF k \in Held THEN kept = Held ELSE Stay(kept)
          /\ order' = Front(k, kept)
          /\ value' = [Keeping(kept) EXCEPT ![k] = v]
    /\ UNCHANGED <<opts, hits>>

Keeps(kept) ==
    /\ order' = Among(kept)
    /\ value' = Keeping(kept)
    /\ UNCHANGED <<opts, hits>>

Delete(k) == Keeps(Held \ {k})

DeleteByTag(tag) == Keeps({k \in Held : tag \notin TagsOf(value[k])})

Clear == Keeps({})

Next ==
    \/ \E k \in Keys : Hit(k) \/ Delete(k) \/ \E v \in Vals : Set(k, v)
    \/ \E tag \in Tags : DeleteByTag(tag)
    \/ Clear

Spec == Init /\ [][Next]_vars
==============================================================================
