------------------------------- MODULE MCStores ------------------------------
(* Model checking the four stores against what is asked of a Store. *)
EXTENDS Stores, TLC

Envelope(fresh, stale, no) ==
    [freshUntil |-> fresh, staleUntil |-> stale, noExpire |-> no]

\* With a stale window that ends at time 2, and without expiration.
MCEnvelopes == {Envelope(1, 2, FALSE), Envelope(0, 0, TRUE)}

\* One shard with one entry; two shards with two entries and one.  Of the byte
\* limits 5 admits one entry to a shard, 1 leaves the second shard without a limit.
MCLimits == [capacity : {1, 3}, shards : {2}, maxBytes : {0, 1, 5}]

Symmetry == Permutations(Calls) \cup Permutations(Keys)
==============================================================================
