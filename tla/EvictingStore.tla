--------------------------- MODULE EvictingStore ----------------------------
(* What a shard promises to the cache that calls it, with no buckets, hands *)
(* or clock: a map of entries in which an insert is one step that may evict *)
(* other entries.  Which of several entries of equal priority go is not     *)
(* said here: that is the clock's business.                                 *)
EXTENDS Accounting

CONSTANTS Keys, Sizes, Capacity

VARIABLE store   \* [key |-> [size, policy]]

NoEntries == << >>

Init == store = NoEntries

\* The sets of victims an insert needing `needed` bytes may choose in the map
\* others: afterwards there is room or nothing is left; no victim has a higher
\* priority (a smaller policy) than a survivor; and one of the victims, of the
\* highest priority among them, was still needed.
Victims(others, needed) ==
  {V \in SUBSET DOMAIN others :
     LET Room(S) == TotalSize(Without(others, S)) + needed <= Capacity
     IN  /\ Room(V) \/ V = DOMAIN others
         /\ \A v \in V, s \in DOMAIN others \ V :
              others[v].policy >= others[s].policy
         /\ V # {} => \E last \in V :
              /\ ~ Room(V \ {last})
              /\ \A v \in V : others[v].policy >= others[last].policy}

Insert(k, size, policy) ==
  LET others == Without(store, {k})
  IN  \E V \in Victims(others, size) :
        store' = With(Without(others, V), k, [size |-> size, policy |-> policy])

Remove(k) == k \in DOMAIN store /\ store' = Without(store, {k})

Drain == store' = NoEntries

Next ==
  \/ \E k \in Keys, size \in Sizes, policy \in 0 .. 2 : Insert(k, size, policy)
  \/ \E k \in Keys : Remove(k)
  \/ Drain

Spec == Init /\ [][Next]_store
=============================================================================
