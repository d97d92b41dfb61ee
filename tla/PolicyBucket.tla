---------------------------- MODULE PolicyBucket ----------------------------
(* struct PolicyBucket: the keys of one policy in an IndexMap, and the      *)
(* clock hand, a 0-based index into it.  An IndexMap used as a set is the   *)
(* sequence of its keys in index order, without repetition.                 *)
EXTENDS Integers, Sequences

NewBucket == [list |-> <<>>, hand |-> 0]

\* The keys of a bucket, and the two things that make it one: no key is in it
\* twice, and its hand points at a key unless it has none.
KeysOf(b) == {b.list[i] : i \in DOMAIN b.list}
Holds(b, k) == k \in KeysOf(b)
NoRepeat(b) == \A i, j \in DOMAIN b.list : b.list[i] = b.list[j] => i = j
HandOK(b) == IF b.list = <<>> THEN b.hand = 0 ELSE b.hand < Len(b.list)

\* The 0-based index of key k in a bucket that holds it.
IndexOf(b, k) == (CHOOSE i \in DOMAIN b.list : b.list[i] = k) - 1

\* The key at the 0-based index h (get_index), when there is one.
HasIndex(b, h) == h + 1 \in DOMAIN b.list
KeyAt(b, h) == b.list[h + 1]

\* PolicyBucket::insert: IndexMap::insert appends a key it does not hold.
BucketInsert(b, k) ==
  LET list == IF Holds(b, k) THEN b.list ELSE Append(b.list, k)
  IN  [list |-> list, hand |-> IF b.hand >= Len(list) THEN 0 ELSE b.hand]

\* IndexMap::swap_remove: the last key moves into the vacated index.
SwapRemove(list, i) ==
  [j \in 1 .. Len(list) - 1 |-> IF j = i + 1 THEN list[Len(list)] ELSE list[j]]

\* Mutants of BucketRemove: the hand does not follow the key that moves; the
\* hand is not brought back into bounds.
BucketRemoveNoFollow(b, k) ==
  IF ~ Holds(b, k) THEN b
  ELSE [list |-> SwapRemove(b.list, IndexOf(b, k)),
        hand |-> IF b.hand >= Len(b.list) - 1 THEN 0 ELSE b.hand]
BucketRemoveNoWrap(b, k) ==
  IF ~ Holds(b, k) THEN b
  ELSE [list |-> SwapRemove(b.list, IndexOf(b, k)), hand |-> b.hand]

\* PolicyBucket::remove: a hand on the last key follows it when it is moved,
\* and a hand left out of bounds wraps to 0.
BucketRemove(b, k) ==
  IF ~ Holds(b, k) THEN b
  ELSE LET last == Len(b.list) - 1
           removed == IndexOf(b, k)
       IN  [list |-> SwapRemove(b.list, removed),
            hand |-> IF b.hand = last /\ removed # last THEN removed
                     ELSE IF b.hand >= last THEN 0 ELSE b.hand]
=============================================================================
