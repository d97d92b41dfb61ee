----------------------------- MODULE Accounting -----------------------------
(* Byte accounting shared by the detailed and the abstract store.           *)
(* A map of entries is a function from the keys it stores to records with a *)
(* field `size`.  Its total size is the number of bytes its entries occupy; *)
(* counting the bytes themselves, entry by entry, keeps the definition free *)
(* of recursion, so that theorems about it need only finite cardinalities.  *)
EXTENDS Integers, FiniteSets, Functions

\* The bytes of the entries of m: byte i of key k's entry is <<k, i>>.
BytesOf(m) == UNION {{k} \X (1 .. m[k].size) : k \in DOMAIN m}

\* The sum of the sizes of the entries of m.
TotalSize(m) == Cardinality(BytesOf(m))

\* The sum of the values of f, which are natural numbers, counted likewise.
UnitsOf(f) == UNION {{x} \X (1 .. f[x]) : x \in DOMAIN f}
Total(f) == Cardinality(UnitsOf(f))

\* A map that is finite, and so has a total size.
Countable(m) == IsFiniteSet(DOMAIN m) /\ IsFiniteSet(BytesOf(m))

\* The map m without the keys of S.
Without(m, S) == Restrict(m, DOMAIN m \ S)

\* The map m with k bound to e, whether or not k was bound before.
With(m, k, e) == [x \in DOMAIN m \cup {k} |-> IF x = k THEN e ELSE m[x]]
=============================================================================
