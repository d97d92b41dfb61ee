--------------------------- MODULE DeepSizeProofs ---------------------------
(* A measure never asks for a lock that it holds, and nothing that it goes   *)
(* through is freed or changed: for every memory graph in which values have  *)
(* owners, every number of threads, and whatever a client changes behind the *)
(* locks meanwhile. What it returns is the number of bytes that are owned.   *)
EXTENDS MCDeepSize, AccountingProofs, SequenceTheorems, FiniteSetTheorems, TLAPS

USE ThreadsAssumption, UsizeAssumption, FreshAssumption, HeapsAssumption
-----------------------------------------------------------------------------
(* Sequences and the values inside a value.                                 *)

\* The elements of a sequence that gives its head up for others.
LEMMA ReplacedHead ==
  ASSUME NEW S, NEW e \in Seq(S), e # << >>, NEW new \in Seq(S)
  PROVE  /\ new \o Tail(e) \in Seq(S)
         /\ Len(e) \in Nat \ {0} /\ DOMAIN e = 1 .. Len(e) /\ Head(e) = e[1]
         /\ Len(new) \in Nat /\ DOMAIN new = 1 .. Len(new)
         /\ DOMAIN (new \o Tail(e)) = 1 .. Len(new) + Len(e) - 1
         /\ \A i \in 1 .. Len(new) : (new \o Tail(e))[i] = new[i]
         /\ \A i \in 2 .. Len(e) : (new \o Tail(e))[i + Len(new) - 1] = e[i]
         /\ \A i \in 2 .. Len(e) : i + Len(new) - 1 \in DOMAIN (new \o Tail(e))
         /\ \A i \in 1 .. Len(new) : i \in DOMAIN (new \o Tail(e))
         /\ \A i \in DOMAIN (new \o Tail(e)) :
              i \in 1 .. Len(new) \/ \E k \in 2 .. Len(e) : i = k + Len(new) - 1
<1> DEFINE r == Tail(e)
<1>1. /\ Len(e) \in Nat \ {0} /\ DOMAIN e = 1 .. Len(e)
      /\ r \in Seq(S) /\ Len(r) = Len(e) - 1 /\ \A i \in 1 .. Len(r) : r[i] = e[i + 1]
  BY HeadTailProperties, LenProperties, EmptySeq
<1>2. Head(e) = e[1]
  OBVIOUS
<1>3. Len(new) \in Nat /\ DOMAIN new = 1 .. Len(new)
  BY LenProperties
<1> HIDE DEF r
<1>4. /\ new \o r \in Seq(S)
      /\ Len(new \o r) = Len(new) + Len(r)
      /\ \A i \in 1 .. Len(new) + Len(r) :
           (new \o r)[i] = IF i <= Len(new) THEN new[i] ELSE r[i - Len(new)]
  BY <1>1, ConcatProperties
<1>5. DOMAIN (new \o r) = 1 .. Len(new) + Len(e) - 1
  BY <1>1, <1>3, <1>4, LenProperties
<1>6. ASSUME NEW i \in 1 .. Len(new) PROVE (new \o r)[i] = new[i]
  BY <1>1, <1>3, <1>4
<1>7. ASSUME NEW i \in 2 .. Len(e) PROVE (new \o r)[i + Len(new) - 1] = e[i]
  <2>1. i + Len(new) - 1 \in 1 .. Len(new) + Len(r) /\ ~ (i + Len(new) - 1 <= Len(new))
    BY <1>1, <1>3
  <2>2. (new \o r)[i + Len(new) - 1] = r[(i + Len(new) - 1) - Len(new)]
    BY <1>4, <2>1
  <2>3. (i + Len(new) - 1) - Len(new) = i - 1 /\ i - 1 \in 1 .. Len(r) /\ (i - 1) + 1 = i
    BY <1>1, <1>3
  <2> QED BY <1>1, <2>2, <2>3
<1>8. ASSUME NEW i \in DOMAIN (new \o r), i \notin 1 .. Len(new)
      PROVE  \E k \in 2 .. Len(e) : i = k + Len(new) - 1
  <2>1. i - Len(new) + 1 \in 2 .. Len(e) /\ i = (i - Len(new) + 1) + Len(new) - 1
    BY <1>1, <1>3, <1>5, <1>8
  <2> QED BY <2>1
<1>9. /\ \A i \in 2 .. Len(e) : i + Len(new) - 1 \in DOMAIN (new \o r)
      /\ \A i \in 1 .. Len(new) : i \in DOMAIN (new \o r)
  BY <1>1, <1>3, <1>5
<1> QED BY <1>1, <1>2, <1>3, <1>4, <1>5, <1>6, <1>7, <1>8, <1>9 DEF r

\* A sequence without repetition, less one of its elements.
LEMMA OneRemoved ==
  ASSUME NEW S, NEW s \in Seq(S), NEW at \in DOMAIN s,
         \A i, j \in DOMAIN s : s[i] = s[j] => i = j,
         NEW rest, rest = RemoveAt(s, at)
  PROVE  /\ rest \in Seq(S) /\ Len(rest) = Len(s) - 1
         /\ Range(rest) = Range(s) \ {s[at]}
         /\ \A i, j \in DOMAIN rest : rest[i] = rest[j] => i = j
<1> DEFINE n == Len(s)
           a == SubSeq(s, 1, at - 1)
           b == SubSeq(s, at + 1, n)
           r == a \o b
           from(i) == IF i < at THEN i ELSE i + 1
<1>1. n \in Nat /\ DOMAIN s = 1 .. n /\ at \in 1 .. n /\ \A i \in 1 .. n : s[i] \in S
  BY LenProperties, ElementOfSeq
<1> HIDE DEF n
<1>2. /\ a \in Seq(S) /\ Len(a) = at - 1
      /\ \A i \in 1 .. at - 1 : a[i] = s[i]
  BY <1>1, SubSeqProperties
<1>3. /\ b \in Seq(S) /\ Len(b) = n - at
      /\ \A i \in 1 .. n - at : b[i] = s[at + i]
  BY <1>1, SubSeqProperties
<1> HIDE DEF a, b
<1>4. /\ r \in Seq(S) /\ Len(r) = n - 1 /\ DOMAIN r = 1 .. n - 1
      /\ \A i \in 1 .. n - 1 : r[i] = IF i <= at - 1 THEN a[i] ELSE b[i - (at - 1)]
  <2>1. /\ r \in Seq(S) /\ Len(r) = (at - 1) + (n - at)
        /\ \A i \in 1 .. (at - 1) + (n - at) : r[i] = IF i <= at - 1 THEN a[i] ELSE b[i - (at - 1)]
    <3>1. Len(a) = at - 1 /\ Len(b) = n - at
      BY <1>2, <1>3
    <3>2. /\ r \in Seq(S) /\ Len(r) = Len(a) + Len(b)
          /\ \A i \in 1 .. Len(a) + Len(b) : r[i] = IF i <= Len(a) THEN a[i] ELSE b[i - Len(a)]
      <4>1. a \in Seq(S) /\ b \in Seq(S)
        BY <1>2, <1>3
      <4> QED BY <4>1, ConcatProperties
    <3> HIDE DEF r
    <3> QED BY <3>1, <3>2
  <2> HIDE DEF r
  <2>2. (at - 1) + (n - at) = n - 1
    BY <1>1
  <2> QED BY <2>1, <2>2, LenProperties
<1> HIDE DEF r
<1>5. ASSUME NEW i \in 1 .. n - 1
      PROVE  from(i) \in 1 .. n /\ from(i) # at /\ r[i] = s[from(i)]
  <2>1. CASE i < at
    BY <1>1, <1>2, <1>4, <2>1
  <2>2. CASE ~ (i < at)
    <3>1. i - (at - 1) \in 1 .. n - at /\ at + (i - (at - 1)) = i + 1
      BY <1>1, <2>2
    <3>2. r[i] = b[i - (at - 1)]
      BY <1>1, <1>4, <2>2
    <3>3. b[i - (at - 1)] = s[at + (i - (at - 1))]
      BY <1>3, <3>1
    <3> QED BY <1>1, <2>2, <3>1, <3>2, <3>3
  <2> QED BY <2>1, <2>2
<1>6. ASSUME NEW j \in 1 .. n, j # at
      PROVE  \E i \in 1 .. n - 1 : from(i) = j
  <2>1. CASE j < at
    BY <1>1, <2>1
  <2>2. CASE ~ (j < at)
    <3>1. j - 1 \in 1 .. n - 1 /\ from(j - 1) = j
      BY <1>1, <1>6, <2>2
    <3> QED BY <3>1
  <2> QED BY <2>1, <2>2
<1>7. Range(r) = Range(s) \ {s[at]}
  <2>1. ASSUME NEW i \in 1 .. n - 1 PROVE r[i] \in Range(s) \ {s[at]}
    <3> HIDE DEF from
    <3> QED BY <1>1, <1>5 DEF Range
  <2>2. ASSUME NEW j \in 1 .. n, s[j] # s[at] PROVE s[j] \in Range(r)
    <3> HIDE DEF from
    <3>1. PICK i \in 1 .. n - 1 : from(i) = j
      BY <1>6, <2>2
    <3> QED BY <1>4, <1>5, <3>1 DEF Range
  <2> QED BY <1>1, <1>4, <2>1, <2>2 DEF Range
<1>8. ASSUME NEW i \in 1 .. n - 1, NEW j \in 1 .. n - 1, r[i] = r[j]
      PROVE  i = j
  <2>1. from(i) = from(j)
    <3> HIDE DEF from
    <3> QED BY <1>1, <1>5, <1>8
  <2> QED BY <1>1, <2>1
<1>9. rest = r
  BY DEF RemoveAt, r, a, b, n
<1> QED BY <1>4, <1>7, <1>8, <1>9 DEF n

\* The parts of a value are as many as the values inside it if none is there twice.
LEMMA PartsOnce ==
  ASSUME NEW S, NEW s \in Seq(S)
  PROVE  Cardinality(Range(s)) = Len(s)
           <=> \A i, j \in DOMAIN s : s[i] = s[j] => i = j
<1> DEFINE T == Range(s)
<1>1. Len(s) \in Nat /\ DOMAIN s = 1 .. Len(s) /\ s \in [1 .. Len(s) -> S]
  BY LenProperties
<1>2. s \in Surjection(1 .. Len(s), T)
  BY <1>1 DEF Surjection, Range
<1>3. IsFiniteSet(1 .. Len(s)) /\ Cardinality(1 .. Len(s)) = Len(s)
  <2>1. PICK n \in Nat : n = Len(s)
    BY <1>1
  <2>2. IsFiniteSet(1 .. n) /\ Cardinality(1 .. n) = IF 1 > n THEN 0 ELSE n - 1 + 1
    BY FS_Interval
  <2> QED BY <2>1, <2>2
<1>4. Cardinality(T) = Len(s) <=> s \in Injection(1 .. Len(s), T)
  BY <1>2, <1>3, FS_Surjection
<1>5. s \in Injection(1 .. Len(s), T) <=> \A i, j \in DOMAIN s : s[i] = s[j] => i = j
  BY <1>1, <1>2 DEF Injection, Surjection, IsInjective
<1> QED BY <1>4, <1>5
-----------------------------------------------------------------------------
(* The invariant.                                                           *)

Items == [do : {"visit", "unlock"}, value : Nodes]

\* The values that a sequence of items visits.
VisitsOf(e) == {v \in Nodes : \E i \in DOMAIN e : e[i] = Visit(v)}

ToVisit(t) == VisitsOf(agenda[t])

\* No item is there twice.
Once(e) == \A i, j \in DOMAIN e : e[i] = e[j] => i = j

\* What is directly inside a lock is visited before the lock is released.
Nested(t) ==
  \A l \in Locks : \A v \in Inside(heap, l) : \A i \in DOMAIN agenda[t] :
    agenda[t][i] = Visit(v) =>
      \E j \in DOMAIN agenda[t] : i < j /\ agenda[t][j] = Unlock(l)

\* What is to be released is held.
UnlocksHeld(t) ==
  \A l \in Nodes : \A i \in DOMAIN agenda[t] : agenda[t][i] = Unlock(l) => t \in held[l]

InTurn(t) == Once(agenda[t]) /\ Nested(t) /\ UnlocksHeld(t)

\* The values in D are those that t has entered so far or is going to visit: a value
\* is among them only if its owner has been entered, or if it is shared and the
\* Context knows it.
Entered(t, D) ==
  /\ pc[t] = "ready" => D = {}
  /\ ToVisit(t) \subseteq D
  /\ \A l \in Nodes : t \in held[l] => l \in D \ ToVisit(t)
  /\ \A w \in Nodes : \A v \in Inside(heap, w) \cap D :
       /\ Value(w).kind \in {"arc", "rc"} => v \in context[t][Value(w).kind]
       /\ Value(w).kind \notin {"arc", "rc", "ref"} => w \in D \ ToVisit(t)

SizeTypes ==
  /\ WellOwned(heap)
  /\ pc \in [Threads -> {"ready", "sizing", "done"}]
  /\ agenda \in [Threads -> Seq(Items)]
  /\ context \in [Threads -> [arc : SUBSET Nodes, rc : SUBSET Nodes]]
  /\ held \in [Nodes -> SUBSET (Threads \cup {Client})]
  /\ client \in [pc : {"idle"}, uses : Nat]
                  \cup [pc : {"waiting", "holding"}, uses : Nat, lock : Locks]
  /\ client.pc = "holding" => held[client.lock] = {Client}

OwnInv ==
  /\ SizeTypes
  /\ \A t \in Threads : InTurn(t) /\ \E D \in SUBSET Nodes : Entered(t, D)

\* A value inside two others is shared by handles of one kind, references apart.
LEMMA OneOwner ==
  ASSUME NEW h, WellOwned(h), NEW u \in DOMAIN h.value, NEW w \in DOMAIN h.value, u # w,
         NEW x \in Inside(h, u) \cap Inside(h, w),
         "ref" \notin {h.value[u].kind, h.value[w].kind}
  PROVE  h.value[u].kind = h.value[w].kind /\ h.value[u].kind \in {"arc", "rc"}
<1>1. u \in Nat \ {0} /\ w \in Nat \ {0}
  BY LenProperties DEF WellOwned
<1>2. u \in 1 .. w - 1 \/ w \in 1 .. u - 1
  BY <1>1
<1> QED BY <1>2 DEF WellOwned

\* The visits of the parts of a value.
LEMMA VisitsOfParts ==
  ASSUME WellOwned(heap), NEW w \in Nodes
  PROVE  /\ Visits(w) \in Seq(Items) /\ Once(Visits(w))
         /\ VisitsOf(Visits(w)) = Inside(heap, w)
         /\ Len(Visits(w)) = Len(Value(w).parts)
         /\ \A i \in DOMAIN Visits(w) :
              \E v \in Inside(heap, w) : Visits(w)[i] = Visit(v)
         /\ Inside(heap, w) \subseteq Nodes
         /\ Value(w).kind \in {"box", "arc", "rc"} => Inside(heap, w) = {Pointee(w)}
<1> DEFINE s == Value(w).parts
<1>1. /\ s \in Seq(Nat) /\ Inside(heap, w) = Range(s)
      /\ Inside(heap, w) \subseteq Nodes /\ Cardinality(Inside(heap, w)) = Len(s)
      /\ Value(w).kind \in {"box", "arc", "rc"} => Len(s) = 1
  <2>1. Value(w) \in Values
    BY ElementOfSeq DEF WellOwned, Nodes, Value
  <2>2. s \in Seq(Nat)
    BY <2>1 DEF Values
  <2>3. Inside(heap, w) = Range(s)
    BY DEF Inside, Range, Value
  <2> QED BY <2>2, <2>3 DEF WellOwned, Nodes, Value
<1>2. Visits(w) = [i \in DOMAIN s |-> Visit(s[i])]
  BY DEF Visits
<1> HIDE DEF s
<1>3. /\ Len(s) \in Nat /\ DOMAIN s = 1 .. Len(s)
      /\ \A i, j \in DOMAIN s : s[i] = s[j] => i = j
  BY <1>1, PartsOnce, LenProperties
<1>4. \A v, x : Visit(v) = Visit(x) => v = x
  <2>1. \A v : Visit(v).value = v
    BY DEF Visit
  <2> QED BY <2>1
<1>5. \A v \in Nodes : Visit(v) \in Items
  BY DEF Visit, Items
<1>6. \A i \in DOMAIN s : s[i] \in Inside(heap, w) /\ s[i] \in Nodes
  BY <1>1 DEF Range
<1>7. Visits(w) \in Seq(Items) /\ Len(Visits(w)) = Len(s)
  <2>1. Visits(w) \in [1 .. Len(s) -> Items]
    BY <1>2, <1>3, <1>5, <1>6
  <2>2. Visits(w) \in Seq(Items)
    BY <1>3, <2>1, SeqDef
  <2> QED BY <1>3, <2>1, <2>2, LenProperties
<1>8. Once(Visits(w))
  BY <1>2, <1>3, <1>4 DEF Once
<1>9. VisitsOf(Visits(w)) = Inside(heap, w)
  <2>1. ASSUME NEW v \in Inside(heap, w) PROVE v \in VisitsOf(Visits(w))
    <3>1. PICK i \in DOMAIN s : v = s[i]
      BY <1>1 DEF Range
    <3> QED BY <1>2, <1>6, <3>1 DEF VisitsOf
  <2>2. ASSUME NEW v \in VisitsOf(Visits(w)) PROVE v \in Inside(heap, w)
    <3>1. PICK i \in DOMAIN s : Visit(s[i]) = Visit(v)
      BY <1>2 DEF VisitsOf
    <3> QED BY <1>4, <1>6, <3>1
  <2> QED BY <2>1, <2>2
<1>10. ASSUME Value(w).kind \in {"box", "arc", "rc"}
       PROVE  Inside(heap, w) = {Pointee(w)}
  <2>1. DOMAIN s = {1}
    <3>1. Len(s) = 1 /\ DOMAIN s = 1 .. Len(s)
      BY <1>1, <1>3, <1>10
    <3>2. 1 .. 1 = {1}
      OBVIOUS
    <3> QED BY <3>1, <3>2
  <2> QED BY <1>1, <2>1 DEF Pointee, s, Range
<1>11. \A i \in DOMAIN Visits(w) : \E v \in Inside(heap, w) : Visits(w)[i] = Visit(v)
  BY <1>2, <1>6
<1> QED BY <1>1, <1>7, <1>8, <1>9, <1>10, <1>11 DEF s
-----------------------------------------------------------------------------
(* The steps of a thread.                                                   *)

\* Items of both kinds are told apart by what they are about.
LEMMA ItemsDiffer ==
  /\ \A v, x : Visit(v) = Visit(x) => v = x
  /\ \A v, x : Unlock(v) = Unlock(x) => v = x
  /\ \A v, x : Visit(v) # Unlock(x)
<1>1. \A v : /\ Visit(v).value = v /\ Visit(v).do = "visit"
             /\ Unlock(v).value = v /\ Unlock(v).do = "unlock"
  BY DEF Visit, Unlock
<1> QED BY <1>1

\* An agenda is nested if its items are, and the heap is what it was.
LEMMA NestedThen ==
  ASSUME NEW t \in Threads, NEW f, agenda'[t] = f, UNCHANGED heap,
         \A l \in Locks : \A v \in Inside(heap, l) : \A i \in DOMAIN f :
           f[i] = Visit(v) => \E j \in DOMAIN f : i < j /\ f[j] = Unlock(l)
  PROVE  Nested(t)'
BY DEF Nested, Locks, Nodes, Value

\* A thread that enters a value it has not entered before, and goes on to parts of
\* it that it has not entered either, keeps to the order of owners and guards.
LEMMA VisitInTurn ==
  ASSUME SizeTypes, NEW t \in Threads, InTurn(t), NEW D \in SUBSET Nodes, Entered(t, D),
         agenda[t] # << >>, NEW w \in Nodes, Head(agenda[t]) = Visit(w),
         NEW new \in Seq(Items), Once(new), VisitsOf(new) \subseteq Inside(heap, w) \ D,
         VisitsOf(new) # {} => Value(w).kind # "ref",
         \A i \in DOMAIN new : \/ \E v \in Inside(heap, w) : new[i] = Visit(v)
                               \/ new[i] = Unlock(w) /\ t \in held'[w],
         w \in Locks =>
           \A i \in DOMAIN new : \A v \in Inside(heap, w) :
             new[i] = Visit(v) => \E j \in DOMAIN new : i < j /\ new[j] = Unlock(w),
         NEW bytes, Replace(t, new, bytes),
         \A l \in Nodes : t \in held[l] => t \in held'[l]
  PROVE  /\ InTurn(t)'
         /\ ToVisit(t)' = (ToVisit(t) \ {w}) \cup VisitsOf(new)
<1> DEFINE e == agenda[t]
           n == Len(new)
           f == new \o Tail(e)
<1>1. e \in Seq(Items) /\ agenda'[t] = f /\ UNCHANGED heap
  BY DEF SizeTypes, Replace
<1>2. /\ Len(e) \in Nat \ {0} /\ DOMAIN e = 1 .. Len(e) /\ e[1] = Visit(w)
      /\ n \in Nat /\ DOMAIN new = 1 .. n
      /\ \A i \in 1 .. n : i \in DOMAIN f /\ f[i] = new[i]
      /\ \A k \in 2 .. Len(e) : k + n - 1 \in DOMAIN f /\ f[k + n - 1] = e[k]
      /\ \A i \in DOMAIN f : i \in 1 .. n \/ \E k \in 2 .. Len(e) : i = k + n - 1
  <2>1. e # << >> /\ Head(e) = Visit(w)
    OBVIOUS
  <2> HIDE DEF e
  <2> QED BY <1>1, <2>1, ReplacedHead
<1>3. Once(e) /\ Nested(t) /\ UnlocksHeld(t)
  BY DEF InTurn
<1>4. w \in VisitsOf(e) /\ w \in D /\ t \notin held[w]
  <2>1. 1 \in DOMAIN e
    BY <1>2
  <2>2. w \in VisitsOf(e)
    BY <1>2, <2>1 DEF VisitsOf
  <2> QED BY <2>2 DEF Entered, ToVisit
<1> HIDE DEF n, f
<1>5. ASSUME NEW k \in 2 .. Len(e)
      PROVE  e[k] # Visit(w) /\ e[k] # Unlock(w) /\ k \in DOMAIN e
  <2>1. k \in DOMAIN e /\ 1 \in DOMAIN e /\ k # 1
    BY <1>2
  <2>2. e[k] # Visit(w)
    BY <1>2, <1>3, <2>1 DEF Once
  <2>3. e[k] # Unlock(w)
    BY <1>3, <1>4, <2>1 DEF UnlocksHeld
  <2> QED BY <2>1, <2>2, <2>3
<1>6. ASSUME NEW i \in 1 .. n, NEW v \in Nodes, new[i] = Visit(v)
      PROVE  v \in Inside(heap, w) /\ v \notin D /\ v \in VisitsOf(new)
  BY <1>2, <1>6 DEF VisitsOf
<1>7. ASSUME NEW i \in 1 .. n, NEW k \in 2 .. Len(e) PROVE new[i] # e[k]
  <2>1. CASE new[i] = Unlock(w)
    BY <1>5, <2>1
  <2>2. ASSUME NEW v \in Inside(heap, w), new[i] = Visit(v), e[k] = Visit(v)
        PROVE  FALSE
    <3>1. v \in Nodes
      BY VisitsOfParts DEF SizeTypes
    <3>2. v \in VisitsOf(e)
      BY <1>5, <2>2, <3>1 DEF VisitsOf
    <3> QED BY <1>6, <2>2, <3>1, <3>2 DEF Entered, ToVisit
  <2> QED BY <1>2, <2>1, <2>2
<1>8. Once(f)
  <2> SUFFICES ASSUME NEW i \in DOMAIN f, NEW j \in DOMAIN f, f[i] = f[j] PROVE i = j
    BY DEF Once
  <2>1. CASE i \in 1 .. n /\ j \in 1 .. n
    BY <1>2, <2>1 DEF Once
  <2>2. CASE i \in 1 .. n /\ j \notin 1 .. n
    <3>1. PICK k \in 2 .. Len(e) : j = k + n - 1
      BY <1>2, <2>2
    <3>2. f[i] = new[i] /\ f[j] = e[k]
      BY <1>2, <2>2, <3>1
    <3> QED BY <1>7, <2>2, <3>2
  <2>3. CASE i \notin 1 .. n /\ j \in 1 .. n
    <3>1. PICK k \in 2 .. Len(e) : i = k + n - 1
      BY <1>2, <2>3
    <3>2. f[j] = new[j] /\ f[i] = e[k]
      BY <1>2, <2>3, <3>1
    <3> QED BY <1>7, <2>3, <3>2
  <2>4. CASE i \notin 1 .. n /\ j \notin 1 .. n
    <3>1. PICK k \in 2 .. Len(e) : i = k + n - 1
      BY <1>2, <2>4
    <3>2. PICK m \in 2 .. Len(e) : j = m + n - 1
      BY <1>2, <2>4
    <3>3. e[k] = e[m]
      BY <1>2, <3>1, <3>2
    <3>4. k = m
      BY <1>3, <1>5, <3>3 DEF Once
    <3> QED BY <3>1, <3>2, <3>4
  <2> QED BY <2>1, <2>2, <2>3, <2>4
<1>9. ASSUME NEW l \in Locks, NEW v \in Inside(heap, l), NEW i \in DOMAIN f, f[i] = Visit(v)
      PROVE  \E j \in DOMAIN f : i < j /\ f[j] = Unlock(l)
  <2>1. l \in Nodes /\ Value(l).kind \in {"mutex", "rwlock"}
    BY DEF Locks
  <2>2. v \in Nodes
    BY <2>1, VisitsOfParts DEF SizeTypes
  <2>3. CASE i \in 1 .. n
    <3>1. new[i] = Visit(v)
      BY <1>2, <1>9, <2>3
    <3>2. v \in Inside(heap, w) /\ v \in VisitsOf(new)
      BY <1>6, <2>2, <2>3, <3>1
    <3>3. l = w
      <4>1. WellOwned(heap) /\ l \in DOMAIN heap.value /\ w \in DOMAIN heap.value
            /\ heap.value[l].kind \in {"mutex", "rwlock"} /\ heap.value[w].kind # "ref"
        BY <2>1, <3>2 DEF SizeTypes, Nodes, Value
      <4> QED BY <3>2, <4>1, OneOwner
    <3>4. PICK j \in DOMAIN new : i < j /\ new[j] = Unlock(w)
      BY <1>2, <2>3, <3>1, <3>2, <3>3
    <3> QED BY <1>2, <3>3, <3>4
  <2>4. CASE i \notin 1 .. n
    <3>1. PICK k \in 2 .. Len(e) : i = k + n - 1
      BY <1>2, <2>4
    <3>2. e[k] = Visit(v) /\ k \in DOMAIN e
      BY <1>2, <1>5, <1>9, <3>1
    <3>3. PICK j \in DOMAIN e : k < j /\ e[j] = Unlock(l)
      BY <1>3, <3>2 DEF Nested
    <3>4. j \in 2 .. Len(e) /\ i < j + n - 1
      BY <1>2, <3>1, <3>3
    <3> QED BY <1>2, <3>3, <3>4
  <2> QED BY <2>3, <2>4
<1>10. ASSUME NEW l \in Nodes, NEW i \in DOMAIN f, f[i] = Unlock(l) PROVE t \in held'[l]
  <2>1. CASE i \in 1 .. n
    BY <1>2, <1>10, <2>1, ItemsDiffer
  <2>2. CASE i \notin 1 .. n
    <3>1. PICK k \in 2 .. Len(e) : i = k + n - 1
      BY <1>2, <2>2
    <3>2. e[k] = Unlock(l) /\ k \in DOMAIN e
      BY <1>2, <1>5, <1>10, <3>1
    <3> QED BY <1>3, <3>2 DEF UnlocksHeld
  <2> QED BY <2>1, <2>2
<1>11. VisitsOf(f) = (VisitsOf(e) \ {w}) \cup VisitsOf(new)
  <2>1. ASSUME NEW v \in VisitsOf(f) PROVE v \in (VisitsOf(e) \ {w}) \cup VisitsOf(new)
    <3>1. v \in Nodes
      BY DEF VisitsOf
    <3>2. PICK i \in DOMAIN f : f[i] = Visit(v)
      BY DEF VisitsOf
    <3>3. CASE i \in 1 .. n
      BY <1>2, <1>6, <3>1, <3>2, <3>3
    <3>4. CASE i \notin 1 .. n
      <4>1. PICK k \in 2 .. Len(e) : i = k + n - 1
        BY <1>2, <3>4
      <4>2. e[k] = Visit(v) /\ k \in DOMAIN e /\ v # w
        BY <1>2, <1>5, <3>2, <4>1
      <4> QED BY <3>1, <4>2 DEF VisitsOf
    <3> QED BY <3>3, <3>4
  <2>2. ASSUME NEW v \in VisitsOf(e), v # w PROVE v \in VisitsOf(f)
    <3>1. PICK k \in DOMAIN e : e[k] = Visit(v)
      BY DEF VisitsOf
    <3>2. k \in 2 .. Len(e)
      BY <1>2, <2>2, <3>1, ItemsDiffer
    <3> QED BY <1>2, <3>1, <3>2 DEF VisitsOf
  <2>3. ASSUME NEW v \in VisitsOf(new) PROVE v \in VisitsOf(f)
    <3>1. PICK i \in 1 .. n : new[i] = Visit(v)
      BY <1>2 DEF VisitsOf
    <3> QED BY <1>2, <3>1 DEF VisitsOf
  <2> QED BY <2>1, <2>2, <2>3
<1>12. InTurn(t)'
  <2>1. Once(agenda[t])'
    BY <1>1, <1>8 DEF Once
  <2>2. Nested(t)'
    BY <1>1, <1>9, NestedThen
  <2>3. UnlocksHeld(t)'
    BY <1>1, <1>10 DEF UnlocksHeld, Nodes
  <2> QED BY <2>1, <2>2, <2>3 DEF InTurn
<1>13. ToVisit(t)' = VisitsOf(f)
  BY <1>1 DEF ToVisit, VisitsOf, Nodes
<1> QED BY <1>11, <1>12, <1>13 DEF ToVisit

\* What the thread has entered then.
LEMMA VisitEntered ==
  ASSUME SizeTypes, NEW t \in Threads, NEW D \in SUBSET Nodes, Entered(t, D),
         NEW w \in ToVisit(t), NEW N, N \subseteq Inside(heap, w) \ D,
         N # {} => Value(w).kind # "ref",
         ToVisit(t)' = (ToVisit(t) \ {w}) \cup N,
         UNCHANGED <<heap, pc>>,
         \A l \in Nodes : t \in held'[l] => l = w \/ t \in held[l],
         \A kind \in {"arc", "rc"} : context[t][kind] \subseteq context'[t][kind],
         Value(w).kind \in {"arc", "rc"} => N \subseteq context'[t][Value(w).kind]
  PROVE  D \cup N \in SUBSET Nodes' /\ Entered(t, D \cup N)'
<1> DEFINE before == ToVisit(t)
           after == ToVisit(t)'
<1>1. /\ w \in Nodes /\ w \in D /\ before \subseteq D
      /\ \A l \in Nodes : t \in held[l] => l \in D \ before
      /\ \A u \in Nodes : \A v \in Inside(heap, u) \cap D :
           /\ Value(u).kind \in {"arc", "rc"} => v \in context[t][Value(u).kind]
           /\ Value(u).kind \notin {"arc", "rc", "ref"} => u \in D \ before
  BY DEF Entered, ToVisit, VisitsOf
<1>2. /\ Nodes' = Nodes /\ \A v : Value(v)' = Value(v)
      /\ \A v : Inside(heap, v)' = Inside(heap, v)
  BY DEF Nodes, Value
<1>3. Inside(heap, w) \subseteq Nodes
  BY <1>1, VisitsOfParts DEF SizeTypes
<1>4. pc'[t] # "ready"
  BY <1>1 DEF Entered
<1>5. after = (before \ {w}) \cup N /\ N \cap D = {} /\ w \notin N /\ w \notin after
  BY <1>1
<1> HIDE DEF before, after
<1>6. after \subseteq D \cup N
  BY <1>1, <1>5
<1>7. ASSUME NEW l \in Nodes, t \in held'[l] PROVE l \in (D \cup N) \ after
  BY <1>1, <1>5, <1>7
<1>8. ASSUME NEW u \in Nodes, NEW v \in Inside(heap, u) \cap (D \cup N)
      PROVE  /\ Value(u).kind \in {"arc", "rc"} => v \in context'[t][Value(u).kind]
             /\ Value(u).kind \notin {"arc", "rc", "ref"} => u \in (D \cup N) \ after
  <2>1. CASE v \in D
    BY <1>1, <1>5, <1>8, <2>1
  <2>2. CASE v \in N /\ u = w
    BY <1>1, <1>5, <2>2
  <2>3. CASE v \in N /\ u # w
    <3>1. Value(w).kind # "ref" /\ v \in Inside(heap, w) /\ v \in Inside(heap, u)
      BY <2>3
    <3>2. \/ Value(u).kind = "ref"
          \/ Value(u).kind = Value(w).kind /\ Value(u).kind \in {"arc", "rc"}
      BY <1>1, <2>3, <3>1, OneOwner DEF SizeTypes, Nodes, Value
    <3> QED BY <2>3, <3>2
  <2> QED BY <2>1, <2>2, <2>3
<1> QED BY <1>2, <1>3, <1>4, <1>6, <1>7, <1>8 DEF Entered, after

\* A thread whose agenda, Context and guards stay the same.
LEMMA OtherThread ==
  ASSUME NEW t \in Threads, InTurn(t), NEW D \in SUBSET Nodes, Entered(t, D),
         UNCHANGED heap, agenda'[t] = agenda[t], context'[t] = context[t],
         pc'[t] = "ready" => pc[t] = "ready",
         \A l \in Nodes : t \in held'[l] <=> t \in held[l]
  PROVE  InTurn(t)' /\ D \in SUBSET Nodes' /\ Entered(t, D)'
<1>1. /\ Nodes' = Nodes /\ \A v : Value(v)' = Value(v)
      /\ \A v : Inside(heap, v)' = Inside(heap, v)
  BY DEF Nodes, Value
<1>2. ToVisit(t)' = ToVisit(t)
  BY <1>1 DEF ToVisit, VisitsOf
<1>3. Entered(t, D)'
  BY <1>1, <1>2 DEF Entered
<1>4. Once(agenda[t])'
  BY DEF InTurn, Once
<1>5. Nested(t)'
  <2>1. \A l \in Locks : \A v \in Inside(heap, l) : \A i \in DOMAIN agenda[t] :
          agenda[t][i] = Visit(v) =>
            \E j \in DOMAIN agenda[t] : i < j /\ agenda[t][j] = Unlock(l)
    BY DEF InTurn, Nested
  <2> QED BY <2>1, NestedThen
<1>6. UnlocksHeld(t)'
  BY <1>1 DEF InTurn, UnlocksHeld
<1> QED BY <1>1, <1>3, <1>4, <1>5, <1>6 DEF InTurn

\* What a thread is about to visit.
LEMMA HeadVisit ==
  ASSUME SizeTypes, NEW t \in Threads, NEW kinds, AtVisit(t, kinds)
  PROVE  LET w == Head(agenda[t]).value
         IN  /\ w \in Nodes /\ Value(w).kind \in kinds /\ Head(agenda[t]) = Visit(w)
             /\ w \in ToVisit(t)
<1> DEFINE x == Head(agenda[t])
<1>1. agenda[t] \in Seq(Items) /\ agenda[t] # << >> /\ x.do = "visit"
      /\ Value(x.value).kind \in kinds
  BY DEF SizeTypes, AtVisit
<1>2. x \in Items /\ x = agenda[t][1] /\ 1 \in DOMAIN agenda[t]
  BY <1>1, HeadTailProperties, EmptySeq, LenProperties
<1>3. x.value \in Nodes /\ x = Visit(x.value)
  <2> HIDE DEF x
  <2> QED BY <1>1, <1>2 DEF Items, Visit
<1> QED BY <1>1, <1>2, <1>3 DEF VisitsOf, ToVisit

\* The types survive a step of a thread.
LEMMA TypesThen ==
  ASSUME SizeTypes, NEW t \in Threads, NEW new \in Seq(Items), NEW bytes,
         Replace(t, new, bytes), agenda[t] # << >>,
         context' \in [Threads -> [arc : SUBSET Nodes, rc : SUBSET Nodes]],
         held' \in [Nodes -> SUBSET (Threads \cup {Client})],
         client.pc = "holding" => held'[client.lock] = {Client}
  PROVE  SizeTypes'
<1>1. agenda[t] \in Seq(Items)
  BY DEF SizeTypes
<1>2. new \o Tail(agenda[t]) \in Seq(Items)
  BY <1>1, ReplacedHead
<1>3. agenda' \in [Threads -> Seq(Items)]
  BY <1>2 DEF SizeTypes, Replace
<1>6. UNCHANGED <<heap, pc, client>>
  BY DEF Replace
<1>4. Nodes' = Nodes /\ Items' = Items /\ Locks' = Locks
  BY <1>6 DEF Nodes, Items, Locks, Value
<1>5. WellOwned(heap)'
  BY <1>6 DEF SizeTypes, WellOwned
<1> QED BY <1>3, <1>4, <1>5, <1>6 DEF SizeTypes

\* What is inside w of the heap h, unless w is in cut or a reference.
Leads(h, cut, w) == IF w \in cut \/ h.value[w].kind = "ref" THEN {} ELSE Inside(h, w)

HandleKinds == {"box", "arc", "rc"}

\* What t's Context knows.
Known(t) == context[t].arc \cup context[t].rc

\* What a thread may do at value w: visit parts that are new to it, and release the
\* guard of w after them.
GoesOn(t, w, new) ==
  /\ new \in Seq(Items) /\ Once(new)
  /\ \A D \in SUBSET Nodes : Entered(t, D) => VisitsOf(new) \subseteq Inside(heap, w) \ D
  /\ VisitsOf(new) # {} => Value(w).kind # "ref"
  /\ \A i \in DOMAIN new : \/ \E v \in Inside(heap, w) : new[i] = Visit(v)
                           \/ new[i] = Unlock(w) /\ t \in held'[w]
  /\ w \in Locks =>
       \A i \in DOMAIN new : \A v \in Inside(heap, w) :
         new[i] = Visit(v) => \E j \in DOMAIN new : i < j /\ new[j] = Unlock(w)

\* The guards in X, t's or none, are added to those of w.
Guards(t, w, X) ==
  /\ X \in {{}, {t}}
  /\ held' \in [Nodes -> SUBSET (Threads \cup {Client})]
  /\ \A l \in Nodes : held'[l] = IF l = w THEN held[l] \cup X ELSE held[l]
  /\ X # {} /\ client.pc = "holding" => client.lock # w

\* The Context of t becomes C, and knows what t goes on to.
Knows(t, w, new, C) ==
  /\ C \in [arc : SUBSET Nodes, rc : SUBSET Nodes]
  /\ context' \in [Threads -> [arc : SUBSET Nodes, rc : SUBSET Nodes]]
  /\ \A u \in Threads : context'[u] = IF u = t THEN C ELSE context[u]
  /\ \A kind \in {"arc", "rc"} : context[t][kind] \subseteq C[kind]
  /\ Value(w).kind \in {"arc", "rc"} => VisitsOf(new) \subseteq C[Value(w).kind]

\* What t does at w, its head: it goes on to new, adds bytes and keeps guards X.
Enters(t, w, new, bytes, X, C) ==
  /\ w = Head(agenda[t]).value /\ \E kinds : AtVisit(t, kinds)
  /\ Replace(t, new, bytes)
  /\ GoesOn(t, w, new) /\ Guards(t, w, X) /\ Knows(t, w, new, C)

\* What is counted at w: its buffer, or what its handle points at; and that all that w
\* leads to is gone on to or known.
Counts(t, w, new, bytes, C, Q) ==
  /\ Q = IF Value(w).kind \in HandleKinds THEN VisitsOf(new) ELSE {}
  /\ Q \in {{}, {Pointee(w)}}
  /\ bytes = IF Q = {} THEN OwnBytes(w) ELSE Value(Pointee(w)).size
  /\ Leads(heap, poisoned, w) \subseteq VisitsOf(new) \cup Known(t)
  /\ C.arc \cup C.rc \subseteq Known(t) \cup Q
  /\ w \in Locks /\ VisitsOf(new) # {} => w \notin poisoned

\* The values N of new, and E, those of D besides.
Adds(D, new, N, E) == N = VisitsOf(new) /\ E = D \cup N

\* A thread that does what is to be done at a value has entered what it goes on to.
LEMMA VisitEnters ==
  ASSUME OwnInv, NEW t \in Threads, NEW w, NEW bytes, NEW new, NEW X, NEW C,
         Enters(t, w, new, bytes, X, C), NEW D \in SUBSET Nodes, Entered(t, D),
         NEW N, NEW E, Adds(D, new, N, E)
  PROVE  /\ w \in ToVisit(t) /\ w \in Nodes /\ N \subseteq Inside(heap, w) \ D
         /\ SizeTypes' /\ InTurn(t)' /\ ToVisit(t)' = (ToVisit(t) \ {w}) \cup N
         /\ E \in SUBSET Nodes' /\ Entered(t, E)'
<1>1. /\ SizeTypes /\ InTurn(t) /\ w = Head(agenda[t]).value
      /\ Replace(t, new, bytes) /\ GoesOn(t, w, new) /\ Guards(t, w, X) /\ Knows(t, w, new, C)
  BY DEF OwnInv, Enters
<1>2. /\ w \in Nodes /\ Head(agenda[t]) = Visit(w) /\ w \in ToVisit(t)
      /\ agenda[t] # << >>
  <2>1. PICK kinds : AtVisit(t, kinds)
    BY DEF Enters
  <2> QED BY <1>1, <2>1, HeadVisit DEF AtVisit
<1>3. /\ agenda' = [agenda EXCEPT ![t] = new \o Tail(@)]
      /\ UNCHANGED <<heap, pc, client>> /\ new \in Seq(Items)
  BY <1>1 DEF Replace, GoesOn
<1>4. /\ held \in [Nodes -> SUBSET (Threads \cup {Client})]
      /\ context \in [Threads -> [arc : SUBSET Nodes, rc : SUBSET Nodes]]
      /\ agenda \in [Threads -> Seq(Items)]
      /\ client.pc = "holding" => held[client.lock] = {Client}
      /\ client.pc = "holding" => client.lock \in Nodes
  BY <1>1 DEF SizeTypes, Locks
<1>5. /\ \A l \in Nodes : held'[l] = IF l = w THEN held[l] \cup X ELSE held[l]
      /\ held' \in [Nodes -> SUBSET (Threads \cup {Client})]
      /\ X \in {{}, {t}} /\ (X # {} /\ client.pc = "holding" => client.lock # w)
  BY <1>1 DEF Guards
<1>6. /\ context'[t] = C /\ \A u \in Threads \ {t} : context'[u] = context[u]
      /\ context' \in [Threads -> [arc : SUBSET Nodes, rc : SUBSET Nodes]]
  BY <1>1 DEF Knows
<1>7. SizeTypes'
  <2>1. client.pc = "holding" => held'[client.lock] = {Client}
    BY <1>4, <1>5
  <2> QED BY <1>1, <1>2, <1>3, <1>5, <1>6, <2>1, TypesThen
<1>9. N = VisitsOf(new)
  BY DEF Adds
<1>10. N \subseteq Inside(heap, w) \ D
  BY <1>1, <1>9 DEF GoesOn
<1>11. \A l \in Nodes : /\ t \in held[l] => t \in held'[l]
                        /\ t \in held'[l] => l = w \/ t \in held[l]
  BY <1>5
<1>12. /\ InTurn(t)'
       /\ ToVisit(t)' = (ToVisit(t) \ {w}) \cup N
  <2>1. /\ VisitsOf(new) \subseteq Inside(heap, w) \ D
        /\ \A l \in Nodes : t \in held[l] => t \in held'[l]
    BY <1>9, <1>10, <1>11
  <2>2. /\ InTurn(t)'
        /\ ToVisit(t)' = (ToVisit(t) \ {w}) \cup VisitsOf(new)
    BY <1>1, <1>2, <2>1, VisitInTurn DEF GoesOn
  <2> QED BY <1>9, <2>2
<1>13. E \in SUBSET Nodes' /\ Entered(t, E)'
  <2>1. /\ \A kind \in {"arc", "rc"} : context[t][kind] \subseteq context'[t][kind]
        /\ Value(w).kind \in {"arc", "rc"} => N \subseteq context'[t][Value(w).kind]
        /\ N # {} => Value(w).kind # "ref"
    BY <1>1, <1>6, <1>9 DEF Knows, GoesOn
  <2>2. ToVisit(t)' = (ToVisit(t) \ {w}) \cup N
    BY <1>12
  <2>3. \A l \in Nodes : t \in held'[l] => l = w \/ t \in held[l]
    BY <1>11
  <2>4. SizeTypes /\ UNCHANGED <<heap, pc>> /\ w \in ToVisit(t)
    BY <1>1, <1>2, <1>3
  <2>5. D \cup N \in SUBSET Nodes' /\ Entered(t, D \cup N)'
    BY <1>10, <2>1, <2>2, <2>3, <2>4, VisitEntered
  <2> QED BY <2>5 DEF Adds
<1> QED BY <1>2, <1>7, <1>10, <1>12, <1>13

\* So it keeps to the invariant.
LEMMA VisitStep ==
  ASSUME OwnInv, NEW t \in Threads, NEW w, NEW bytes, NEW new, NEW X, NEW C,
         Enters(t, w, new, bytes, X, C)
  PROVE  OwnInv'
<1>1. /\ SizeTypes /\ Replace(t, new, bytes) /\ Guards(t, w, X) /\ Knows(t, w, new, C)
      /\ \A u \in Threads : InTurn(u) /\ \E D \in SUBSET Nodes : Entered(u, D)
  BY DEF OwnInv, Enters
<1>3. agenda' = [agenda EXCEPT ![t] = new \o Tail(@)] /\ UNCHANGED <<heap, pc>>
  BY <1>1 DEF Replace
<1>4. agenda \in [Threads -> Seq(Items)]
  BY <1>1 DEF SizeTypes
<1>5. X \in {{}, {t}} /\ \A l \in Nodes : held'[l] = IF l = w THEN held[l] \cup X ELSE held[l]
  BY <1>1 DEF Guards
<1>6. \A u \in Threads \ {t} : context'[u] = context[u]
  BY <1>1 DEF Knows
<1>7. SizeTypes' /\ InTurn(t)' /\ (\E D \in SUBSET Nodes : Entered(t, D))'
  <2>1. PICK D \in SUBSET Nodes : Entered(t, D)
    BY <1>1
  <2>2. PICK N, E : Adds(D, new, N, E)
    BY DEF Adds
  <2>3. SizeTypes' /\ InTurn(t)' /\ E \in SUBSET Nodes' /\ Entered(t, E)'
    BY <2>1, <2>2, VisitEnters
  <2> QED BY <2>3
<1>14. ASSUME NEW u \in Threads, u # t
       PROVE  InTurn(u)' /\ (\E E \in SUBSET Nodes : Entered(u, E))'
  <2>1. PICK E \in SUBSET Nodes : Entered(u, E)
    BY <1>1
  <2>2. /\ agenda'[u] = agenda[u] /\ context'[u] = context[u] /\ pc'[u] = pc[u]
        /\ \A l \in Nodes : u \in held'[l] <=> u \in held[l]
    <3>1. agenda'[u] = agenda[u]
      BY <1>3, <1>4, <1>14
    <3>2. context'[u] = context[u] /\ pc'[u] = pc[u]
      BY <1>3, <1>6, <1>14
    <3>3. \A l \in Nodes : u \in held'[l] <=> u \in held[l]
      BY <1>5, <1>14
    <3> QED BY <3>1, <3>2, <3>3
  <2>3. InTurn(u)' /\ E \in SUBSET Nodes' /\ Entered(u, E)'
    BY <1>1, <1>3, <2>1, <2>2, OtherThread
  <2> QED BY <2>3
<1> QED BY <1>7, <1>14 DEF OwnInv

\* The parts of a value that its own thread is about to visit are new to the thread.
LEMMA PartsAreNew ==
  ASSUME SizeTypes, NEW t \in Threads, NEW w \in ToVisit(t),
         NEW D \in SUBSET Nodes, Entered(t, D)
  PROVE  /\ Value(w).kind \notin {"arc", "rc", "ref"} => Inside(heap, w) \cap D = {}
         /\ Value(w).kind \in {"arc", "rc"} =>
              Inside(heap, w) \cap D \subseteq context[t][Value(w).kind]
BY DEF Entered, ToVisit, VisitsOf

\* Nothing to go on to.
LEMMA NoItems ==
  << >> \in Seq(Items) /\ DOMAIN << >> = {} /\ VisitsOf(<< >>) = {} /\ Once(<< >>)
BY DEF VisitsOf, Once

\* A value that owns its parts, and what it owns a box for.
LEMMA SumEnters ==
  ASSUME OwnInv, NEW t \in Threads, Sum(t) \/ Box(t)
  PROVE  \E w, new, bytes, X, C, Q :
           Enters(t, w, new, bytes, X, C) /\ Counts(t, w, new, bytes, C, Q)
<1>6. PICK w : w = Head(agenda[t]).value
  OBVIOUS
<1>1. PICK kinds, bytes :
        /\ kinds \subseteq SumKinds \cup {"box"} /\ AtVisit(t, kinds)
        /\ Replace(t, IF Value(w).kind = "ref" THEN << >> ELSE Visits(w), bytes)
        /\ UNCHANGED <<context, held>>
        /\ bytes = IF Value(w).kind = "box" THEN Value(Pointee(w)).size ELSE OwnBytes(w)
  <2>1. CASE Sum(t)
    <3>1. Value(w).kind # "box"
      BY <1>6, <2>1 DEF Sum, AtVisit, SumKinds
    <3> QED BY <1>6, <2>1, <3>1 DEF Sum
  <2>2. CASE Box(t)
    <3>1. Value(w).kind = "box"
      BY <1>6, <2>2 DEF Box, AtVisit
    <3> QED BY <1>6, <2>2, <3>1 DEF Box
  <2> QED BY <2>1, <2>2
<1>2. SizeTypes
  BY DEF OwnInv
<1>3. /\ w \in Nodes /\ Value(w).kind \in kinds /\ w \in ToVisit(t) /\ WellOwned(heap)
      /\ Value(w).kind \notin {"arc", "rc", "mutex", "rwlock"} /\ w \notin Locks
  <2>1. w \in Nodes /\ Value(w).kind \in kinds /\ w \in ToVisit(t) /\ WellOwned(heap)
    BY <1>1, <1>2, <1>6, HeadVisit DEF SizeTypes
  <2>2. Value(w).kind \notin {"arc", "rc", "mutex", "rwlock"}
    BY <1>1, <2>1 DEF SumKinds
  <2> QED BY <2>1, <2>2 DEF Locks
<1>4. Replace(t, IF Value(w).kind = "ref" THEN << >> ELSE Visits(w), bytes)
  BY <1>1
<1>5. PICK new : new = IF Value(w).kind = "ref" THEN << >> ELSE Visits(w)
  OBVIOUS
<1>7. /\ new \in Seq(Items) /\ Once(new)
      /\ VisitsOf(new) # {} => Value(w).kind # "ref"
      /\ \A i \in DOMAIN new : \E v \in Inside(heap, w) : new[i] = Visit(v)
      /\ VisitsOf(new) = IF Value(w).kind = "ref" THEN {} ELSE Inside(heap, w)
  <2>1. CASE Value(w).kind = "ref"
    BY <1>5, <2>1, NoItems
  <2>2. CASE Value(w).kind # "ref"
    BY <1>3, <1>5, <2>2, VisitsOfParts
  <2> QED BY <2>1, <2>2
<1>8. GoesOn(t, w, new)
  <2>1. \A D \in SUBSET Nodes : Entered(t, D) => VisitsOf(new) \subseteq Inside(heap, w) \ D
    BY <1>2, <1>3, <1>7, PartsAreNew
  <2> QED BY <1>3, <1>7, <2>1 DEF GoesOn
<1>9. Guards(t, w, {})
  BY <1>1, <1>2 DEF SizeTypes, Guards
<1>10. Knows(t, w, new, context[t])
  BY <1>1, <1>2, <1>3 DEF SizeTypes, Knows
<1>11. PICK C, X : C = context[t] /\ X = {}
  OBVIOUS
<1>12. Enters(t, w, new, bytes, X, C)
  BY <1>1, <1>4, <1>5, <1>6, <1>8, <1>9, <1>10, <1>11 DEF Enters
<1>13. PICK Q : Q = IF Value(w).kind \in HandleKinds THEN VisitsOf(new) ELSE {}
  OBVIOUS
<1>14. Counts(t, w, new, bytes, C, Q)
  <2>1. /\ Value(w).kind = "box" => Q = {Pointee(w)}
        /\ Value(w).kind # "box" => Q = {}
    <3>1. Value(w).kind = "box" => Inside(heap, w) = {Pointee(w)}
      BY <1>3, VisitsOfParts
    <3>2. Value(w).kind \in HandleKinds <=> Value(w).kind = "box"
      BY <1>3 DEF HandleKinds
    <3> QED BY <1>7, <1>13, <3>1, <3>2
  <2>2. Leads(heap, poisoned, w) \subseteq VisitsOf(new)
    BY <1>7 DEF Leads, Value
  <2>3. C.arc \cup C.rc = Known(t)
    BY <1>11 DEF Known
  <2>4. bytes = IF Q = {} THEN OwnBytes(w) ELSE Value(Pointee(w)).size
    BY <1>1, <2>1
  <2> QED BY <1>3, <1>13, <2>1, <2>2, <2>3, <2>4 DEF Counts
<1> QED BY <1>12, <1>14

\* A handle, the first to its value or not.
LEMMA SharedEnters ==
  ASSUME OwnInv, NEW t \in Threads, Shared(t)
  PROVE  \E w, new, bytes, X, C, Q :
           Enters(t, w, new, bytes, X, C) /\ Counts(t, w, new, bytes, C, Q)
<1>1. PICK w : w = Head(agenda[t]).value
  OBVIOUS
<1>2. PICK kind : kind = Value(w).kind
  OBVIOUS
<1>3. AtVisit(t, {"arc", "rc"}) /\ UNCHANGED held
  BY DEF Shared
<1>4. SizeTypes
  BY DEF OwnInv
<1>5. /\ w \in Nodes /\ kind \in {"arc", "rc"} /\ w \in ToVisit(t) /\ WellOwned(heap)
      /\ w \notin Locks
  <2>1. w \in Nodes /\ kind \in {"arc", "rc"} /\ w \in ToVisit(t) /\ WellOwned(heap)
    BY <1>1, <1>2, <1>3, <1>4, HeadVisit DEF SizeTypes
  <2> QED BY <1>2, <2>1 DEF Locks
<1>6. /\ Visits(w) \in Seq(Items) /\ Once(Visits(w)) /\ VisitsOf(Visits(w)) = {Pointee(w)}
      /\ \A i \in DOMAIN Visits(w) : \E v \in Inside(heap, w) : Visits(w)[i] = Visit(v)
      /\ Inside(heap, w) = {Pointee(w)} /\ Pointee(w) \in Nodes
  BY <1>2, <1>5, VisitsOfParts
<1>7. Guards(t, w, {})
  BY <1>3, <1>4 DEF SizeTypes, Guards
<1>8. context \in [Threads -> [arc : SUBSET Nodes, rc : SUBSET Nodes]]
  BY <1>4 DEF SizeTypes
<1>11. /\ Leads(heap, poisoned, w) \subseteq {Pointee(w)} /\ Value(w).kind \in HandleKinds
       /\ OwnBytes(w) = 0
  BY <1>2, <1>5, <1>6 DEF Leads, HandleKinds, OwnBytes
<1>12. PICK X : X = {}
  OBVIOUS
<1>9. CASE Pointee(w) \in context[t][kind]
  <2>1. Replace(t, << >>, 0) /\ UNCHANGED context
    BY <1>1, <1>2, <1>9 DEF Shared, Address
  <2>2. GoesOn(t, w, << >>)
    BY <1>5, NoItems DEF GoesOn
  <2>3. Knows(t, w, << >>, context[t])
    BY <1>8, <2>1, NoItems DEF Knows
  <2>4. PICK new, bytes : new = << >> /\ bytes = 0
    OBVIOUS
  <2>5. PICK C, Q : C = context[t] /\ Q = {}
    OBVIOUS
  <2>6. Enters(t, w, new, bytes, X, C)
    BY <1>1, <1>3, <1>7, <1>12, <2>1, <2>2, <2>3, <2>4, <2>5 DEF Enters
  <2>7. Counts(t, w, new, bytes, C, Q)
    <3>1. VisitsOf(new) = {}
      BY <2>4, NoItems
    <3>2. Pointee(w) \in Known(t)
      BY <1>2, <1>5, <1>9 DEF Known
    <3>3. C.arc \cup C.rc = Known(t)
      BY <2>5 DEF Known
    <3> QED BY <1>5, <1>11, <2>4, <2>5, <3>1, <3>2, <3>3 DEF Counts
  <2> QED BY <2>6, <2>7
<1>10. CASE Pointee(w) \notin context[t][kind]
  <2>1. PICK bytes : bytes = Value(Pointee(w)).size
    OBVIOUS
  <2>2. /\ Replace(t, Visits(w), bytes)
        /\ context' = [context EXCEPT ![t][kind] = @ \cup {Pointee(w)}]
    BY <1>1, <1>2, <1>10, <2>1 DEF Shared, Address
  <2>3. GoesOn(t, w, Visits(w))
    <3>1. ASSUME NEW D \in SUBSET Nodes, Entered(t, D)
          PROVE  VisitsOf(Visits(w)) \subseteq Inside(heap, w) \ D
      <4>1. Inside(heap, w) \cap D \subseteq context[t][kind]
        BY <1>2, <1>4, <1>5, <3>1, PartsAreNew
      <4> QED BY <1>6, <1>10, <4>1
    <3>2. Value(w).kind # "ref"
      BY <1>2, <1>5
    <3> QED BY <1>5, <1>6, <3>1, <3>2 DEF GoesOn
  <2>4. PICK C : C = [context[t] EXCEPT ![kind] = @ \cup {Pointee(w)}]
    OBVIOUS
  <2>5. /\ C \in [arc : SUBSET Nodes, rc : SUBSET Nodes]
        /\ context' = [context EXCEPT ![t] = C]
        /\ \A k \in {"arc", "rc"} : context[t][k] \subseteq C[k]
        /\ Pointee(w) \in C[kind]
        /\ C.arc \cup C.rc \subseteq (context[t].arc \cup context[t].rc) \cup {Pointee(w)}
    <3>1. context[t] \in [arc : SUBSET Nodes, rc : SUBSET Nodes]
      BY <1>8
    <3>2. CASE kind = "arc"
      BY <1>6, <2>2, <2>4, <3>1, <3>2
    <3>3. CASE kind = "rc"
      BY <1>6, <2>2, <2>4, <3>1, <3>3
    <3> QED BY <1>5, <3>2, <3>3
  <2>6. Knows(t, w, Visits(w), C)
    BY <1>2, <1>6, <1>8, <2>5 DEF Knows
  <2>7. PICK new, Q : new = Visits(w) /\ Q = {Pointee(w)}
    OBVIOUS
  <2>8. Enters(t, w, new, bytes, X, C)
    BY <1>1, <1>3, <1>7, <1>12, <2>2, <2>3, <2>6, <2>7 DEF Enters
  <2>9. Counts(t, w, new, bytes, C, Q)
    BY <1>5, <1>6, <1>11, <2>1, <2>5, <2>7 DEF Counts, Known
  <2> QED BY <2>8, <2>9
<1> QED BY <1>9, <1>10

\* A lock, poisoned or not, that the thread is given.
LEMMA LockEnters ==
  ASSUME OwnInv, NEW t \in Threads, Lock(t)
  PROVE  \E w, new, bytes, X, C, Q :
           Enters(t, w, new, bytes, X, C) /\ Counts(t, w, new, bytes, C, Q)
<1>1. PICK w : w = Head(agenda[t]).value
  OBVIOUS
<1>2. PICK new : new = IF w \in poisoned THEN <<Unlock(w)>> ELSE Append(Visits(w), Unlock(w))
  OBVIOUS
<1>3. /\ AtVisit(t, {"mutex", "rwlock"}) /\ UNCHANGED context /\ Lockable(w)
      /\ Replace(t, new, 0) /\ held' = [held EXCEPT ![w] = @ \cup {t}]
  BY <1>1, <1>2 DEF Lock
<1>4. SizeTypes
  BY DEF OwnInv
<1>5. /\ w \in Nodes /\ Value(w).kind \in {"mutex", "rwlock"} /\ w \in ToVisit(t)
      /\ WellOwned(heap) /\ w \in Locks
  <2>1. w \in Nodes /\ Value(w).kind \in {"mutex", "rwlock"} /\ w \in ToVisit(t)
        /\ WellOwned(heap)
    BY <1>1, <1>3, <1>4, HeadVisit DEF SizeTypes
  <2> QED BY <2>1 DEF Locks
<1>6. /\ Visits(w) \in Seq(Items) /\ Once(Visits(w)) /\ VisitsOf(Visits(w)) = Inside(heap, w)
      /\ \A i \in DOMAIN Visits(w) : \E v \in Inside(heap, w) : Visits(w)[i] = Visit(v)
      /\ Inside(heap, w) \subseteq Nodes
  BY <1>5, VisitsOfParts
<1>7. PICK before \in Seq(Items) :
        /\ new = Append(before, Unlock(w)) /\ Once(before)
        /\ VisitsOf(before) = IF w \in poisoned THEN {} ELSE Inside(heap, w)
        /\ \A i \in DOMAIN before : \E v \in Inside(heap, w) : before[i] = Visit(v)
  <2>1. CASE w \in poisoned
    <3>1. new = Append(<< >>, Unlock(w))
      BY <1>2, <2>1
    <3> QED BY <2>1, <3>1, NoItems
  <2>2. CASE w \notin poisoned
    BY <1>2, <1>6, <2>2
  <2> QED BY <2>1, <2>2
<1>8. Unlock(w) \in Items
  BY <1>5 DEF Items, Unlock
<1>9. /\ new \in Seq(Items) /\ Len(before) \in Nat
      /\ DOMAIN before = 1 .. Len(before) /\ DOMAIN new = 1 .. Len(before) + 1
      /\ \A i \in 1 .. Len(before) : new[i] = before[i]
      /\ new[Len(before) + 1] = Unlock(w)
  BY <1>7, <1>8, AppendProperties, LenProperties
<1>10. held \in [Nodes -> SUBSET (Threads \cup {Client})]
       /\ context \in [Threads -> [arc : SUBSET Nodes, rc : SUBSET Nodes]]
  BY <1>4 DEF SizeTypes
<1>11. t \in held'[w]
  BY <1>3, <1>5, <1>10
<1>17. VisitsOf(new) = VisitsOf(before)
  <2>1. ASSUME NEW v \in VisitsOf(new) PROVE v \in VisitsOf(before)
    <3>1. PICK i \in DOMAIN new : new[i] = Visit(v)
      BY DEF VisitsOf
    <3>2. i \in 1 .. Len(before) /\ before[i] = Visit(v)
      BY <1>9, <3>1, ItemsDiffer
    <3> QED BY <1>9, <3>2 DEF VisitsOf
  <2>2. ASSUME NEW v \in VisitsOf(before) PROVE v \in VisitsOf(new)
    <3>1. PICK i \in DOMAIN before : before[i] = Visit(v)
      BY DEF VisitsOf
    <3>2. i \in DOMAIN new /\ new[i] = Visit(v)
      BY <1>9, <3>1
    <3> QED BY <3>2 DEF VisitsOf
  <2> QED BY <2>1, <2>2
<1>12. GoesOn(t, w, new)
  <2>1. Once(new)
    <3>1. ASSUME NEW i \in DOMAIN before PROVE before[i] # Unlock(w)
      BY <1>7, ItemsDiffer
    <3>2. ASSUME NEW i \in DOMAIN new, NEW j \in DOMAIN new, new[i] = new[j]
          PROVE  i = j
      <4>1. /\ i \in 1 .. Len(before) \/ i = Len(before) + 1
            /\ j \in 1 .. Len(before) \/ j = Len(before) + 1
        BY <1>9
      <4>2. CASE i \in 1 .. Len(before) /\ j \in 1 .. Len(before)
        <5>1. before[i] = before[j] /\ i \in DOMAIN before /\ j \in DOMAIN before
          BY <1>9, <3>2, <4>2
        <5> QED BY <1>7, <5>1 DEF Once
      <4> QED BY <1>9, <3>1, <3>2, <4>1, <4>2
    <3> QED BY <3>2 DEF Once
  <2>2. VisitsOf(new) \subseteq Inside(heap, w)
    BY <1>7, <1>17
  <2>3. ASSUME NEW D \in SUBSET Nodes, Entered(t, D)
        PROVE  VisitsOf(new) \subseteq Inside(heap, w) \ D
    <3>1. Inside(heap, w) \cap D = {}
      BY <1>4, <1>5, <2>3, PartsAreNew
    <3> QED BY <2>2, <3>1
  <2>4. ASSUME NEW i \in DOMAIN new
        PROVE  \/ \E v \in Inside(heap, w) : new[i] = Visit(v)
               \/ new[i] = Unlock(w) /\ t \in held'[w]
    BY <1>7, <1>9, <1>11
  <2>5. ASSUME NEW i \in DOMAIN new, NEW v \in Inside(heap, w), new[i] = Visit(v)
        PROVE  \E j \in DOMAIN new : i < j /\ new[j] = Unlock(w)
    <3>1. i \in 1 .. Len(before)
      BY <1>9, <2>5, ItemsDiffer
    <3>2. i < Len(before) + 1 /\ Len(before) + 1 \in DOMAIN new
      BY <1>9, <3>1
    <3> QED BY <1>9, <3>2
  <2>6. Value(w).kind # "ref"
    BY <1>5
  <2> QED BY <1>9, <2>1, <2>3, <2>4, <2>5, <2>6 DEF GoesOn
<1>13. PICK X : X = {t}
  OBVIOUS
<1>14. Guards(t, w, X)
  <2>1. /\ held' \in [Nodes -> SUBSET (Threads \cup {Client})]
        /\ \A l \in Nodes : held'[l] = IF l = w THEN held[l] \cup X ELSE held[l]
    BY <1>3, <1>5, <1>10, <1>13
  <2>2. ASSUME client.pc = "holding" PROVE client.lock # w
    <3>1. held[client.lock] = {Client}
      BY <1>4, <2>2 DEF SizeTypes
    <3> QED BY <1>3, <2>2, <3>1 DEF Lockable
  <2> QED BY <1>13, <2>1, <2>2 DEF Guards
<1>15. PICK C : C = context[t]
  OBVIOUS
<1>16. Knows(t, w, new, C)
  <2>1. Value(w).kind \notin {"arc", "rc"}
    BY <1>5
  <2> QED BY <1>3, <1>10, <1>15, <2>1 DEF Knows
<1>18. PICK bytes, Q : bytes = 0 /\ Q = {}
  OBVIOUS
<1>19. Enters(t, w, new, bytes, X, C)
  BY <1>1, <1>3, <1>12, <1>14, <1>16, <1>18 DEF Enters
<1>20. Counts(t, w, new, bytes, C, Q)
  <2>1. OwnBytes(w) = 0 /\ Value(w).kind \notin HandleKinds
    BY <1>5 DEF OwnBytes, HandleKinds
  <2>2. VisitsOf(new) = IF w \in poisoned THEN {} ELSE Inside(heap, w)
    BY <1>7, <1>17
  <2>3. Leads(heap, poisoned, w) \subseteq VisitsOf(new)
    BY <2>2 DEF Leads
  <2>4. C.arc \cup C.rc = Known(t)
    BY <1>15 DEF Known
  <2> QED BY <1>18, <2>1, <2>2, <2>3, <2>4 DEF Counts
<1> QED BY <1>19, <1>20

\* A visit, of whatever kind.
LEMMA VisitOwn ==
  ASSUME OwnInv, NEW t \in Threads, Sum(t) \/ Box(t) \/ Shared(t) \/ Lock(t)
  PROVE  OwnInv'
<1>1. \E w, new, bytes, X, C : Enters(t, w, new, bytes, X, C)
  BY SumEnters, SharedEnters, LockEnters
<1> QED BY <1>1, VisitStep

\* A guard is dropped after everything inside its lock.
LEMMA DropGuardOwn ==
  ASSUME OwnInv, NEW t \in Threads, DropGuard(t)
  PROVE  /\ OwnInv' /\ ToVisit(t)' = ToVisit(t)
         /\ \A D \in SUBSET Nodes : Entered(t, D) => D \in SUBSET Nodes' /\ Entered(t, D)'
<1> DEFINE e == agenda[t]
           f == << >> \o Tail(e)
<1>1. PICK l : l = Head(e).value
  OBVIOUS
<1>2. /\ SizeTypes /\ InTurn(t) /\ e \in Seq(Items) /\ e # << >>
      /\ \A u \in Threads : InTurn(u) /\ \E D \in SUBSET Nodes : Entered(u, D)
  BY DEF OwnInv, SizeTypes, DropGuard
<1>3. /\ Replace(t, << >>, 0) /\ held' = [held EXCEPT ![l] = @ \ {t}] /\ UNCHANGED context
      /\ Head(e).do = "unlock"
  BY <1>1 DEF DropGuard
<1>4. /\ Len(e) \in Nat \ {0} /\ DOMAIN e = 1 .. Len(e) /\ Head(e) = e[1]
      /\ \A k \in 2 .. Len(e) : k + 0 - 1 \in DOMAIN f /\ f[k + 0 - 1] = e[k]
      /\ \A i \in DOMAIN f : i \in 1 .. 0 \/ \E k \in 2 .. Len(e) : i = k + 0 - 1
  <2>1. PICK new \in Seq(Items) : new = << >>
    BY NoItems
  <2>2. Len(new) = 0
    BY <2>1
  <2>3. f = new \o Tail(e)
    BY <2>1
  <2> HIDE DEF e, f
  <2> QED BY <1>2, <2>2, <2>3, ReplacedHead
<1> HIDE DEF f
<1>5. /\ \A k \in 2 .. Len(e) : k - 1 \in DOMAIN f /\ f[k - 1] = e[k] /\ k \in DOMAIN e /\ k # 1
      /\ \A i \in DOMAIN f : \E k \in 2 .. Len(e) : i = k - 1
  BY <1>4
<1>6. l \in Nodes /\ e[1] = Unlock(l) /\ 1 \in DOMAIN e
  <2>1. e[1] \in Items /\ 1 \in DOMAIN e
    BY <1>2, <1>4
  <2> QED BY <1>1, <1>3, <1>4, <2>1 DEF Items, Unlock
<1>7. agenda'[t] = f /\ UNCHANGED <<heap, pc, client>>
  BY <1>2, <1>3 DEF Replace, SizeTypes, f
<1>8. /\ held \in [Nodes -> SUBSET (Threads \cup {Client})]
      /\ agenda \in [Threads -> Seq(Items)]
      /\ context \in [Threads -> [arc : SUBSET Nodes, rc : SUBSET Nodes]]
      /\ client.pc = "holding" => held[client.lock] = {Client}
      /\ client.pc = "holding" => client.lock \in Nodes
  BY <1>2 DEF SizeTypes, Locks
<1>9. /\ held' \in [Nodes -> SUBSET (Threads \cup {Client})]
      /\ \A m \in Nodes : held'[m] = IF m = l THEN held[m] \ {t} ELSE held[m]
  BY <1>3, <1>6, <1>8
<1>10. SizeTypes'
  <2>1. client.pc = "holding" => held'[client.lock] = {Client}
    BY <1>8, <1>9
  <2> QED BY <1>2, <1>3, <1>8, <1>9, <2>1, NoItems, TypesThen
<1>11. Once(e) /\ Nested(t) /\ UnlocksHeld(t)
  BY <1>2 DEF InTurn
<1>12. Once(f)
  <2>1. ASSUME NEW i \in DOMAIN f, NEW j \in DOMAIN f, f[i] = f[j] PROVE i = j
    <3>1. PICK k \in 2 .. Len(e) : i = k - 1
      BY <1>5
    <3>2. PICK m \in 2 .. Len(e) : j = m - 1
      BY <1>5
    <3> QED BY <1>5, <1>11, <2>1, <3>1, <3>2 DEF Once
  <2> QED BY <2>1 DEF Once
<1>13. ASSUME NEW m \in Locks, NEW v \in Inside(heap, m), NEW i \in DOMAIN f, f[i] = Visit(v)
       PROVE  \E j \in DOMAIN f : i < j /\ f[j] = Unlock(m)
  <2>1. PICK k \in 2 .. Len(e) : i = k - 1
    BY <1>5
  <2>2. PICK j \in DOMAIN e : k < j /\ e[j] = Unlock(m)
    BY <1>5, <1>11, <1>13, <2>1 DEF Nested
  <2>3. j \in 2 .. Len(e) /\ i < j - 1
    BY <1>4, <2>1, <2>2
  <2> QED BY <1>5, <2>2, <2>3
<1>14. ASSUME NEW m \in Nodes, NEW i \in DOMAIN f, f[i] = Unlock(m) PROVE t \in held'[m]
  <2>1. PICK k \in 2 .. Len(e) : i = k - 1
    BY <1>5
  <2>2. e[k] = Unlock(m) /\ k \in DOMAIN e /\ k # 1
    BY <1>5, <1>14, <2>1
  <2>3. m # l
    BY <1>6, <1>11, <2>2 DEF Once
  <2> QED BY <1>9, <1>11, <2>2, <2>3 DEF UnlocksHeld
<1>15. InTurn(t)'
  <2>1. Once(agenda[t])'
    BY <1>7, <1>12 DEF Once
  <2>2. Nested(t)'
    BY <1>7, <1>13, NestedThen
  <2>3. UnlocksHeld(t)'
    BY <1>7, <1>14 DEF UnlocksHeld, Nodes
  <2> QED BY <2>1, <2>2, <2>3 DEF InTurn
<1>16. /\ Nodes' = Nodes /\ \A v : Value(v)' = Value(v)
       /\ \A v : Inside(heap, v)' = Inside(heap, v)
  BY <1>7 DEF Nodes, Value
<1>17. ToVisit(t)' = ToVisit(t)
  <2>1. ASSUME NEW v \in Nodes
        PROVE  (\E i \in DOMAIN f : f[i] = Visit(v)) <=> (\E i \in DOMAIN e : e[i] = Visit(v))
    <3>1. ASSUME NEW i \in DOMAIN f, f[i] = Visit(v) PROVE \E k \in DOMAIN e : e[k] = Visit(v)
      BY <1>5, <3>1
    <3>2. ASSUME NEW k \in DOMAIN e, e[k] = Visit(v) PROVE \E i \in DOMAIN f : f[i] = Visit(v)
      <4>1. k # 1
        BY <1>6, <3>2, ItemsDiffer
      <4>2. k \in 2 .. Len(e)
        BY <1>4, <4>1
      <4> QED BY <1>5, <3>2, <4>2
    <3> QED BY <3>1, <3>2
  <2>2. ToVisit(t)' = {v \in Nodes : \E i \in DOMAIN f : f[i] = Visit(v)}
    BY <1>7, <1>16 DEF ToVisit, VisitsOf, Visit
  <2> QED BY <2>1, <2>2 DEF ToVisit, VisitsOf
<1>19. ASSUME NEW D \in SUBSET Nodes, Entered(t, D)
       PROVE  D \in SUBSET Nodes' /\ Entered(t, D)'
  <2>1. \A m \in Nodes : t \in held'[m] => t \in held[m]
    BY <1>9
  <2> QED BY <1>3, <1>7, <1>16, <1>17, <1>19, <2>1 DEF Entered
<1>18. \E D \in SUBSET Nodes' : Entered(t, D)'
  BY <1>2, <1>19
<1>20. ASSUME NEW u \in Threads, u # t
       PROVE  InTurn(u)' /\ (\E E \in SUBSET Nodes : Entered(u, E))'
  <2>1. PICK E \in SUBSET Nodes : Entered(u, E)
    BY <1>2
  <2>2. /\ agenda'[u] = agenda[u] /\ context'[u] = context[u] /\ pc'[u] = pc[u]
        /\ \A m \in Nodes : u \in held'[m] <=> u \in held[m]
    BY <1>3, <1>7, <1>8, <1>9, <1>20 DEF Replace
  <2>3. InTurn(u)' /\ E \in SUBSET Nodes' /\ Entered(u, E)'
    BY <1>2, <1>7, <2>1, <2>2, OtherThread
  <2> QED BY <2>3
<1>21. OwnInv'
  BY <1>10, <1>15, <1>18, <1>20 DEF OwnInv
<1> QED BY <1>17, <1>19, <1>21

\* A measure that begins holds nothing, and nothing points at its value.
LEMMA StartOwn ==
  ASSUME OwnInv, NEW t \in Threads, Start(t), NEW r, r = Root[t]
  PROVE  OwnInv' /\ r \in Nodes /\ ToVisit(t)' = {r} /\ Entered(t, {r})'
<1>1. r = Root[t]
  OBVIOUS
<1>2. /\ SizeTypes
      /\ \A u \in Threads : InTurn(u) /\ \E D \in SUBSET Nodes : Entered(u, D)
  BY DEF OwnInv
<1>3. /\ pc[t] = "ready" /\ pc' = [pc EXCEPT ![t] = "sizing"]
      /\ agenda' = [agenda EXCEPT ![t] = <<Visit(r)>>]
      /\ UNCHANGED <<heap, context, held, poisoned, client>>
      /\ t \in DOMAIN heap.root
  BY <1>1 DEF Start, Root
<1>4. /\ r \in Nodes /\ \A v \in Nodes : r \notin Inside(heap, v)
      /\ Visit(r) \in Items
  <2>1. r \in Nodes /\ \A v \in Nodes : r \notin Inside(heap, v)
    BY <1>1, <1>2, <1>3 DEF SizeTypes, WellOwned, Nodes, Root
  <2> QED BY <2>1 DEF Items, Visit
<1>5. /\ Nodes' = Nodes /\ Items' = Items /\ Locks' = Locks
      /\ \A v : Value(v)' = Value(v)
      /\ \A v : Inside(heap, v)' = Inside(heap, v)
  BY <1>3 DEF Nodes, Items, Locks, Value
<1>6. /\ agenda \in [Threads -> Seq(Items)]
      /\ pc \in [Threads -> {"ready", "sizing", "done"}]
  BY <1>2 DEF SizeTypes
<1>7. /\ agenda'[t] = <<Visit(r)>> /\ pc'[t] = "sizing"
      /\ agenda' \in [Threads -> Seq(Items)]
      /\ pc' \in [Threads -> {"ready", "sizing", "done"}]
      /\ \A u \in Threads \ {t} : agenda'[u] = agenda[u] /\ pc'[u] = pc[u]
  <2>1. <<Visit(r)>> \in Seq(Items)
    BY <1>4
  <2> HIDE DEF Items
  <2> QED BY <1>3, <1>6, <2>1
<1>8. SizeTypes'
  <2>1. WellOwned(heap)'
    BY <1>2, <1>3 DEF SizeTypes, WellOwned
  <2> QED BY <1>2, <1>3, <1>5, <1>7, <2>1 DEF SizeTypes
<1>9. PICK D \in SUBSET Nodes : Entered(t, D)
  BY <1>2
<1>10. \A l \in Nodes : t \notin held[l]
  BY <1>3, <1>9 DEF Entered
<1>11. InTurn(t)'
  <2>1. Once(agenda[t])'
    BY <1>7 DEF Once
  <2>2. Nested(t)'
    <3>1. \A l \in Locks : \A v \in Inside(heap, l) : \A i \in DOMAIN <<Visit(r)>> :
            <<Visit(r)>>[i] # Visit(v)
      BY <1>4, ItemsDiffer DEF Locks
    <3>2. PICK f : f = <<Visit(r)>>
      OBVIOUS
    <3> QED BY <1>3, <1>7, <3>1, <3>2, NestedThen
  <2>3. UnlocksHeld(t)'
    <3>1. \A l \in Nodes : \A i \in DOMAIN <<Visit(r)>> : <<Visit(r)>>[i] # Unlock(l)
      BY ItemsDiffer
    <3>2. PICK f : f = <<Visit(r)>>
      OBVIOUS
    <3> QED BY <1>5, <1>7, <3>1, <3>2 DEF UnlocksHeld
  <2> QED BY <2>1, <2>2, <2>3 DEF InTurn
<1>12. {r} \in SUBSET Nodes' /\ ToVisit(t)' = {r} /\ Entered(t, {r})'
  <2>1. ToVisit(t)' = {r}
    <3>1. ASSUME NEW v \in Nodes
          PROVE  (\E i \in DOMAIN <<Visit(r)>> : <<Visit(r)>>[i] = Visit(v)) <=> v = r
      BY <1>4, ItemsDiffer
    <3>2. ToVisit(t)' = {v \in Nodes : \E i \in DOMAIN <<Visit(r)>> : <<Visit(r)>>[i] = Visit(v)}
      BY <1>5, <1>7 DEF ToVisit, VisitsOf, Visit
    <3> QED BY <1>4, <3>1, <3>2
  <2> QED BY <1>3, <1>4, <1>5, <1>7, <1>10, <2>1 DEF Entered
<1>13. ASSUME NEW u \in Threads, u # t
       PROVE  InTurn(u)' /\ (\E E \in SUBSET Nodes : Entered(u, E))'
  <2>1. PICK E \in SUBSET Nodes : Entered(u, E)
    BY <1>2
  <2>2. InTurn(u)' /\ E \in SUBSET Nodes' /\ Entered(u, E)'
    BY <1>2, <1>3, <1>7, <1>13, <2>1, OtherThread
  <2> QED BY <2>2
<1>14. OwnInv'
  BY <1>8, <1>11, <1>12, <1>13 DEF OwnInv
<1> QED BY <1>4, <1>12, <1>14

\* A measure that ends.
LEMMA ReturnOwn ==
  ASSUME OwnInv, NEW t \in Threads, Return(t)
  PROVE  OwnInv'
<1>1. /\ SizeTypes
      /\ \A u \in Threads : InTurn(u) /\ \E D \in SUBSET Nodes : Entered(u, D)
  BY DEF OwnInv
<1>2. /\ pc' = [pc EXCEPT ![t] = "done"]
      /\ UNCHANGED <<heap, agenda, context, held, client>>
      /\ pc' \in [Threads -> {"ready", "sizing", "done"}]
  BY <1>1 DEF Return, SizeTypes
<1>3. /\ Nodes' = Nodes /\ Items' = Items /\ Locks' = Locks
  BY <1>2 DEF Nodes, Items, Locks, Value
<1>4. SizeTypes'
  <2>1. WellOwned(heap)'
    BY <1>1, <1>2 DEF SizeTypes, WellOwned
  <2> QED BY <1>1, <1>2, <1>3, <2>1 DEF SizeTypes
<1>5. ASSUME NEW u \in Threads
      PROVE  InTurn(u)' /\ (\E E \in SUBSET Nodes : Entered(u, E))'
  <2>1. PICK E \in SUBSET Nodes : Entered(u, E)
    BY <1>1
  <2>2. pc'[u] = "ready" => pc[u] = "ready"
    BY <1>1, <1>2 DEF SizeTypes
  <2>3. InTurn(u)' /\ E \in SUBSET Nodes' /\ Entered(u, E)'
    BY <1>1, <1>2, <2>1, <2>2, OtherThread
  <2> QED BY <2>3
<1> QED BY <1>4, <1>5 DEF OwnInv
-----------------------------------------------------------------------------
(* The steps of the client.                                                 *)

Parts(y) == Range(y.parts)

\* y may take the place of value u in the heap h.
Fits(h, u, y) ==
  /\ y \in Values /\ Parts(y) \subseteq DOMAIN h.value
  /\ Cardinality(Parts(y)) = Len(y.parts)
  /\ y.kind \in {"box", "arc", "rc"} => Len(y.parts) = 1
  /\ \A w \in DOMAIN h.value \ {u} :
       \/ Parts(y) \cap Inside(h, w) = {}
       \/ y.kind = h.value[w].kind /\ y.kind \in {"arc", "rc"}
       \/ "ref" \in {y.kind, h.value[w].kind}
  /\ \A t \in DOMAIN h.root : h.root[t] \notin Parts(y)

\* A heap in which a value that fits takes the place of another.
LEMMA Rewired ==
  ASSUME NEW h, WellOwned(h), NEW u \in DOMAIN h.value, NEW y, Fits(h, u, y),
         NEW k, k = [h EXCEPT !.value[u] = y]
  PROVE  /\ WellOwned(k) /\ DOMAIN k.value = DOMAIN h.value /\ k.root = h.root
         /\ \A x \in DOMAIN h.value :
              /\ k.value[x] = IF x = u THEN y ELSE h.value[x]
              /\ Inside(k, x) = IF x = u THEN Parts(y) ELSE Inside(h, x)
<1>1. /\ DOMAIN h = {"value", "root", "uses"} /\ h.value \in Seq(Values)
      /\ DOMAIN h.root \subseteq Threads
  BY DEF WellOwned
<1>2. /\ DOMAIN k = {"value", "root", "uses"} /\ k.root = h.root
      /\ k.value = [h.value EXCEPT ![u] = y]
  BY <1>1
<1>3. DOMAIN k.value = DOMAIN h.value
  BY <1>2
<1>4. k.value \in Seq(Values) /\ DOMAIN h.value \subseteq Nat
  <2>1. y \in Values
    BY DEF Fits
  <2>2. Len(h.value) \in Nat /\ DOMAIN h.value = 1 .. Len(h.value)
        /\ h.value \in [1 .. Len(h.value) -> Values]
    BY <1>1, LenProperties
  <2>3. k.value \in [1 .. Len(h.value) -> Values]
    BY <1>2, <2>1, <2>2
  <2>4. k.value \in Seq(Values)
    BY <2>2, <2>3, SeqDef
  <2> QED BY <2>2, <2>4
<1>5. ASSUME NEW x \in DOMAIN h.value
      PROVE  /\ k.value[x] = IF x = u THEN y ELSE h.value[x]
             /\ Inside(k, x) = IF x = u THEN Parts(y) ELSE Inside(h, x)
  <2>1. k.value[x] = IF x = u THEN y ELSE h.value[x]
    BY <1>2
  <2> QED BY <2>1 DEF Inside, Parts, Range
<1>6. ASSUME NEW v \in DOMAIN h.value
      PROVE  /\ Inside(k, v) \subseteq DOMAIN h.value
             /\ Cardinality(Inside(k, v)) = Len(k.value[v].parts)
             /\ k.value[v].kind \in {"box", "arc", "rc"} => Len(k.value[v].parts) = 1
  <2>1. CASE v = u
    BY <1>5, <2>1 DEF Fits
  <2>2. CASE v # u
    BY <1>5, <2>2 DEF WellOwned
  <2> QED BY <2>1, <2>2
<1>7. ASSUME NEW v \in DOMAIN h.value, NEW w \in 1 .. v - 1
      PROVE  \/ Inside(k, v) \cap Inside(k, w) = {}
             \/ k.value[v].kind = k.value[w].kind /\ k.value[v].kind \in {"arc", "rc"}
             \/ "ref" \in {k.value[v].kind, k.value[w].kind}
  <2>1. w \in DOMAIN h.value /\ w # v
    <3>1. Len(h.value) \in Nat /\ DOMAIN h.value = 1 .. Len(h.value)
      BY <1>1, LenProperties
    <3> QED BY <3>1
  <2>2. CASE v = u
    BY <1>5, <2>1, <2>2 DEF Fits
  <2>3. CASE w = u
    BY <1>5, <2>1, <2>3 DEF Fits
  <2>4. CASE v # u /\ w # u
    BY <1>5, <2>1, <2>4 DEF WellOwned
  <2> QED BY <2>2, <2>3, <2>4
<1>8. ASSUME NEW t \in DOMAIN h.root
      PROVE  /\ h.root[t] \in DOMAIN h.value
             /\ \A v \in DOMAIN h.value : h.root[t] \notin Inside(k, v)
  <2>1. /\ h.root[t] \in DOMAIN h.value
        /\ \A v \in DOMAIN h.value : h.root[t] \notin Inside(h, v)
    BY DEF WellOwned
  <2>2. h.root[t] \notin Parts(y)
    BY DEF Fits
  <2> QED BY <1>5, <2>1, <2>2
<1>9. WellOwned(k)
  <2>1. DOMAIN k = {"value", "root", "uses"} /\ k.value \in Seq(Values)
    BY <1>2, <1>4
  <2>2. \A v \in DOMAIN k.value :
          /\ Inside(k, v) \subseteq DOMAIN k.value
          /\ Cardinality(Inside(k, v)) = Len(k.value[v].parts)
          /\ k.value[v].kind \in {"box", "arc", "rc"} => Len(k.value[v].parts) = 1
          /\ \A w \in 1 .. v - 1 :
               \/ Inside(k, v) \cap Inside(k, w) = {}
               \/ k.value[v].kind = k.value[w].kind /\ k.value[v].kind \in {"arc", "rc"}
               \/ "ref" \in {k.value[v].kind, k.value[w].kind}
    BY <1>3, <1>6, <1>7
  <2>3. /\ DOMAIN k.root \subseteq Threads
        /\ \A t \in DOMAIN k.root :
             /\ k.root[t] \in DOMAIN k.value
             /\ \A v \in DOMAIN k.value : k.root[t] \notin Inside(k, v)
    BY <1>1, <1>2, <1>3, <1>8
  <2> QED BY <2>1, <2>2, <2>3 DEF WellOwned
<1> QED BY <1>2, <1>3, <1>5, <1>9

\* What the heap k that takes the place of h keeps: a value that has a new part is
\* an Arc, and shares that part with an Arc of before.
Keeps(h, k) ==
  /\ WellOwned(k) /\ DOMAIN k.value = DOMAIN h.value
  /\ \A u \in DOMAIN h.value : \A x \in Inside(k, u) :
       \/ x \in Inside(h, u) /\ k.value[u].kind = h.value[u].kind
       \/ /\ k.value[u].kind = "arc"
          /\ \E z \in DOMAIN h.value : h.value[z].kind = "arc" /\ x \in Inside(h, z)

\* What a value of the heap is, and an Arc points at.
LEMMA ValueTypes ==
  ASSUME WellOwned(heap), NEW w \in Nodes
  PROVE  /\ Value(w) \in Values /\ Value(w).parts \in Seq(Nat)
         /\ Inside(heap, w) = Parts(Value(w)) /\ Inside(heap, w) \subseteq Nodes
         /\ Cardinality(Parts(Value(w))) = Len(Value(w).parts)
<1>1. Value(w) \in Values
  BY ElementOfSeq DEF WellOwned, Nodes, Value
<1>2. Inside(heap, w) = Parts(Value(w))
  BY DEF Inside, Parts, Range, Value
<1> QED BY <1>1, <1>2 DEF WellOwned, Values, Nodes, Value

\* A value that shares nothing new fits where it was.
LEMMA FewerFit ==
  ASSUME WellOwned(heap), NEW u \in Nodes, NEW y \in Values, y.kind = Value(u).kind,
         Parts(y) \subseteq Inside(heap, u), Cardinality(Parts(y)) = Len(y.parts),
         y.kind \in {"box", "arc", "rc"} => Len(y.parts) = 1
  PROVE  Fits(heap, u, y)
<1>1. Inside(heap, u) \subseteq Nodes
  BY ValueTypes
<1>2. ASSUME NEW w \in Nodes \ {u}
      PROVE  \/ Parts(y) \cap Inside(heap, w) = {}
             \/ y.kind = heap.value[w].kind /\ y.kind \in {"arc", "rc"}
             \/ "ref" \in {y.kind, heap.value[w].kind}
  BY OneOwner DEF Nodes, Value
<1>3. \A t \in DOMAIN heap.root : heap.root[t] \notin Parts(y)
  BY DEF WellOwned, Nodes
<1> QED BY <1>1, <1>2, <1>3 DEF Fits, Nodes

\* One of the handles behind a lock is dropped.
LEMMA DroppedKeeps ==
  ASSUME WellOwned(heap), NEW l \in Locks, NEW w \in Inside(heap, l)
  PROVE  Keeps(heap, WithoutHandle(heap, l, w))
<1> DEFINE y == [Value(l) EXCEPT !.parts = RemoveAt(@, CHOOSE i \in DOMAIN @ : @[i] = w)]
<1>1. PICK s : s = Value(l).parts
  OBVIOUS
<1>2. /\ l \in Nodes /\ Value(l).kind \in {"mutex", "rwlock"}
      /\ Value(l) \in Values /\ s \in Seq(Nat) /\ Inside(heap, l) = Parts(Value(l))
      /\ Cardinality(Parts(Value(l))) = Len(s) /\ Inside(heap, l) = Range(s)
  BY <1>1, ValueTypes DEF Locks, Parts
<1>3. PICK at : at = CHOOSE i \in DOMAIN s : s[i] = w
  OBVIOUS
<1>4. at \in DOMAIN s
  <2>1. \E i \in DOMAIN s : s[i] = w
    BY <1>2 DEF Range
  <2> QED BY <1>3, <2>1
<1>5. PICK r : r = RemoveAt(s, at)
  OBVIOUS
<1>6. /\ r \in Seq(Nat) /\ Range(r) = Range(s) \ {s[at]}
      /\ Cardinality(Range(r)) = Len(r)
  <2>1. \A i, j \in DOMAIN s : s[i] = s[j] => i = j
    BY <1>2, PartsOnce
  <2>2. /\ r \in Seq(Nat) /\ Range(r) = Range(s) \ {s[at]}
        /\ \A i, j \in DOMAIN r : r[i] = r[j] => i = j
    <3>1. s \in Seq(Nat)
      BY <1>2
    <3> HIDE DEF y
    <3> QED BY <1>4, <1>5, <2>1, <3>1, OneRemoved
  <2> QED BY <2>2, PartsOnce
<1>7. /\ y \in Values /\ y.kind = Value(l).kind /\ y.parts = r
      /\ Parts(y) \subseteq Inside(heap, l) /\ Cardinality(Parts(y)) = Len(y.parts)
  <2>1. y = [Value(l) EXCEPT !.parts = r]
    BY <1>1, <1>3, <1>5
  <2> HIDE DEF y
  <2>2. y \in Values /\ y.kind = Value(l).kind /\ y.parts = r
    BY <1>2, <1>6, <2>1 DEF Values
  <2> QED BY <1>2, <1>6, <2>2 DEF Parts
<1>8. Fits(heap, l, y)
  <2> HIDE DEF y
  <2> QED BY <1>2, <1>7, FewerFit
<1>9. PICK k : k = WithoutHandle(heap, l, w)
  OBVIOUS
<1>10. k = [heap EXCEPT !.value[l] = y]
  BY <1>9 DEF WithoutHandle, Value
<1> HIDE DEF y
<1>11. /\ WellOwned(k) /\ DOMAIN k.value = Nodes
       /\ \A x \in Nodes : /\ k.value[x] = IF x = l THEN y ELSE heap.value[x]
                           /\ Inside(k, x) = IF x = l THEN Parts(y) ELSE Inside(heap, x)
  BY <1>2, <1>8, <1>10, Rewired DEF Nodes
<1>12. Keeps(heap, k)
  BY <1>7, <1>11 DEF Keeps, Nodes, Value
<1> QED BY <1>9, <1>12

\* What Arcs share.
LEMMA SharedPart ==
  ASSUME WellOwned(heap), NEW S, NEW v \in SharedBy(Arcs(S))
  PROVE  v \in Nodes /\ \E x \in Nodes : Value(x).kind = "arc" /\ v \in Inside(heap, x)
<1>1. PICK x \in Nodes : Value(x).kind = "arc" /\ v = Pointee(x)
  BY DEF SharedBy, Arcs
<1> QED BY <1>1, VisitsOfParts

\* The heap with Arc w pointed at what an Arc shares.
LEMMA PointedHeap ==
  ASSUME WellOwned(heap), NEW w \in Nodes, Value(w).kind = "arc",
         NEW x \in Nodes, Value(x).kind = "arc", NEW v \in Inside(heap, x),
         NEW k, k = Pointed(heap, w, v)
  PROVE  /\ WellOwned(k) /\ DOMAIN k.value = Nodes
         /\ \A u \in Nodes :
              /\ k.value[u].kind = Value(u).kind
              /\ Inside(k, u) = IF u = w THEN {v} ELSE Inside(heap, u)
<1> DEFINE y == [Value(w) EXCEPT !.parts = <<v>>]
<1>1. /\ Value(w) \in Values /\ Inside(heap, x) \subseteq Nodes /\ v \in Nodes
      /\ Nodes \subseteq Nat
  <2>1. heap.value \in Seq(Values)
    BY DEF WellOwned
  <2>2. Nodes \subseteq Nat
    BY <2>1, LenProperties DEF Nodes
  <2> QED BY <2>2, ValueTypes
<1>2. PICK p : p = <<v>>
  OBVIOUS
<1>3. p \in Seq(Nat) /\ Len(p) = 1 /\ Range(p) = {v} /\ Cardinality(Range(p)) = 1
  <2>1. p \in Seq(Nat) /\ Len(p) = 1 /\ DOMAIN p = {1} /\ p[1] = v
    BY <1>1, <1>2
  <2>2. Range(p) = {v}
    BY <2>1 DEF Range
  <2> QED BY <2>1, <2>2, FS_Singleton
<1>4. y \in Values /\ y.kind = "arc" /\ Parts(y) = {v} /\ Cardinality(Parts(y)) = Len(y.parts)
      /\ Len(y.parts) = 1
  <2>1. y = [Value(w) EXCEPT !.parts = p]
    BY <1>2
  <2> HIDE DEF y
  <2>2. y \in Values /\ y.kind = "arc" /\ y.parts = p
    BY <1>1, <1>3, <2>1 DEF Values
  <2> QED BY <1>3, <2>2 DEF Parts
<1>5. k = [heap EXCEPT !.value[w] = y]
  BY DEF Pointed, Value
<1> HIDE DEF y
<1>6. Fits(heap, w, y)
  <2>1. ASSUME NEW u \in Nodes \ {w}
        PROVE  \/ Parts(y) \cap Inside(heap, u) = {}
               \/ y.kind = heap.value[u].kind /\ y.kind \in {"arc", "rc"}
               \/ "ref" \in {y.kind, heap.value[u].kind}
    <3>1. CASE v \notin Inside(heap, u)
      BY <1>4, <3>1
    <3>2. CASE u = x
      BY <1>4, <3>2 DEF Value
    <3>3. CASE v \in Inside(heap, u) /\ u # x
      BY <1>4, <3>3, OneOwner DEF Nodes, Value
    <3> QED BY <3>1, <3>2, <3>3
  <2>2. \A t \in DOMAIN heap.root : heap.root[t] \notin Parts(y)
    BY <1>4 DEF WellOwned, Nodes
  <2> QED BY <1>1, <1>4, <2>1, <2>2 DEF Fits, Nodes
<1>7. /\ WellOwned(k) /\ DOMAIN k.value = Nodes
      /\ \A u \in Nodes : /\ k.value[u] = IF u = w THEN y ELSE heap.value[u]
                          /\ Inside(k, u) = IF u = w THEN Parts(y) ELSE Inside(heap, u)
  BY <1>5, <1>6, Rewired DEF Nodes
<1> QED BY <1>4, <1>7 DEF Value

\* Whatever the client changes behind its lock.
LEMMA ChangesKeep ==
  ASSUME WellOwned(heap), NEW l \in Locks, NEW k \in {heap} \cup Changes(l)
  PROVE  Keeps(heap, k)
<1>1. CASE k = heap
  BY <1>1 DEF Keeps
<1>2. CASE k \in {WithoutHandle(heap, l, w) : w \in Arcs(Inside(heap, l))}
  BY <1>2, DroppedKeeps DEF Arcs
<1>3. CASE \E w \in Arcs(Inside(heap, l)) : \E v \in SharedBy(Arcs(Alive(heap))) :
             k = Pointed(heap, w, v)
  <2>1. PICK w, v : /\ w \in Nodes /\ Value(w).kind = "arc" /\ k = Pointed(heap, w, v)
                    /\ v \in SharedBy(Arcs(Alive(heap)))
    BY <1>3 DEF Arcs
  <2>2. PICK x \in Nodes : Value(x).kind = "arc" /\ v \in Inside(heap, x)
    BY <2>1, SharedPart
  <2>3. /\ WellOwned(k) /\ DOMAIN k.value = Nodes
        /\ \A u \in Nodes :
             /\ k.value[u].kind = Value(u).kind
             /\ Inside(k, u) = IF u = w THEN {v} ELSE Inside(heap, u)
    BY <2>1, <2>2, PointedHeap
  <2> QED BY <2>1, <2>2, <2>3 DEF Keeps, Nodes, Value
<1>4. CASE \E w \in Arcs(Inside(heap, l)) : \E v \in SharedBy(Arcs(Nodes)) :
             k = Allocated(Pointed(heap, w, v), v)
  <2>1. PICK w, v : /\ w \in Nodes /\ Value(w).kind = "arc"
                    /\ k = Allocated(Pointed(heap, w, v), v)
                    /\ v \in SharedBy(Arcs(Nodes))
    BY <1>4 DEF Arcs
  <2>2. PICK x \in Nodes : Value(x).kind = "arc" /\ v \in Inside(heap, x)
    BY <2>1, SharedPart
  <2>3. PICK g : g = Pointed(heap, w, v)
    OBVIOUS
  <2>4. /\ WellOwned(g) /\ DOMAIN g.value = Nodes
        /\ \A u \in Nodes :
             /\ g.value[u].kind = Value(u).kind
             /\ Inside(g, u) = IF u = w THEN {v} ELSE Inside(heap, u)
    BY <2>1, <2>2, <2>3, PointedHeap
  <2>5. v \in Nodes
    BY <2>1, SharedPart
  <2>6. Parts(Fresh) = {} /\ Fits(g, v, Fresh)
    <3>1. Parts(Fresh) = {} /\ Len(Fresh.parts) = 0
      BY DEF Parts, Range
    <3>2. Cardinality(Parts(Fresh)) = 0
      BY <3>1, FS_EmptySet
    <3> QED BY <3>1, <3>2 DEF Fits
  <2>7. k = [g EXCEPT !.value[v] = Fresh]
    BY <2>1, <2>3 DEF Allocated
  <2>8. /\ WellOwned(k) /\ DOMAIN k.value = Nodes
        /\ \A u \in Nodes : /\ k.value[u] = IF u = v THEN Fresh ELSE g.value[u]
                            /\ Inside(k, u) = IF u = v THEN {} ELSE Inside(g, u)
    BY <2>4, <2>5, <2>6, <2>7, Rewired
  <2> QED BY <2>1, <2>2, <2>4, <2>8 DEF Keeps, Nodes, Value
<1> QED BY <1>1, <1>2, <1>3, <1>4 DEF Changes

\* A thread, while the client changes what is behind a lock that no thread holds.
LEMMA ThreadMeanwhile ==
  ASSUME SizeTypes, NEW t \in Threads, InTurn(t), NEW D \in SUBSET Nodes, Entered(t, D),
         Keeps(heap, heap'), UNCHANGED threadVars,
         \A l \in Nodes : t \in held'[l] <=> t \in held[l]
  PROVE  InTurn(t)' /\ D \in SUBSET Nodes' /\ Entered(t, D)'
<1>1. /\ Nodes' = Nodes /\ agenda' = agenda /\ context' = context /\ pc' = pc
      /\ \A u \in Nodes : \A x \in Inside(heap', u) :
           \/ x \in Inside(heap, u) /\ heap'.value[u].kind = Value(u).kind
           \/ /\ heap'.value[u].kind = "arc"
              /\ \E z \in Nodes : Value(z).kind = "arc" /\ x \in Inside(heap, z)
  BY DEF Keeps, Nodes, Value, threadVars
<1>2. Once(agenda[t]) /\ Nested(t) /\ UnlocksHeld(t)
  BY DEF InTurn
<1>3. Nested(t)'
  <2>1. ASSUME NEW l \in Nodes, heap'.value[l].kind \in {"mutex", "rwlock"},
               NEW v \in Inside(heap', l), NEW i \in DOMAIN agenda[t],
               agenda[t][i] = Visit(v)
        PROVE  \E j \in DOMAIN agenda[t] : i < j /\ agenda[t][j] = Unlock(l)
    <3>1. l \in Locks /\ v \in Inside(heap, l)
      BY <1>1, <2>1 DEF Locks
    <3> QED BY <1>2, <2>1, <3>1 DEF Nested
  <2>2. Locks' = {l \in Nodes : heap'.value[l].kind \in {"mutex", "rwlock"}}
    BY <1>1 DEF Locks, Value
  <2>3. PICK a : a = agenda[t]
    OBVIOUS
  <2>4. Nested(t)' <=>
          \A l \in Locks' : \A v \in Inside(heap', l) : \A i \in DOMAIN agenda'[t] :
            agenda'[t][i] = Visit(v) =>
              \E j \in DOMAIN agenda'[t] : i < j /\ agenda'[t][j] = Unlock(l)
    BY DEF Nested
  <2> QED BY <1>1, <2>1, <2>2, <2>4
<1>4. UnlocksHeld(t)' /\ Once(agenda[t])'
  BY <1>1, <1>2 DEF UnlocksHeld, Once
<1>5. ToVisit(t)' = ToVisit(t)
  BY <1>1 DEF ToVisit, VisitsOf
<1>6. Entered(t, D)'
  <2>1. ASSUME NEW u \in Nodes, NEW x \in Inside(heap', u) \cap D
        PROVE  /\ heap'.value[u].kind \in {"arc", "rc"} => x \in context[t][heap'.value[u].kind]
               /\ heap'.value[u].kind \notin {"arc", "rc", "ref"} => u \in D \ ToVisit(t)
    BY <1>1 DEF Entered
  <2>2. /\ pc[t] = "ready" => D = {}
        /\ ToVisit(t) \subseteq D
        /\ \A l \in Nodes : t \in held[l] => l \in D \ ToVisit(t)
    BY DEF Entered
  <2> QED BY <1>1, <1>5, <2>1, <2>2 DEF Entered, Value
<1> QED BY <1>1, <1>3, <1>4, <1>6 DEF InTurn

\* The client asks for a lock, or is given it.
LEMMA ClientAskOwn ==
  ASSUME OwnInv, (\E l \in Locks : ClientWait(l)) \/ ClientLock
  PROVE  OwnInv'
<1>1. /\ SizeTypes
      /\ \A u \in Threads : InTurn(u) /\ \E D \in SUBSET Nodes : Entered(u, D)
  BY DEF OwnInv
<1>2. UNCHANGED <<heap, pc, agenda, context>>
  BY DEF ClientWait, ClientLock, threadVars
<1>3. Nodes' = Nodes /\ Items' = Items /\ Locks' = Locks /\ WellOwned(heap)'
  BY <1>1, <1>2 DEF Nodes, Items, Locks, Value, SizeTypes, WellOwned
<1>4. /\ client' \in [pc : {"idle"}, uses : Nat]
                       \cup [pc : {"waiting", "holding"}, uses : Nat, lock : Locks]
      /\ held' \in [Nodes -> SUBSET (Threads \cup {Client})]
      /\ client'.pc = "holding" => held'[client'.lock] = {Client}
      /\ \A u \in Threads : \A l \in Nodes : u \in held'[l] <=> u \in held[l]
  <2>1. /\ client \in [pc : {"idle"}, uses : Nat]
                       \cup [pc : {"waiting", "holding"}, uses : Nat, lock : Locks]
        /\ held \in [Nodes -> SUBSET (Threads \cup {Client})]
        /\ Locks \subseteq Nodes
    BY <1>1 DEF SizeTypes, Locks
  <2>2. CASE \E l \in Locks : ClientWait(l)
    BY <2>1, <2>2 DEF ClientWait
  <2>3. CASE ClientLock
    <3>1. /\ client \in [pc : {"waiting", "holding"}, uses : Nat, lock : Locks]
          /\ held[client.lock] = {} /\ held' = [held EXCEPT ![client.lock] = {Client}]
          /\ client' = [client EXCEPT !.pc = "holding"]
      BY <2>1, <2>3 DEF ClientLock
    <3>2. /\ client' \in [pc : {"waiting", "holding"}, uses : Nat, lock : Locks]
          /\ client'.lock = client.lock /\ client.lock \in Nodes
      BY <2>1, <3>1
    <3> QED BY <2>1, <3>1, <3>2
  <2> QED BY <2>2, <2>3
<1>5. SizeTypes'
  BY <1>1, <1>2, <1>3, <1>4 DEF SizeTypes
<1>6. ASSUME NEW u \in Threads
      PROVE  InTurn(u)' /\ (\E E \in SUBSET Nodes : Entered(u, E))'
  <2>1. PICK E \in SUBSET Nodes : Entered(u, E)
    BY <1>1
  <2>2. InTurn(u)' /\ E \in SUBSET Nodes' /\ Entered(u, E)'
    BY <1>1, <1>2, <1>4, <2>1, OtherThread
  <2> QED BY <2>2
<1> QED BY <1>5, <1>6 DEF OwnInv

\* The client releases its lock, with something changed behind it or not.
LEMMA ClientUnlockOwn ==
  ASSUME OwnInv, ClientUnlock
  PROVE  OwnInv'
<1>1. PICK l : l = client.lock
  OBVIOUS
<1>2. /\ SizeTypes
      /\ \A u \in Threads : InTurn(u) /\ \E D \in SUBSET Nodes : Entered(u, D)
  BY DEF OwnInv
<1>3. /\ client.pc = "holding" /\ client' = [pc |-> "idle", uses |-> client.uses]
      /\ held' = [held EXCEPT ![l] = {}] /\ heap' \in {heap} \cup Changes(l)
      /\ UNCHANGED threadVars
  BY <1>1 DEF ClientUnlock
<1>4. /\ l \in Locks /\ l \in Nodes /\ client.uses \in Nat /\ held[l] = {Client}
      /\ held \in [Nodes -> SUBSET (Threads \cup {Client})] /\ WellOwned(heap)
  BY <1>1, <1>2, <1>3 DEF SizeTypes, Locks
<1>5. Keeps(heap, heap')
  BY <1>3, <1>4, ChangesKeep
<1>6. Nodes' = Nodes /\ Items' = Items /\ WellOwned(heap)'
  <2>1. DOMAIN heap'.value = DOMAIN heap.value /\ WellOwned(heap')
    BY <1>5 DEF Keeps
  <2>2. WellOwned(heap)' <=> WellOwned(heap')
    BY DEF WellOwned
  <2> QED BY <2>1, <2>2 DEF Nodes, Items
<1>7. SizeTypes'
  <2>1. held' \in [Nodes -> SUBSET (Threads \cup {Client})]
    BY <1>3, <1>4
  <2> QED BY <1>2, <1>3, <1>4, <1>6, <2>1 DEF SizeTypes, threadVars
<1>8. ASSUME NEW u \in Threads
      PROVE  InTurn(u)' /\ (\E E \in SUBSET Nodes : Entered(u, E))'
  <2>1. PICK E \in SUBSET Nodes : Entered(u, E)
    BY <1>2
  <2>2. \A m \in Nodes : u \in held'[m] <=> u \in held[m]
    BY <1>3, <1>4
  <2>3. InTurn(u)' /\ E \in SUBSET Nodes' /\ Entered(u, E)'
    BY <1>2, <1>3, <1>5, <2>1, <2>2, ThreadMeanwhile
  <2> QED BY <2>3
<1> QED BY <1>7, <1>8 DEF OwnInv
-----------------------------------------------------------------------------
\* Before any measure.
LEMMA OwnInit ==
  ASSUME Init
  PROVE  OwnInv
<1>1. heap \in Heaps /\ WellOwned(heap) /\ heap.uses \in Nat
  BY DEF Init
<1>2. /\ pc = [t \in Threads |-> "ready"] /\ agenda = [t \in Threads |-> << >>]
      /\ context = [t \in Threads |-> NoContext] /\ held = [v \in Nodes |-> {}]
      /\ client = NoClient
  BY DEF Init
<1>3. SizeTypes
  BY <1>1, <1>2 DEF SizeTypes, NoContext, NoClient
<1>4. ASSUME NEW t \in Threads PROVE InTurn(t) /\ Entered(t, {})
  <2>1. agenda[t] = << >> /\ \A l \in Nodes : t \notin held[l]
    BY <1>2
  <2>2. ToVisit(t) = {}
    BY <2>1 DEF ToVisit, VisitsOf
  <2> QED BY <2>1, <2>2 DEF InTurn, Once, Nested, UnlocksHeld, Entered
<1> QED BY <1>3, <1>4 DEF OwnInv

\* Every step keeps the invariant.
LEMMA OwnNext ==
  ASSUME OwnInv, [Next]_vars
  PROVE  OwnInv'
<1>1. CASE \E t \in Threads : Start(t)
  <2>1. PICK t \in Threads : Start(t)
    BY <1>1
  <2>2. PICK r : r = Root[t]
    OBVIOUS
  <2> QED BY <2>1, <2>2, StartOwn
<1>2. CASE \E t \in Threads : Step(t)
  <2>1. PICK t \in Threads : Step(t)
    BY <1>2
  <2>2. CASE Sum(t) \/ Box(t) \/ Shared(t) \/ Lock(t)
    BY <2>2, VisitOwn
  <2>3. CASE DropGuard(t)
    BY <2>3, DropGuardOwn
  <2>4. CASE Return(t)
    BY <2>4, ReturnOwn
  <2> QED BY <2>1, <2>2, <2>3, <2>4 DEF Step
<1>3. CASE (\E l \in Locks : ClientWait(l)) \/ ClientLock
  BY <1>3, ClientAskOwn
<1>4. CASE ClientUnlock
  BY <1>4, ClientUnlockOwn
<1>5. CASE UNCHANGED vars
  <2>1. /\ SizeTypes
        /\ \A u \in Threads : InTurn(u) /\ \E D \in SUBSET Nodes : Entered(u, D)
    BY DEF OwnInv
  <2>2. UNCHANGED <<heap, pc, agenda, context, held, client>>
    BY <1>5 DEF vars, threadVars
  <2>3. SizeTypes'
    <3>1. Nodes' = Nodes /\ Items' = Items /\ Locks' = Locks /\ WellOwned(heap)'
      BY <2>1, <2>2 DEF Nodes, Items, Locks, Value, SizeTypes, WellOwned
    <3> QED BY <2>1, <2>2, <3>1 DEF SizeTypes
  <2>4. ASSUME NEW u \in Threads
        PROVE  InTurn(u)' /\ (\E E \in SUBSET Nodes : Entered(u, E))'
    <3>1. PICK E \in SUBSET Nodes : Entered(u, E)
      BY <2>1
    <3>2. InTurn(u)' /\ E \in SUBSET Nodes' /\ Entered(u, E)'
      BY <2>1, <2>2, <3>1, OtherThread
    <3> QED BY <3>2
  <2> QED BY <2>3, <2>4 DEF OwnInv
<1> QED BY <1>1, <1>2, <1>3, <1>4, <1>5 DEF Next

\* What is directly inside a lock is not visited without the guard.
ContentGuarded ==
  \A t \in Threads : \A l \in Locks :
    ToVisit(t) \cap Inside(heap, l) # {} => t \in held[l]

\* What the invariant says of locks.
LEMMA OwnInvMeans ==
  ASSUME OwnInv
  PROVE  NeverRelocks /\ ContentGuarded
<1>1. SizeTypes
  BY DEF OwnInv
<1>2. ASSUME NEW t \in Threads, AtVisit(t, {"mutex", "rwlock"})
      PROVE  t \notin held[Head(agenda[t]).value]
  <2>1. PICK w : w = Head(agenda[t]).value
    OBVIOUS
  <2>2. w \in Nodes /\ w \in ToVisit(t)
    BY <1>1, <1>2, <2>1, HeadVisit
  <2>3. PICK D \in SUBSET Nodes : Entered(t, D)
    BY DEF OwnInv
  <2> QED BY <2>1, <2>2, <2>3 DEF Entered
<1>3. ASSUME NEW t \in Threads, NEW l \in Locks, NEW v \in ToVisit(t) \cap Inside(heap, l)
      PROVE  t \in held[l]
  <2>1. PICK i \in DOMAIN agenda[t] : agenda[t][i] = Visit(v)
    BY DEF ToVisit, VisitsOf
  <2>2. PICK j \in DOMAIN agenda[t] : agenda[t][j] = Unlock(l)
    BY <2>1 DEF OwnInv, InTurn, Nested
  <2> QED BY <2>2 DEF OwnInv, InTurn, UnlocksHeld, Locks
<1> QED BY <1>2, <1>3 DEF NeverRelocks, ContentGuarded

\* A measure never asks for a lock whose guard it holds, so that deep_size_of
\* cannot block on itself however values share and cycle
\* (deepsize.rs:376-383, default_impls.rs:172-187).
THEOREM MeasuresNeverRelock == Spec => []NeverRelocks
<1>1. Init => OwnInv
  BY OwnInit
<1>2. OwnInv /\ [Next]_vars => OwnInv'
  BY OwnNext
<1>3. OwnInv => NeverRelocks
  BY OwnInvMeans
<1> QED BY <1>1, <1>2, <1>3, PTL DEF Spec

\* What is directly inside a Mutex or an RwLock is visited under the guard, which
\* deep_size_of_children keeps until it returns (default_impls.rs:172-187).
THEOREM ContentUnderGuard == Spec => []ContentGuarded
<1>1. Init => OwnInv
  BY OwnInit
<1>2. OwnInv /\ [Next]_vars => OwnInv'
  BY OwnNext
<1>3. OwnInv => ContentGuarded
  BY OwnInvMeans
<1> QED BY <1>1, <1>2, <1>3, PTL DEF Spec
-----------------------------------------------------------------------------
(* Searches of a graph, level by level.                                     *)

\* One step of a search that goes on from v to the values in E[v].
Grown(E, S) == UNION {{v} \cup E[v] : v \in S}

\* The levels of a search from those in base, as far as it stays where E is defined.
Searches(f, N, base, E) ==
  /\ f = [n \in 0 .. N |-> f[n]] /\ f[0] = base
  /\ \A n \in 0 .. N - 1 : f[n] \subseteq DOMAIN E => f[n + 1] = Grown(E, f[n])

\* E leads from each value of X, of which there are N, to some of them, and so does
\* the search f.
Explores(f, N, X, base, E) ==
  /\ IsFiniteSet(X) /\ N = Cardinality(X) /\ E \in [X -> SUBSET X] /\ base \in SUBSET X
  /\ Searches(f, N, base, E)

\* A graph has a search from every set.
LEMMA SearchExists ==
  ASSUME NEW X, NEW N \in Nat, NEW E \in [X -> SUBSET X], NEW base \in SUBSET X
  PROVE  \E f \in [0 .. N -> SUBSET X] : Searches(f, N, base, E)
<1>2. PICK V : V = SUBSET X
  OBVIOUS
<1>3. PICK rule : rule = [p \in Nat \X V |-> Grown(E, p[2])]
  OBVIOUS
<1>6. \A S \in V : Grown(E, S) \in V
  BY <1>2 DEF Grown
<1>7. rule \in [Nat \X V -> V]
  BY <1>3, <1>6
<1>8. /\ \E f : Iterates(f, 0 .. N, base, rule)
      /\ \A f : Iterates(f, 0 .. N, base, rule) => f \in [0 .. N -> V]
  <2>1. 0 .. N \subseteq Nat /\ \A i \in 0 .. N : i # 0 => i - 1 \in 0 .. N
    OBVIOUS
  <2> QED BY <1>2, <1>7, <2>1, RecursionExists
<1>9. PICK f : Iterates(f, 0 .. N, base, rule) /\ f \in [0 .. N -> V]
  BY <1>8
<1>10. f = [n \in 0 .. N |-> IF n = 0 THEN base ELSE rule[<<n, f[n - 1]>>]]
  BY <1>9 DEF Iterates
<1>11. f[0] = base /\ f = [n \in 0 .. N |-> f[n]]
  BY <1>9, <1>10
<1>12. ASSUME NEW n \in 0 .. N - 1 PROVE f[n + 1] = Grown(E, f[n])
  <2>1. n + 1 \in 0 .. N /\ n + 1 \in Nat /\ n + 1 # 0 /\ (n + 1) - 1 = n /\ f[n] \in V
    BY <1>9
  <2>2. f[n + 1] = rule[<<n + 1, f[n]>>]
    BY <1>10, <2>1
  <2> QED BY <1>3, <2>1, <2>2
<1> QED BY <1>2, <1>9, <1>11, <1>12 DEF Searches

\* The levels are as many as there are values, and each but the last ones finds
\* another value: so the last one has all that can be found, and nothing else.
LEMMA SearchEnds ==
  ASSUME NEW X, NEW N, NEW E, NEW base, NEW f, Explores(f, N, X, base, E)
  PROVE  /\ f[N] \subseteq X /\ base \subseteq f[N] /\ \A v \in f[N] : E[v] \subseteq f[N]
         /\ \A T \in SUBSET X : base \subseteq T /\ (\A v \in T : E[v] \subseteq T) => f[N] \subseteq T
<1>14. /\ IsFiniteSet(X) /\ Cardinality(X) = N /\ E \in [X -> SUBSET X]
       /\ base \in SUBSET X /\ Searches(f, N, base, E)
  BY DEF Explores
<1>1. N \in Nat /\ IsFiniteSet(X) /\ Cardinality(X) = N
  BY <1>14, FS_CardinalityType
<1>2. /\ f[0] = base /\ DOMAIN E = X
      /\ \A n \in 0 .. N - 1 : f[n] \subseteq X => f[n + 1] = Grown(E, f[n])
  BY <1>14 DEF Searches
<1>3. \A S : S \subseteq Grown(E, S)
  BY DEF Grown
<1>4. \A S \in SUBSET X : Grown(E, S) \in SUBSET X
  BY <1>14 DEF Grown
<1> DEFINE Within(n) == n <= N => f[n] \subseteq X /\ base \subseteq f[n]
<1>5. \A n \in 0 .. N : Within(n)
  <2> DEFINE S == {n \in Nat : Within(n)}
  <2>1. 0 \in S
    BY <1>2, <1>14
  <2>2. ASSUME NEW n \in Nat, n \in S PROVE n + 1 \in S
    <3>1. n + 1 <= N => n \in 0 .. N - 1 /\ n <= N
      BY <1>1
    <3> QED BY <1>2, <1>3, <1>4, <2>2, <3>1
  <2> HIDE DEF S
  <2>3. Nat \subseteq S
    BY <2>1, <2>2, Induct
  <2> QED BY <1>1, <2>3 DEF S
<1>6. ASSUME NEW n \in 0 .. N
      PROVE  f[n] \subseteq X /\ base \subseteq f[n] /\ IsFiniteSet(f[n]) /\ Cardinality(f[n]) \in Nat
  <2>1. f[n] \subseteq X /\ base \subseteq f[n]
    BY <1>1, <1>5
  <2> QED BY <1>1, <2>1, FS_Subset, FS_CardinalityType
<1>7. ASSUME NEW n \in 0 .. N - 1
      PROVE  n \in 0 .. N /\ n + 1 \in 0 .. N /\ f[n + 1] = Grown(E, f[n])
  <2>1. n \in 0 .. N /\ n + 1 \in 0 .. N
    BY <1>1
  <2> QED BY <1>2, <1>6, <2>1
<1> DEFINE Ended(S) == Grown(E, S) = S
           Sized(n) == n <= N => Ended(f[n]) \/ Cardinality(f[n]) >= n + 1
<1>8. Sized(0)
  <2>1. 0 \in 0 .. N
    BY <1>1
  <2>2. CASE f[0] = {}
    <3>1. Grown(E, {}) = {}
      BY DEF Grown
    <3> QED BY <2>2, <3>1
  <2>3. CASE f[0] # {}
    <3>1. Cardinality(f[0]) # 0
      BY <1>6, <2>1, <2>3, FS_EmptySet
    <3> QED BY <1>6, <2>1, <3>1
  <2> QED BY <2>2, <2>3
<1>9. ASSUME NEW n \in Nat, Sized(n) PROVE Sized(n + 1)
  <2> SUFFICES ASSUME n + 1 <= N
               PROVE  Ended(f[n + 1]) \/ Cardinality(f[n + 1]) >= (n + 1) + 1
    OBVIOUS
  <2>1. n \in 0 .. N - 1 /\ n \in 0 .. N /\ n + 1 \in 0 .. N /\ n <= N
    BY <1>1
  <2>2. f[n + 1] = Grown(E, f[n]) /\ f[n] \subseteq f[n + 1]
    BY <1>3, <1>7, <2>1
  <2>3. CASE Ended(f[n])
    BY <2>2, <2>3
  <2>4. CASE ~ Ended(f[n])
    <3>1. f[n] # f[n + 1] /\ Cardinality(f[n]) >= n + 1
      BY <1>9, <2>1, <2>2, <2>4
    <3>2. Cardinality(f[n]) < Cardinality(f[n + 1])
      <4>1. IsFiniteSet(f[n + 1]) /\ f[n] \subseteq f[n + 1] /\ f[n] # f[n + 1]
        BY <1>6, <2>1, <2>2, <3>1
      <4>2. /\ Cardinality(f[n]) <= Cardinality(f[n + 1])
            /\ Cardinality(f[n]) = Cardinality(f[n + 1]) => f[n] = f[n + 1]
        BY <4>1, FS_Subset
      <4> QED BY <1>6, <2>1, <3>1, <4>2
    <3>3. Cardinality(f[n + 1]) >= (n + 1) + 1
      BY <1>6, <2>1, <3>1, <3>2
    <3> QED BY <3>3
  <2> QED BY <2>3, <2>4
<1>10. Sized(N)
  <2> DEFINE S == {n \in Nat : Sized(n)}
  <2>1. 0 \in S
    BY <1>8
  <2>2. ASSUME NEW n \in Nat, n \in S PROVE n + 1 \in S
    <3> HIDE DEF Sized
    <3> QED BY <1>9, <2>2
  <2> HIDE DEF S
  <2>3. N \in S
    BY <1>1, <2>1, <2>2, Induct
  <2> QED BY <2>3 DEF S
<1>11. Ended(f[N]) /\ base \subseteq f[N] /\ f[N] \subseteq X
  <2>1. N \in 0 .. N /\ N <= N
    BY <1>1
  <2>2. Cardinality(f[N]) <= N
    BY <1>1, <1>6, <2>1, FS_Subset
  <2>3. ~ (Cardinality(f[N]) >= N + 1)
    BY <1>1, <1>6, <2>1, <2>2
  <2> QED BY <1>6, <1>10, <2>1, <2>3
<1>12. \A v \in f[N] : E[v] \subseteq f[N]
  BY <1>11 DEF Grown
<1>13. ASSUME NEW T \in SUBSET X, base \subseteq T, \A v \in T : E[v] \subseteq T
       PROVE  f[N] \subseteq T
  <2> DEFINE S == {n \in Nat : n <= N => f[n] \subseteq T}
  <2>1. 0 \in S
    BY <1>2, <1>13
  <2>2. ASSUME NEW n \in Nat, n \in S PROVE n + 1 \in S
    <3>1. n + 1 <= N => n \in 0 .. N - 1 /\ n <= N
      BY <1>1
    <3>2. f[n] \subseteq T => Grown(E, f[n]) \subseteq T
      BY <1>13 DEF Grown
    <3> QED BY <1>7, <2>2, <3>1, <3>2
  <2> HIDE DEF S
  <2>3. N \in S
    BY <1>1, <2>1, <2>2, Induct
  <2> QED BY <1>1, <2>3 DEF S
<1> QED BY <1>11, <1>12, <1>13

-----------------------------------------------------------------------------
(* What is alive.                                                          *)

\* The values measured and in use.
Kept(h) ==
  {h.root[t] : t \in DOMAIN h.root} \cup (IF client.pc = "idle" THEN {} ELSE {client.lock})

\* What is alive: the values measured and in use, and whatever is inside one that is.
LEMMA AliveClosed ==
  ASSUME NEW h, WellOwned(h), Kept(h) \subseteq DOMAIN h.value
  PROVE  /\ Alive(h) \subseteq DOMAIN h.value /\ Kept(h) \subseteq Alive(h)
         /\ \A v \in Alive(h) : Inside(h, v) \subseteq Alive(h)
<1>1. PICK N, X : N = Len(h.value) /\ X = DOMAIN h.value
  OBVIOUS
<1>2. PICK E : E = [v \in X |-> Inside(h, v)]
  OBVIOUS
<1>3. PICK base : base = Kept(h)
  OBVIOUS
<1>4. N \in Nat /\ X = 1 .. N
  BY <1>1, LenProperties DEF WellOwned
<1>5. IsFiniteSet(X) /\ N = Cardinality(X)
  BY <1>4, FS_Interval
<1>6. E \in [X -> SUBSET X] /\ base \in SUBSET X
  BY <1>1, <1>2, <1>3 DEF WellOwned
<1> DEFINE F(f) == f = [n \in 0 .. N |-> IF n = 0 THEN base
                                         ELSE UNION {{v} \cup Inside(h, v) : v \in f[n - 1]}]
<1>7. ASSUME NEW S \in SUBSET X PROVE Grown(E, S) = UNION {{v} \cup Inside(h, v) : v \in S}
  BY <1>2 DEF Grown
<1>8. \E f : F(f)
  <2>1. PICK f \in [0 .. N -> SUBSET X] : Searches(f, N, base, E)
    BY <1>4, <1>6, SearchExists
  <2>2. ASSUME NEW n \in 0 .. N, n # 0
        PROVE  f[n] = UNION {{v} \cup Inside(h, v) : v \in f[n - 1]}
    <3>1. n - 1 \in 0 .. N - 1 /\ n - 1 \in 0 .. N /\ (n - 1) + 1 = n /\ f[n - 1] \in SUBSET X
      BY <1>4, <2>1, <2>2
    <3>2. f[n] = Grown(E, f[n - 1])
      BY <1>6, <2>1, <3>1 DEF Searches
    <3> QED BY <1>7, <3>1, <3>2
  <2>3. f = [n \in 0 .. N |-> f[n]] /\ f[0] = base
    BY <2>1 DEF Searches
  <2>4. F(f)
    BY <2>2, <2>3
  <2> QED BY <2>4
<1>9. PICK f : F(f) /\ Alive(h) = f[N]
  <2>1. PICK f : f = CHOOSE g : F(g)
    OBVIOUS
  <2>2. F(f)
    <3> HIDE DEF F
    <3> QED BY <1>8, <2>1
  <2>3. Alive(h) = f[N]
    BY <1>1, <1>3, <2>1 DEF Alive, Kept
  <2> QED BY <2>2, <2>3
<1>10. Searches(f, N, base, E)
  <2>1. 0 \in 0 .. N
    BY <1>4
  <2>2. f[0] = base /\ f = [n \in 0 .. N |-> f[n]]
    BY <1>9, <2>1
  <2>3. ASSUME NEW n \in 0 .. N - 1, f[n] \subseteq X PROVE f[n + 1] = Grown(E, f[n])
    <3>1. n + 1 \in 0 .. N /\ n + 1 # 0 /\ (n + 1) - 1 = n
      BY <1>4
    <3>2. f[n + 1] = UNION {{v} \cup Inside(h, v) : v \in f[n]}
      BY <1>9, <3>1
    <3> QED BY <1>7, <2>3, <3>2
  <2> QED BY <1>6, <2>2, <2>3 DEF Searches
<1> HIDE DEF F
<1>11. f[N] \subseteq X /\ base \subseteq f[N] /\ \A v \in f[N] : E[v] \subseteq f[N]
  <2>1. Explores(f, N, X, base, E)
    BY <1>5, <1>6, <1>10 DEF Explores
  <2> QED BY <2>1, SearchEnds
<1>12. \A v \in f[N] : Inside(h, v) \subseteq f[N]
  BY <1>2, <1>11
<1> QED BY <1>1, <1>3, <1>9, <1>11, <1>12

-----------------------------------------------------------------------------
(* Nothing that a thread goes through is freed.                             *)

\* A thread with the agenda e goes on from value u: not from a reference, and from
\* a lock only if its guard is dropped after item i.
Opens(h, e, i, u) ==
  /\ h.value[u].kind # "ref"
  /\ h.value[u].kind \in {"mutex", "rwlock"} =>
       \E j \in DOMAIN e : i < j /\ e[j] = Unlock(u)

\* S holds r and all that one goes on to from it.
Spans(h, r, e, i, S) ==
  r \in S /\ \A u \in S : Opens(h, e, i, u) => Inside(h, u) \subseteq S

\* What the items of e are about is reached from r through values that have owners
\* and through locks whose guards are kept until then.
Grounded(h, r, e) ==
  \A i \in DOMAIN e : \A S \in SUBSET DOMAIN h.value :
    Spans(h, r, e, i, S) => e[i].value \in S

Anchored(t) ==
  agenda[t] # << >> => t \in DOMAIN Root /\ Grounded(heap, Root[t], agenda[t])

\* What t holds it is to release.
GuardsOwed(t) ==
  \A m \in Nodes : t \in held[m] => \E i \in DOMAIN agenda[t] : agenda[t][i] = Unlock(m)

\* Guards are of locks only, one at a time of a Mutex, and the client's excludes
\* all others.
HeldInv ==
  /\ \A m \in Nodes : Client \in held[m] =>
       held[m] = {Client} /\ client.pc = "holding" /\ client.lock = m
  /\ \A l \in Locks : Value(l).kind = "mutex" => \A a, b \in held[l] : a = b
  /\ \A m \in Nodes \ Locks : held[m] = {}
  /\ \A t \in Threads : GuardsOwed(t) /\ Anchored(t)

\* What a thread goes on to at w is reached from w.
FromHead(h, w, new) ==
  \A i \in DOMAIN new :
    \/ new[i].value = w
    \/ /\ new[i].value \in Inside(h, w) /\ h.value[w].kind # "ref"
       /\ h.value[w].kind \in {"mutex", "rwlock"} =>
            \E j \in DOMAIN new : i < j /\ new[j] = Unlock(w)

\* An agenda stays grounded when its head gives way to what it leads to.
LEMMA GroundedThen ==
  ASSUME NEW h, NEW r, NEW T, NEW e \in Seq(T), e # << >>, NEW w, w = Head(e).value,
         NEW new \in Seq(T), Grounded(h, r, e), FromHead(h, w, new)
  PROVE  Grounded(h, r, new \o Tail(e))
<1>1. PICK f : f = new \o Tail(e)
  OBVIOUS
<1>2. PICK n : n = Len(new)
  OBVIOUS
<1>3. /\ n \in Nat /\ DOMAIN new = 1 .. n /\ Len(e) \in Nat \ {0}
      /\ DOMAIN e = 1 .. Len(e) /\ Head(e) = e[1]
      /\ DOMAIN f = 1 .. n + Len(e) - 1
      /\ \A i \in 1 .. n : f[i] = new[i] /\ i \in DOMAIN f
      /\ \A i \in 2 .. Len(e) : f[i + n - 1] = e[i] /\ i + n - 1 \in DOMAIN f
      /\ \A i \in DOMAIN f : i \in 1 .. n \/ \E k \in 2 .. Len(e) : i = k + n - 1
  BY <1>1, <1>2, ReplacedHead
<1>4. SUFFICES ASSUME NEW i \in DOMAIN f, NEW S \in SUBSET DOMAIN h.value,
                      Spans(h, r, f, i, S)
               PROVE  f[i].value \in S
  BY <1>1 DEF Grounded
<1>5. CASE i \in 1 .. n
  <2>1. ASSUME NEW u \in S, Opens(h, e, 1, u) PROVE Opens(h, f, i, u)
    <3>1. SUFFICES ASSUME h.value[u].kind \in {"mutex", "rwlock"}
                   PROVE  \E j \in DOMAIN f : i < j /\ f[j] = Unlock(u)
      BY <2>1 DEF Opens
    <3>2. PICK j \in DOMAIN e : 1 < j /\ e[j] = Unlock(u)
      BY <2>1, <3>1 DEF Opens
    <3>3. j \in 2 .. Len(e) /\ i < j + n - 1
      BY <1>3, <1>5, <3>2
    <3> QED BY <1>3, <3>2, <3>3
  <2>2. Spans(h, r, e, 1, S)
    BY <1>4, <2>1 DEF Spans
  <2>3. w \in S
    BY <1>3, <2>2 DEF Grounded
  <2>4. f[i] = new[i] /\ i \in DOMAIN new
    BY <1>3, <1>5
  <2>5. CASE new[i].value = w
    BY <2>3, <2>4, <2>5
  <2>6. CASE new[i].value # w
    <3>1. /\ new[i].value \in Inside(h, w) /\ h.value[w].kind # "ref"
          /\ h.value[w].kind \in {"mutex", "rwlock"} =>
               \E j \in DOMAIN new : i < j /\ new[j] = Unlock(w)
      BY <2>4, <2>6 DEF FromHead
    <3>2. Opens(h, f, i, w)
      BY <1>3, <3>1 DEF Opens
    <3>3. Inside(h, w) \subseteq S
      BY <1>4, <2>3, <3>2 DEF Spans
    <3> QED BY <2>4, <3>1, <3>3
  <2> QED BY <2>5, <2>6
<1>6. CASE i \notin 1 .. n
  <2>1. PICK k \in 2 .. Len(e) : i = k + n - 1
    BY <1>3, <1>6
  <2>2. ASSUME NEW u \in S, Opens(h, e, k, u) PROVE Opens(h, f, i, u)
    <3>1. SUFFICES ASSUME h.value[u].kind \in {"mutex", "rwlock"}
                   PROVE  \E j \in DOMAIN f : i < j /\ f[j] = Unlock(u)
      BY <2>2 DEF Opens
    <3>2. PICK j \in DOMAIN e : k < j /\ e[j] = Unlock(u)
      BY <2>2, <3>1 DEF Opens
    <3>3. j \in 2 .. Len(e) /\ i < j + n - 1
      BY <1>3, <2>1, <3>2
    <3> QED BY <1>3, <3>2, <3>3
  <2>3. Spans(h, r, e, k, S)
    BY <1>4, <2>2 DEF Spans
  <2>4. e[k].value \in S
    <3>1. k \in DOMAIN e
      BY <1>3
    <3> QED BY <2>3, <3>1 DEF Grounded
  <2> QED BY <1>3, <2>1, <2>4
<1> QED BY <1>5, <1>6

\* A thread that is to do something measures a value, and what it does at the head
\* of its agenda leaves the rest grounded, and keeps what it owes.
LEMMA HeldStep ==
  ASSUME OwnInv, HeldInv, NEW t \in Threads, agenda[t] # << >>,
         NEW w, w = Head(agenda[t]).value, NEW new \in Seq(Items), NEW bytes,
         Replace(t, new, bytes), FromHead(heap, w, new),
         \A m \in Nodes : t \in held'[m] =>
           \/ \E i \in DOMAIN new : new[i] = Unlock(m)
           \/ t \in held[m] /\ Head(agenda[t]) # Unlock(m),
         \A u \in Threads \ {t} : \A m \in Nodes : u \in held'[m] => u \in held[m]
  PROVE  \A u \in Threads : GuardsOwed(u)' /\ Anchored(u)'
<1>1. /\ agenda \in [Threads -> Seq(Items)]
      /\ agenda' = [agenda EXCEPT ![t] = new \o Tail(@)] /\ heap' = heap
      /\ \A u \in Threads : GuardsOwed(u) /\ Anchored(u)
  BY DEF OwnInv, SizeTypes, Replace, HeldInv
<1>2. Nodes' = Nodes /\ Root' = Root
  BY <1>1 DEF Nodes, Root
<1>3. PICK e : e = agenda[t]
  OBVIOUS
<1>4. PICK f : f = new \o Tail(e)
  OBVIOUS
<1>5. e \in Seq(Items) /\ e # << >> /\ agenda'[t] = f /\ w = Head(e).value
  BY <1>1, <1>3, <1>4
<1>6. t \in DOMAIN Root /\ Grounded(heap, Root[t], e)
  BY <1>1, <1>3 DEF Anchored
<1>7. Grounded(heap, Root[t], f)
  BY <1>4, <1>5, <1>6, GroundedThen
<1>8. Anchored(t)'
  <2>1. Anchored(t)' <=> (agenda'[t] # << >> =>
                            t \in DOMAIN Root' /\ Grounded(heap', Root'[t], agenda'[t]))
    BY DEF Anchored, Grounded, Spans, Opens, Inside
  <2> QED BY <1>1, <1>2, <1>5, <1>6, <1>7, <2>1
<1>9. GuardsOwed(t)'
  <2>1. ASSUME NEW m \in Nodes, t \in held'[m]
        PROVE  \E i \in DOMAIN f : f[i] = Unlock(m)
    <3>1. /\ Len(new) \in Nat /\ DOMAIN new = 1 .. Len(new)
          /\ DOMAIN e = 1 .. Len(e) /\ Len(e) \in Nat \ {0} /\ Head(e) = e[1]
          /\ \A i \in 1 .. Len(new) : f[i] = new[i] /\ i \in DOMAIN f
          /\ \A i \in 2 .. Len(e) : f[i + Len(new) - 1] = e[i] /\ i + Len(new) - 1 \in DOMAIN f
      BY <1>4, <1>5, ReplacedHead
    <3>2. CASE \E i \in DOMAIN new : new[i] = Unlock(m)
      BY <3>1, <3>2
    <3>3. CASE t \in held[m] /\ Head(e) # Unlock(m)
      <4>1. PICK i \in DOMAIN e : e[i] = Unlock(m)
        BY <1>1, <1>3, <3>3 DEF GuardsOwed
      <4>2. i \in 2 .. Len(e)
        BY <3>1, <3>3, <4>1
      <4> QED BY <3>1, <4>1, <4>2
    <3> QED BY <1>3, <2>1, <3>2, <3>3
  <2> QED BY <1>2, <1>5, <2>1 DEF GuardsOwed
<1>10. ASSUME NEW u \in Threads, u # t PROVE GuardsOwed(u)' /\ Anchored(u)'
  <2>1. agenda'[u] = agenda[u]
    BY <1>1, <1>10
  <2>2. Anchored(u)' <=> (agenda'[u] # << >> =>
                            u \in DOMAIN Root' /\ Grounded(heap', Root'[u], agenda'[u]))
    BY DEF Anchored, Grounded, Spans, Opens, Inside
  <2>3. Anchored(u)'
    BY <1>1, <1>2, <2>1, <2>2 DEF Anchored
  <2>4. GuardsOwed(u)'
    BY <1>1, <1>2, <1>10, <2>1 DEF GuardsOwed
  <2> QED BY <2>3, <2>4
<1> QED BY <1>8, <1>9, <1>10

\* Guards stay as they are.
LEMMA HeldSame ==
  ASSUME HeldInv, UNCHANGED <<heap, held, client>>,
         \A u \in Threads : GuardsOwed(u)' /\ Anchored(u)'
  PROVE  HeldInv'
<1>1. Nodes' = Nodes /\ Locks' = Locks /\ \A v : Value(v)' = Value(v)
  BY DEF Nodes, Locks, Value
<1> QED BY <1>1 DEF HeldInv

\* What a thread goes on to at a value that is no lock.
LEMMA PartsFromHead ==
  ASSUME WellOwned(heap), NEW w \in Nodes, w \notin Locks, NEW new,
         new = << >> \/ (new = Visits(w) /\ Value(w).kind # "ref")
  PROVE  FromHead(heap, w, new)
<1>1. CASE new = << >>
  BY <1>1, NoItems DEF FromHead
<1>2. CASE new = Visits(w) /\ Value(w).kind # "ref"
  <2>1. \A i \in DOMAIN Visits(w) : \E v \in Inside(heap, w) : Visits(w)[i] = Visit(v)
    BY VisitsOfParts
  <2>2. \A v : Visit(v).value = v
    BY DEF Visit
  <2>3. Value(w) = heap.value[w] /\ heap.value[w].kind \notin {"mutex", "rwlock"}
    BY DEF Value, Locks
  <2>4. ASSUME NEW i \in DOMAIN new PROVE new[i].value \in Inside(heap, w)
    BY <1>2, <2>1, <2>2
  <2> QED BY <1>2, <2>3, <2>4 DEF FromHead
<1> QED BY <1>1, <1>2

\* A value that sums its parts, or a handle.
LEMMA SumHeld ==
  ASSUME OwnInv, HeldInv, NEW t \in Threads, Sum(t) \/ Box(t) \/ Shared(t)
  PROVE  HeldInv'
<1>1. PICK w : w = Head(agenda[t]).value
  OBVIOUS
<1>2. PICK kinds : kinds \subseteq SumKinds \cup {"box", "arc", "rc"} /\ AtVisit(t, kinds)
  BY DEF Sum, Box, Shared
<1>3. SizeTypes /\ WellOwned(heap)
  BY DEF OwnInv, SizeTypes
<1>4. w \in Nodes /\ Value(w).kind \in kinds
  BY <1>1, <1>2, <1>3, HeadVisit
<1>5. w \notin Locks
  BY <1>2, <1>4 DEF Locks, SumKinds
<1>6. PICK new, bytes : /\ Replace(t, new, bytes) /\ UNCHANGED held
                        /\ new = << >> \/ (new = Visits(w) /\ Value(w).kind # "ref")
  <2>1. CASE Sum(t)
    BY <1>1, <2>1 DEF Sum
  <2>2. CASE Box(t)
    <3>1. Value(w).kind # "ref"
      BY <1>1, <2>2 DEF Box, AtVisit
    <3> QED BY <1>1, <2>2, <3>1 DEF Box
  <2>3. CASE Shared(t)
    <3>1. Value(w).kind # "ref"
      BY <1>1, <2>3 DEF Shared, AtVisit
    <3> QED BY <1>1, <2>3, <3>1 DEF Shared
  <2> QED BY <2>1, <2>2, <2>3
<1>7. FromHead(heap, w, new) /\ new \in Seq(Items)
  BY <1>3, <1>4, <1>5, <1>6, PartsFromHead, VisitsOfParts, NoItems
<1>8. agenda[t] # << >> /\ \A m : Head(agenda[t]) # Unlock(m)
  BY <1>2 DEF AtVisit, Unlock
<1>9. \A u \in Threads : GuardsOwed(u)' /\ Anchored(u)'
  BY <1>1, <1>6, <1>7, <1>8, HeldStep
<1> QED BY <1>6, <1>9, HeldSame DEF Replace

\* A lock that the thread is given.
LEMMA LockHeld ==
  ASSUME OwnInv, HeldInv, NEW t \in Threads, Lock(t)
  PROVE  HeldInv'
<1>1. PICK w : w = Head(agenda[t]).value
  OBVIOUS
<1>2. PICK new : new = IF w \in poisoned THEN <<Unlock(w)>> ELSE Append(Visits(w), Unlock(w))
  OBVIOUS
<1>3. /\ AtVisit(t, {"mutex", "rwlock"}) /\ Lockable(w)
      /\ Replace(t, new, 0) /\ held' = [held EXCEPT ![w] = @ \cup {t}]
  BY <1>1, <1>2 DEF Lock
<1>4. /\ SizeTypes /\ WellOwned(heap)
      /\ held \in [Nodes -> SUBSET (Threads \cup {Client})]
  BY DEF OwnInv, SizeTypes
<1>5. w \in Nodes /\ Value(w).kind \in {"mutex", "rwlock"} /\ w \in Locks
  <2>1. w \in Nodes /\ Value(w).kind \in {"mutex", "rwlock"}
    BY <1>1, <1>3, <1>4, HeadVisit
  <2> QED BY <2>1 DEF Locks
<1>6. /\ Visits(w) \in Seq(Items) 
      /\ \A i \in DOMAIN Visits(w) : \E v \in Inside(heap, w) : Visits(w)[i] = Visit(v)
  BY <1>4, <1>5, VisitsOfParts
<1>7. PICK before \in Seq(Items) :
        /\ new = Append(before, Unlock(w))
        /\ \A i \in DOMAIN before : \E v \in Inside(heap, w) : before[i] = Visit(v)
  <2>1. CASE w \in poisoned
    <3>1. new = Append(<< >>, Unlock(w))
      BY <1>2, <2>1
    <3> QED BY <3>1, NoItems
  <2>2. CASE w \notin poisoned
    BY <1>2, <1>6, <2>2
  <2> QED BY <2>1, <2>2
<1>8. Unlock(w) \in Items
  BY <1>5 DEF Items, Unlock
<1>9. /\ new \in Seq(Items) /\ Len(before) \in Nat
      /\ DOMAIN before = 1 .. Len(before) /\ DOMAIN new = 1 .. Len(before) + 1
      /\ \A i \in 1 .. Len(before) : new[i] = before[i]
      /\ new[Len(before) + 1] = Unlock(w)
  BY <1>7, <1>8, AppendProperties, LenProperties
<1>10. Value(w) = heap.value[w]
  BY DEF Value
<1>11. FromHead(heap, w, new)
  <2>1. ASSUME NEW i \in DOMAIN new, new[i].value # w
        PROVE  /\ new[i].value \in Inside(heap, w)
               /\ \E j \in DOMAIN new : i < j /\ new[j] = Unlock(w)
    <3>1. i # Len(before) + 1
      BY <1>9, <2>1 DEF Unlock
    <3>2. i \in 1 .. Len(before)
      BY <1>9, <3>1
    <3>3. PICK v \in Inside(heap, w) : new[i] = Visit(v)
      BY <1>7, <1>9, <3>2
    <3>4. i < Len(before) + 1 /\ Len(before) + 1 \in DOMAIN new
      BY <1>9, <3>2
    <3> QED BY <1>9, <3>3, <3>4 DEF Visit
  <2>2. heap.value[w].kind # "ref"
    BY <1>5, <1>10
  <2> QED BY <2>1, <2>2 DEF FromHead
<1>12. \A m \in Nodes : held'[m] = IF m = w THEN held[m] \cup {t} ELSE held[m]
  BY <1>3, <1>4
<1>13. \A u \in Threads : GuardsOwed(u)' /\ Anchored(u)'
  <2>1. agenda[t] # << >> /\ \A m : Head(agenda[t]) # Unlock(m)
    BY <1>3 DEF AtVisit, Unlock
  <2>2. \E i \in DOMAIN new : new[i] = Unlock(w)
    BY <1>9
  <2>3. \A m \in Nodes : t \in held'[m] =>
           \/ \E i \in DOMAIN new : new[i] = Unlock(m)
           \/ t \in held[m] /\ Head(agenda[t]) # Unlock(m)
    BY <1>12, <2>1, <2>2
  <2>4. \A u \in Threads \ {t} : \A m \in Nodes : u \in held'[m] => u \in held[m]
    BY <1>12
  <2> QED BY <1>1, <1>3, <1>9, <1>11, <2>1, <2>3, <2>4, HeldStep
<1>14. heap' = heap /\ client' = client
  BY <1>3 DEF Replace
<1>15. Nodes' = Nodes /\ Locks' = Locks /\ \A v : Value(v)' = Value(v)
  BY <1>14 DEF Nodes, Locks, Value
<1>16. t # Client /\ (Client \in held[w] => FALSE)
  <2>1. ASSUME Client \in held[w] PROVE FALSE
    BY <1>3, <1>5, <2>1 DEF HeldInv, Lockable
  <2> QED BY <2>1
<1>17. Value(w).kind = "mutex" => held[w] = {}
  BY <1>3 DEF Lockable
<1>18. ASSUME NEW m \in Nodes, Client \in held'[m]
       PROVE  held'[m] = {Client} /\ client.pc = "holding" /\ client.lock = m
  <2>1. m # w /\ held'[m] = held[m]
    BY <1>12, <1>16, <1>18
  <2> QED BY <1>18, <2>1 DEF HeldInv
<1>19. ASSUME NEW l \in Locks, Value(l).kind = "mutex", NEW a \in held'[l], NEW b \in held'[l]
       PROVE  a = b
  <2>1. l \in Nodes
    BY DEF Locks
  <2>2. CASE l = w
    <3>1. held'[l] = {t}
      BY <1>12, <1>17, <1>19, <2>1, <2>2
    <3> QED BY <1>19, <3>1
  <2>3. CASE l # w
    BY <1>12, <1>19, <2>1, <2>3 DEF HeldInv
  <2> QED BY <2>2, <2>3
<1>20. ASSUME NEW m \in Nodes \ Locks PROVE held'[m] = {}
  BY <1>5, <1>12 DEF HeldInv
<1> QED BY <1>13, <1>14, <1>15, <1>18, <1>19, <1>20 DEF HeldInv

\* A guard that is dropped.
LEMMA DropGuardHeld ==
  ASSUME OwnInv, HeldInv, NEW t \in Threads, DropGuard(t)
  PROVE  HeldInv'
<1>1. PICK w : w = Head(agenda[t]).value
  OBVIOUS
<1>2. /\ Replace(t, << >>, 0) /\ held' = [held EXCEPT ![w] = @ \ {t}]
      /\ agenda[t] # << >>
  BY <1>1 DEF DropGuard
<1>3. held \in [Nodes -> SUBSET (Threads \cup {Client})]
  BY DEF OwnInv, SizeTypes
<1>4. \A m \in Nodes : held'[m] = IF m = w THEN held[m] \ {t} ELSE held[m]
  BY <1>2, <1>3
<1>5. \A u \in Threads : GuardsOwed(u)' /\ Anchored(u)'
  <2>1. PICK new \in Seq(Items) : new = << >>
    BY NoItems
  <2>2. FromHead(heap, w, new)
    BY <2>1 DEF FromHead
  <2>3. \A m \in Nodes : t \in held'[m] => t \in held[m] /\ Head(agenda[t]) # Unlock(m)
    <3>1. ASSUME NEW m \in Nodes, Head(agenda[t]) = Unlock(m) PROVE w = m
      BY <1>1, <3>1 DEF Unlock
    <3> QED BY <1>4, <3>1
  <2>4. \A u \in Threads \ {t} : \A m \in Nodes : u \in held'[m] => u \in held[m]
    BY <1>4
  <2> QED BY <1>1, <1>2, <2>1, <2>2, <2>3, <2>4, HeldStep
<1>6. heap' = heap /\ client' = client
  BY <1>2 DEF Replace
<1>7. Nodes' = Nodes /\ Locks' = Locks /\ \A v : Value(v)' = Value(v)
  BY <1>6 DEF Nodes, Locks, Value
<1>8. \A m \in Nodes : held'[m] \subseteq held[m]
  BY <1>4
<1>9. ASSUME NEW m \in Nodes, Client \in held'[m]
      PROVE  held'[m] = {Client} /\ client.pc = "holding" /\ client.lock = m
  BY <1>8, <1>9 DEF HeldInv
<1>10. ASSUME NEW l \in Locks, Value(l).kind = "mutex", NEW a \in held'[l], NEW b \in held'[l]
       PROVE  a = b
  BY <1>8, <1>10 DEF HeldInv, Locks
<1>11. ASSUME NEW m \in Nodes \ Locks PROVE held'[m] = {}
  BY <1>8 DEF HeldInv
<1> QED BY <1>5, <1>6, <1>7, <1>9, <1>10, <1>11 DEF HeldInv

\* A measure that begins, at a value of its own.
LEMMA StartHeld ==
  ASSUME OwnInv, HeldInv, NEW t \in Threads, Start(t)
  PROVE  HeldInv'
<1>1. PICK r : r = Root[t]
  OBVIOUS
<1>2. /\ pc[t] = "ready" /\ agenda' = [agenda EXCEPT ![t] = <<Visit(r)>>]
      /\ UNCHANGED <<heap, held, client>> /\ t \in DOMAIN Root
  BY <1>1 DEF Start
<1>3. agenda \in [Threads -> Seq(Items)]
  BY DEF OwnInv, SizeTypes
<1>4. \A m \in Nodes : t \notin held[m]
  <2>1. PICK D \in SUBSET Nodes : Entered(t, D)
    BY DEF OwnInv
  <2> QED BY <1>2, <2>1 DEF Entered
<1>5. Nodes' = Nodes /\ Root' = Root
  BY <1>2 DEF Nodes, Root
<1>6. ASSUME NEW u \in Threads PROVE GuardsOwed(u)' /\ Anchored(u)'
  <2>1. Anchored(u)' <=> (agenda'[u] # << >> =>
                            u \in DOMAIN Root' /\ Grounded(heap', Root'[u], agenda'[u]))
    BY DEF Anchored, Grounded, Spans, Opens, Inside
  <2>2. CASE u = t
    <3>1. PICK e : e = <<Visit(r)>>
      OBVIOUS
    <3>2. agenda'[u] = e /\ \A i \in DOMAIN e : e[i].value = r
      BY <1>2, <1>3, <2>2, <3>1 DEF Visit
    <3>3. Grounded(heap, r, e)
      BY <3>2 DEF Grounded, Spans
    <3>4. GuardsOwed(u)'
      BY <1>2, <1>4, <1>5, <2>2 DEF GuardsOwed
    <3> QED BY <1>1, <1>2, <1>5, <2>1, <2>2, <3>2, <3>3, <3>4
  <2>3. CASE u # t
    <3>1. agenda'[u] = agenda[u]
      BY <1>2, <1>3, <2>3
    <3>2. GuardsOwed(u) /\ Anchored(u)
      BY DEF HeldInv
    <3>3. GuardsOwed(u)'
      BY <1>2, <1>5, <3>1, <3>2 DEF GuardsOwed
    <3> QED BY <1>2, <1>5, <2>1, <3>1, <3>2, <3>3 DEF Anchored
  <2> QED BY <2>2, <2>3
<1> QED BY <1>2, <1>6, HeldSame

\* Steps that change no agenda and no heap, and give no thread a guard.
LEMMA AgendasHeld ==
  ASSUME HeldInv, UNCHANGED <<heap, agenda>>, NEW u \in Threads,
         \A m \in Nodes : u \in held'[m] => u \in held[m]
  PROVE  GuardsOwed(u)' /\ Anchored(u)'
<1>1. Nodes' = Nodes /\ Root' = Root
  BY DEF Nodes, Root
<1>2. GuardsOwed(u) /\ Anchored(u)
  BY DEF HeldInv
<1>3. Anchored(u)' <=> (agenda'[u] # << >> =>
                          u \in DOMAIN Root' /\ Grounded(heap', Root'[u], agenda'[u]))
  BY DEF Anchored, Grounded, Spans, Opens, Inside
<1> QED BY <1>1, <1>2, <1>3 DEF GuardsOwed, Anchored

\* The client asks for a lock, or is given it.
LEMMA ClientAskHeld ==
  ASSUME OwnInv, HeldInv, (\E l \in Locks : ClientWait(l)) \/ ClientLock
  PROVE  HeldInv'
<1>1. UNCHANGED <<heap, agenda>>
  BY DEF ClientWait, ClientLock, threadVars
<1>2. Nodes' = Nodes /\ Locks' = Locks /\ \A v : Value(v)' = Value(v)
  BY <1>1 DEF Nodes, Locks, Value
<1>3. /\ client \in [pc : {"idle"}, uses : Nat]
                      \cup [pc : {"waiting", "holding"}, uses : Nat, lock : Locks]
      /\ held \in [Nodes -> SUBSET (Threads \cup {Client})]
      /\ Locks \subseteq Nodes
  BY DEF OwnInv, SizeTypes, Locks
<1>4. CASE \E l \in Locks : ClientWait(l)
  <2>1. held' = held /\ client.pc = "idle"
    BY <1>4 DEF ClientWait
  <2>2. \A m \in Nodes : Client \notin held[m]
    BY <2>1 DEF HeldInv
  <2>3. \A u \in Threads : GuardsOwed(u)' /\ Anchored(u)'
    BY <1>1, <2>1, AgendasHeld
  <2> QED BY <1>2, <2>1, <2>2, <2>3 DEF HeldInv
<1>5. CASE ClientLock
  <2>1. PICK l : l = client.lock
    OBVIOUS
  <2>2. /\ client \in [pc : {"waiting", "holding"}, uses : Nat, lock : Locks]
        /\ held[l] = {} /\ held' = [held EXCEPT ![l] = {Client}]
        /\ client' = [client EXCEPT !.pc = "holding"] /\ client.pc = "waiting"
    BY <1>3, <1>5, <2>1 DEF ClientLock
  <2>3. client'.lock = l /\ client'.pc = "holding" /\ l \in Locks
    BY <2>1, <2>2
  <2>4. \A m \in Nodes : held'[m] = IF m = l THEN {Client} ELSE held[m]
    BY <1>3, <2>2, <2>3
  <2>5. \A m \in Nodes : Client \notin held[m]
    BY <2>2 DEF HeldInv
  <2>6. \A u \in Threads : GuardsOwed(u)' /\ Anchored(u)'
    <3>1. ASSUME NEW u \in Threads, NEW m \in Nodes, u \in held'[m] PROVE u \in held[m]
      BY <2>4, <3>1
    <3> QED BY <1>1, <3>1, AgendasHeld
  <2>7. \A m \in Nodes : Client \in held'[m] =>
          held'[m] = {Client} /\ client'.pc = "holding" /\ client'.lock = m
    BY <2>3, <2>4, <2>5
  <2>8. \A m \in Locks : Value(m).kind = "mutex" => \A a, b \in held'[m] : a = b
    BY <1>3, <2>4 DEF HeldInv
  <2>9. \A m \in Nodes \ Locks : held'[m] = {}
    BY <2>3, <2>4 DEF HeldInv
  <2> QED BY <1>2, <2>6, <2>7, <2>8, <2>9 DEF HeldInv
<1> QED BY <1>4, <1>5
-----------------------------------------------------------------------------
(* Nothing that a thread goes through is changed by the client.            *)

\* Nothing in A but l is other in k than in h, or leads out of A.
Untouched(h, k, l, A) ==
  \A u \in A \ {l} :
    /\ k.value[u].kind = h.value[u].kind /\ Inside(k, u) = Inside(h, u)
    /\ h.value[u].kind # "ref" => Inside(h, u) \subseteq A

\* A thread that does not hold lock l stays where it was if nothing else in A is
\* changed, and no value of A but l, and no reference, leads out of A.
LEMMA GroundedStays ==
  ASSUME NEW h, NEW k, NEW r, NEW e, NEW l, NEW A \in SUBSET DOMAIN h.value, r \in A,
         DOMAIN k.value = DOMAIN h.value, Grounded(h, r, e),
         \A i \in DOMAIN e : e[i] # Unlock(l), h.value[l].kind \in {"mutex", "rwlock"},
         Untouched(h, k, l, A)
  PROVE  Grounded(k, r, e) /\ \A i \in DOMAIN e : e[i].value \in A
<1>1. ASSUME NEW i \in DOMAIN e PROVE ~ Opens(h, e, i, l)
  BY DEF Opens
<1>2. ASSUME NEW i \in DOMAIN e, NEW S \in SUBSET DOMAIN k.value, Spans(k, r, e, i, S)
      PROVE  e[i].value \in S
  <2>1. PICK T \in SUBSET DOMAIN h.value : T = S \cap A
    OBVIOUS
  <2>2. ASSUME NEW u \in T, Opens(h, e, i, u) PROVE Inside(h, u) \subseteq T
    <3>1. u \in A \ {l} /\ u \in S
      BY <1>1, <2>1, <2>2
    <3>2. Opens(k, e, i, u) /\ Inside(k, u) = Inside(h, u)
      BY <2>2, <3>1 DEF Opens, Untouched
    <3>3. Inside(k, u) \subseteq S
      BY <1>2, <3>1, <3>2 DEF Spans
    <3>4. Inside(h, u) \subseteq A
      BY <2>2, <3>1 DEF Opens, Untouched
    <3> QED BY <2>1, <3>2, <3>3, <3>4
  <2>3. Spans(h, r, e, i, T)
    BY <1>2, <2>1, <2>2 DEF Spans
  <2> QED BY <2>1, <2>3 DEF Grounded
<1>3. ASSUME NEW i \in DOMAIN e PROVE e[i].value \in A
  <2>1. ASSUME NEW u \in A, Opens(h, e, i, u) PROVE Inside(h, u) \subseteq A
    <3>1. u # l
      BY <1>1, <2>1
    <3> QED BY <2>1, <3>1 DEF Opens, Untouched
  <2>2. Spans(h, r, e, i, A)
    BY <2>1 DEF Spans
  <2> QED BY <2>2 DEF Grounded
<1> QED BY <1>2, <1>3 DEF Grounded

\* A heap that differs in one value.
Edit(h, u, y) == [h EXCEPT !.value[u] = y]

\* What such a heap is.
LEMMA Edited ==
  ASSUME NEW h, WellOwned(h), NEW u \in DOMAIN h.value, NEW y,
         NEW k, k = Edit(h, u, y)
  PROVE  /\ k.root = h.root /\ k.uses = h.uses /\ DOMAIN k.value = DOMAIN h.value
         /\ k.value[u] = y
         /\ \A x \in DOMAIN h.value \ {u} :
              k.value[x] = h.value[x] /\ Inside(k, x) = Inside(h, x)
<1>1. DOMAIN h = {"value", "root", "uses"}
  BY DEF WellOwned
<1>2. k.root = h.root /\ k.uses = h.uses /\ k.value = [h.value EXCEPT ![u] = y]
  BY <1>1 DEF Edit
<1> QED BY <1>2 DEF Inside

\* The values of A are not freed and, but for what l leads to, not changed.
Spared(l, A, k) ==
  /\ l \in A /\ \A t \in DOMAIN Root : Root[t] \in A
  /\ \A u \in A :
       /\ k.value[u].kind = Value(u).kind /\ k.value[u].size = Value(u).size
       /\ u # l => /\ k.value[u] = Value(u) /\ Inside(k, u) = Inside(heap, u)
                   /\ Value(u).kind # "ref" => Inside(heap, u) \subseteq A

\* A lock that loses a handle stays a lock, and nothing else changes.
LEMMA WithoutSpares ==
  ASSUME WellOwned(heap), NEW l \in Locks, NEW w \in Inside(heap, l),
         NEW k, k = WithoutHandle(heap, l, w)
  PROVE  /\ k.root = heap.root /\ k.uses = heap.uses /\ DOMAIN k.value = Nodes
         /\ k.value[l].kind = Value(l).kind /\ k.value[l].size = Value(l).size
         /\ \A x \in Nodes \ {l} : k.value[x] = Value(x) /\ Inside(k, x) = Inside(heap, x)
<1> DEFINE p == RemoveAt(heap.value[l].parts,
                         CHOOSE i \in DOMAIN heap.value[l].parts : heap.value[l].parts[i] = w)
           y == [heap.value[l] EXCEPT !.parts = p]
<1>1. k = Edit(heap, l, y)
  BY DEF WithoutHandle, Edit
<1>2. l \in DOMAIN heap.value /\ heap.value[l] \in Values
  BY ValueTypes DEF Locks, Nodes, Value
<1> HIDE DEF p
<1>3. y.kind = heap.value[l].kind /\ y.size = heap.value[l].size
  BY <1>2 DEF Values
<1> HIDE DEF y
<1> QED BY <1>1, <1>2, <1>3, Edited DEF Nodes, Value

\* The owner of a handle is a lock, so nothing else but references leads to it.
LEMMA HandleOwner ==
  ASSUME WellOwned(heap), NEW l \in Locks, NEW w \in Inside(heap, l)
  PROVE  /\ \A u \in Nodes \ {l} : Value(u).kind # "ref" => w \notin Inside(heap, u)
         /\ \A t \in DOMAIN Root : Root[t] \in Nodes \ {w}
         /\ \A u \in Nodes : Inside(heap, u) \subseteq Nodes
<1>1. l \in Nodes /\ Value(l).kind \in {"mutex", "rwlock"}
  BY DEF Locks
<1>2. ASSUME NEW u \in Nodes \ {l}, Value(u).kind # "ref", w \in Inside(heap, u)
      PROVE  FALSE
  BY <1>1, <1>2, OneOwner DEF Nodes, Value
<1>3. \A t \in DOMAIN Root : Root[t] \in Nodes \ {w}
  BY <1>1 DEF WellOwned, Root, Nodes
<1>4. \A u \in Nodes : Inside(heap, u) \subseteq Nodes
  BY DEF WellOwned, Nodes
<1> QED BY <1>2, <1>3, <1>4

\* A value keeps its kind, unless its memory is used for a new one, which has no parts.
KeepsKinds(k) ==
  \A u \in Nodes : \/ k.value[u].kind = Value(u).kind
                   \/ k.value[u].kind = "leaf" /\ Inside(k, u) = {}

\* Whatever the client changes, what a thread goes through is spared.
LEMMA ChangesSpare ==
  ASSUME SizeTypes, NEW l, l = client.lock, client.pc = "holding",
         NEW k \in {heap} \cup Changes(l)
  PROVE  /\ k.root = heap.root /\ k.uses = heap.uses /\ KeepsKinds(k)
         /\ \E A \in SUBSET Nodes : Spared(l, A, k)
<1>1. /\ WellOwned(heap) /\ l \in Locks /\ l \in Nodes
      /\ Value(l).kind \in {"mutex", "rwlock"}
  BY DEF SizeTypes, Locks
<1>2. CASE k = heap
  <2>1. Spared(l, Nodes, k)
    BY <1>1, <1>2 DEF Spared, WellOwned, Nodes, Root, Value
  <2> QED BY <1>2, <2>1 DEF Value, KeepsKinds
<1>3. CASE k \in {WithoutHandle(heap, l, w) : w \in Arcs(Inside(heap, l))}
  <2>1. PICK w \in Inside(heap, l) : k = WithoutHandle(heap, l, w)
    BY <1>3 DEF Arcs
  <2>2. /\ k.root = heap.root /\ k.uses = heap.uses
        /\ k.value[l].kind = Value(l).kind /\ k.value[l].size = Value(l).size
        /\ \A x \in Nodes \ {l} : k.value[x] = Value(x) /\ Inside(k, x) = Inside(heap, x)
    BY <1>1, <2>1, WithoutSpares
  <2>3. Spared(l, Nodes, k)
    BY <1>1, <2>1, <2>2, HandleOwner DEF Spared
  <2> QED BY <2>2, <2>3 DEF KeepsKinds
<1>4. CASE \E w \in Arcs(Inside(heap, l)) : \E v : k = Pointed(heap, w, v)
  <2>1. PICK w, v : /\ w \in Inside(heap, l) /\ w \in Nodes /\ Value(w).kind = "arc"
                    /\ k = Pointed(heap, w, v)
    BY <1>4 DEF Arcs
  <2>2. /\ k.root = heap.root /\ k.uses = heap.uses /\ k.value[w].kind = Value(w).kind
        /\ \A x \in Nodes \ {w} : k.value[x] = Value(x) /\ Inside(k, x) = Inside(heap, x)
    <3>1. PICK y : y = [heap.value[w] EXCEPT !.parts = <<v>>]
      OBVIOUS
    <3>2. k = Edit(heap, w, y)
      BY <2>1, <3>1 DEF Pointed, Edit
    <3>3. y.kind = heap.value[w].kind
      BY <1>1, <2>1, <3>1, ValueTypes DEF Values, Value
    <3> QED BY <1>1, <2>1, <3>2, <3>3, Edited DEF Nodes, Value
  <2>3. l # w
    BY <1>1, <2>1
  <2>4. Spared(l, Nodes \ {w}, k)
    BY <1>1, <2>1, <2>2, <2>3, HandleOwner DEF Spared
  <2> QED BY <2>2, <2>4 DEF KeepsKinds
<1>5. CASE \E w \in Arcs(Inside(heap, l)) :
             \E v \in SharedBy(Arcs(Nodes)) \ Alive(WithoutHandle(heap, l, w)) :
               k = Allocated(Pointed(heap, w, v), v)
  <2>1. PICK w, v :
          /\ w \in Inside(heap, l) /\ w \in Nodes /\ Value(w).kind = "arc"
          /\ v \in SharedBy(Arcs(Nodes)) /\ v \notin Alive(WithoutHandle(heap, l, w))
          /\ k = Allocated(Pointed(heap, w, v), v)
    BY <1>5 DEF Arcs
  <2>2. PICK g : g = WithoutHandle(heap, l, w)
    OBVIOUS
  <2>3. PICK j : j = Pointed(heap, w, v)
    OBVIOUS
  <2>4. PICK x \in Nodes : v \in Nodes /\ Value(x).kind = "arc" /\ v \in Inside(heap, x)
    BY <1>1, <2>1, SharedPart
  <2>5. WellOwned(j) /\ DOMAIN j.value = Nodes
    BY <1>1, <2>1, <2>3, <2>4, PointedHeap
  <2>6. /\ j.root = heap.root /\ j.uses = heap.uses /\ j.value[w].kind = Value(w).kind
        /\ \A z \in Nodes \ {w} : j.value[z] = Value(z) /\ Inside(j, z) = Inside(heap, z)
    <3>1. PICK y : y = [heap.value[w] EXCEPT !.parts = <<v>>]
      OBVIOUS
    <3>2. j = Edit(heap, w, y)
      BY <2>3, <3>1 DEF Pointed, Edit
    <3>3. y.kind = heap.value[w].kind
      BY <1>1, <2>1, <3>1, ValueTypes DEF Values, Value
    <3> QED BY <1>1, <2>1, <3>2, <3>3, Edited DEF Nodes, Value
  <2>7. /\ k.root = heap.root /\ k.uses = heap.uses /\ k.value[v] = Fresh
        /\ \A z \in Nodes \ {v} : k.value[z] = j.value[z] /\ Inside(k, z) = Inside(j, z)
    <3>1. k = Edit(j, v, Fresh)
      BY <2>1, <2>3 DEF Allocated, Edit
    <3> QED BY <2>4, <2>5, <2>6, <3>1, Edited
  <2>8. /\ g.root = heap.root /\ DOMAIN g.value = Nodes
        /\ \A z \in Nodes \ {l} : Inside(g, z) = Inside(heap, z)
    BY <1>1, <2>1, <2>2, WithoutSpares
  <2>9. WellOwned(g)
    BY <1>1, <2>1, <2>2, DroppedKeeps DEF Keeps
  <2>10. l \in Kept(g) /\ (\A t \in DOMAIN Root : Root[t] \in Kept(g)) /\ Kept(g) \subseteq Nodes
    BY <1>1, <2>8 DEF Kept, WellOwned, Root, Nodes
  <2>11. PICK B : B = Alive(g)
    OBVIOUS
  <2>12. /\ B \subseteq Nodes /\ l \in B /\ (\A t \in DOMAIN Root : Root[t] \in B)
         /\ \A z \in B : Inside(g, z) \subseteq B
    BY <2>8, <2>9, <2>10, <2>11, AliveClosed
  <2>13. v \notin B /\ l # w
    BY <1>1, <2>1, <2>2, <2>11
  <2>14. Spared(l, B \ {w}, k)
    <3>1. l \in B \ {w} /\ \A t \in DOMAIN Root : Root[t] \in B \ {w}
      BY <1>1, <2>1, <2>12, <2>13, HandleOwner
    <3>2. ASSUME NEW u \in B \ {w}
          PROVE  k.value[u] = Value(u) /\ Inside(k, u) = Inside(heap, u)
      <4>1. u \in Nodes \ {v} /\ u \in Nodes \ {w}
        BY <2>12, <2>13
      <4> QED BY <2>6, <2>7, <4>1
    <3>3. ASSUME NEW u \in B \ {w}, u # l, Value(u).kind # "ref"
          PROVE  Inside(heap, u) \subseteq B \ {w}
      <4>1. u \in Nodes \ {l}
        BY <2>12, <3>3
      <4>2. w \notin Inside(heap, u) /\ Inside(heap, u) \subseteq B
        BY <1>1, <2>1, <2>8, <2>12, <3>3, <4>1, HandleOwner
      <4> QED BY <4>2
    <3> QED BY <3>1, <3>2, <3>3 DEF Spared
  <2>15. KeepsKinds(k)
    <3>1. k.value[v].kind = "leaf" /\ Inside(k, v) = {}
      BY <2>7 DEF Inside
    <3> QED BY <2>6, <2>7, <3>1 DEF KeepsKinds
  <2> QED BY <2>7, <2>12, <2>14, <2>15
<1> QED BY <1>2, <1>3, <1>4, <1>5 DEF Changes

\* What a thread is about to do is about values that are spared.
LEMMA AgendaSpared ==
  ASSUME OwnInv, HeldInv, NEW l \in Locks, held[l] = {Client}, NEW k, DOMAIN k.value = Nodes,
         NEW A \in SUBSET Nodes, Spared(l, A, k), NEW u \in Threads
  PROVE  /\ \A i \in DOMAIN agenda[u] : agenda[u][i].value \in A
         /\ agenda[u] # << >> => u \in DOMAIN Root /\ Grounded(k, Root[u], agenda[u])
<1>1. PICK e : e = agenda[u]
  OBVIOUS
<1>2. \A i \in DOMAIN e : e[i] # Unlock(l)
  <2>1. u \notin held[l] /\ l \in Nodes
    BY DEF Locks
  <2> QED BY <1>1, <2>1 DEF OwnInv, InTurn, UnlocksHeld
<1>3. CASE e = << >>
  BY <1>1, <1>3
<1>4. CASE e # << >>
  <2>1. u \in DOMAIN Root /\ Grounded(heap, Root[u], e)
    BY <1>1, <1>4 DEF HeldInv, Anchored
  <2>2. Root[u] \in A /\ Untouched(heap, k, l, A)
    BY <2>1 DEF Spared, Value, Untouched
  <2>3. /\ A \in SUBSET DOMAIN heap.value /\ DOMAIN k.value = DOMAIN heap.value
        /\ heap.value[l].kind \in {"mutex", "rwlock"}
    BY DEF Nodes, Locks, Value
  <2>4. PICK r : r = Root[u]
    OBVIOUS
  <2>5. Grounded(k, r, e) /\ \A i \in DOMAIN e : e[i].value \in A
    <3>1. r \in A /\ Grounded(heap, r, e)
      BY <2>1, <2>2, <2>4
    <3> QED BY <1>2, <2>2, <2>3, <3>1, GroundedStays
  <2> QED BY <1>1, <2>1, <2>4, <2>5
<1> QED BY <1>3, <1>4

\* The client releases its lock, with something changed behind it or not.
LEMMA ClientUnlockHeld ==
  ASSUME OwnInv, HeldInv, ClientUnlock
  PROVE  HeldInv'
<1>1. PICK l : l = client.lock
  OBVIOUS
<1>2. SizeTypes
  BY DEF OwnInv
<1>3. /\ client.pc = "holding" /\ held' = [held EXCEPT ![l] = {}]
      /\ heap' \in {heap} \cup Changes(l) /\ UNCHANGED threadVars
  BY <1>1 DEF ClientUnlock
<1>4. /\ l \in Locks /\ l \in Nodes /\ held[l] = {Client} /\ WellOwned(heap)
      /\ Value(l).kind \in {"mutex", "rwlock"} /\ Locks \subseteq Nodes
      /\ held \in [Nodes -> SUBSET (Threads \cup {Client})]
  BY <1>1, <1>2, <1>3 DEF SizeTypes, Locks
<1>5. PICK k : k = heap'
  OBVIOUS
<1>6. /\ k.root = heap.root
      /\ \A u \in Nodes : k.value[u].kind \in {"mutex", "rwlock"} =>
                            k.value[u].kind = Value(u).kind
      /\ \E A \in SUBSET Nodes : Spared(l, A, k)
  <2>1. /\ k.root = heap.root /\ KeepsKinds(k) /\ \E A \in SUBSET Nodes : Spared(l, A, k)
    BY <1>1, <1>2, <1>3, <1>5, ChangesSpare
  <2> QED BY <2>1 DEF KeepsKinds
<1>7. PICK A \in SUBSET Nodes : Spared(l, A, k)
  BY <1>6
<1>8. DOMAIN k.value = Nodes
  BY <1>3, <1>4, <1>5, ChangesKeep DEF Keeps, Nodes
<1>9. Nodes' = Nodes /\ Root' = Root
  BY <1>5, <1>6, <1>8 DEF Nodes, Root
<1>10. \A m \in Nodes : held'[m] = IF m = l THEN {} ELSE held[m]
  BY <1>3, <1>4
<1>11. ASSUME NEW u \in Threads
       PROVE  /\ GuardsOwed(u)' /\ Anchored(u)'
              /\ \A i \in DOMAIN agenda[u] : agenda[u][i].value \in A
  <2>1. GuardsOwed(u) /\ Anchored(u) /\ agenda' = agenda
    BY <1>3 DEF HeldInv, threadVars
  <2>2. /\ \A i \in DOMAIN agenda[u] : agenda[u][i].value \in A
        /\ agenda[u] # << >> => u \in DOMAIN Root /\ Grounded(k, Root[u], agenda[u])
    BY <1>4, <1>7, <1>8, AgendaSpared
  <2>3. Anchored(u)' <=> (agenda'[u] # << >> =>
                            u \in DOMAIN Root' /\ Grounded(heap', Root'[u], agenda'[u]))
    BY DEF Anchored, Grounded, Spans, Opens, Inside
  <2>4. Anchored(u)'
    BY <1>5, <1>9, <2>1, <2>2, <2>3
  <2>5. GuardsOwed(u)'
    BY <1>9, <1>10, <2>1 DEF GuardsOwed
  <2> QED BY <2>2, <2>4, <2>5
<1>12. ASSUME NEW m \in Nodes, held[m] # {} PROVE m \in A
  <2>1. CASE m = l
    BY <1>7, <2>1 DEF Spared
  <2>2. CASE m # l
    <3>1. Client \notin held[m]
      BY <1>1, <2>2 DEF HeldInv
    <3>2. PICK u \in Threads : u \in held[m]
      BY <1>4, <1>12, <3>1
    <3>3. PICK i \in DOMAIN agenda[u] : agenda[u][i] = Unlock(m)
      BY <3>2 DEF HeldInv, GuardsOwed
    <3> QED BY <1>11, <3>3 DEF Unlock
  <2> QED BY <2>1, <2>2
<1>13. Locks' = {m \in Nodes : k.value[m].kind \in {"mutex", "rwlock"}}
  BY <1>5, <1>9 DEF Locks, Value
<1>14. ASSUME NEW m \in Nodes PROVE Client \notin held'[m]
  BY <1>1, <1>10 DEF HeldInv
<1>15. ASSUME NEW m \in Locks', k.value[m].kind = "mutex", NEW a \in held'[m], NEW b \in held'[m]
       PROVE  a = b
  <2>1. m \in Nodes /\ m \in Locks /\ Value(m).kind = "mutex"
    BY <1>6, <1>13, <1>15 DEF Locks
  <2>2. held'[m] \subseteq held[m]
    BY <1>10, <2>1
  <2> QED BY <1>15, <2>1, <2>2 DEF HeldInv
<1>16. ASSUME NEW m \in Nodes, m \notin Locks' PROVE held'[m] = {}
  <2>1. CASE held[m] = {}
    BY <1>10, <2>1
  <2>2. CASE held[m] # {}
    <3>1. m \in Locks
      BY <2>2 DEF HeldInv
    <3>2. k.value[m].kind = Value(m).kind
      BY <1>7, <1>12, <2>2 DEF Spared
    <3> QED BY <1>13, <1>16, <3>1, <3>2 DEF Locks
  <2> QED BY <2>1, <2>2
<1>17. \A m : Value(m)' = k.value[m]
  BY <1>5 DEF Value
<1> QED BY <1>9, <1>11, <1>14, <1>15, <1>16, <1>17 DEF HeldInv
-----------------------------------------------------------------------------
(* What is counted.                                                         *)

CountInv ==
  /\ total \in [Threads -> Nat] /\ poisoned \subseteq Nodes
  /\ heap.uses \in Nat /\ client.uses \in 0 .. heap.uses

\* Natural numbers are closed under what is computed.
LEMMA NatOperations ==
  ASSUME NEW a \in Nat, NEW b \in Nat
  PROVE  a + b \in Nat /\ a * b \in Nat /\ (b # 0 => a \div b \in Nat)
OBVIOUS

\* What is added for a value is a number of bytes.
LEMMA BytesNat ==
  ASSUME WellOwned(heap), NEW v \in Nodes
  PROVE  Value(v).size \in Nat /\ OwnBytes(v) \in Nat
<1>1. PICK x : x = Value(v)
  OBVIOUS
<1>2. x \in Values
  BY <1>1, ValueTypes
<1>3. PICK n : n = Len(x.parts)
  OBVIOUS
<1>4. x.size \in Nat /\ x.elem \in Nat /\ x.cap \in Nat /\ n \in Nat
  BY <1>2, <1>3, LenProperties DEF Values
<1>5. x.cap * x.elem \in Nat
  BY <1>4, NatOperations
<1>6. ListBytes(x) \in Nat
  <2>1. Usize * 2 \in Nat
    BY NatOperations
  <2>2. x.elem + Usize * 2 \in Nat
    BY <1>4, <2>1
  <2> QED BY <1>3, <1>4, <2>2, NatOperations DEF ListBytes
<1>7. NodeBytes(x.elem) \in Nat
  <2>1. PICK m : m = Usize + 2 + 2 + x.elem * BTREE_MAX + Usize * BTREE_B
    OBVIOUS
  <2>2. m \in Nat
    BY <1>4, <2>1 DEF BTREE_MAX, BTREE_B
  <2>3. m + Usize - 1 \in Nat
    BY <2>2
  <2>4. (m + Usize - 1) \div Usize \in Nat
    BY <2>3, NatOperations
  <2>5. ((m + Usize - 1) \div Usize) * Usize \in Nat
    BY <2>4, NatOperations
  <2> QED BY <2>1, <2>5 DEF NodeBytes, RoundUp
<1>8. TreeBytes(x) \in Nat
  <2>1. n * NodeBytes(x.elem) \in Nat
    BY <1>4, <1>7, NatOperations
  <2>2. n * NodeBytes(x.elem) * 2 \in Nat
    BY <2>1
  <2>3. BTREE_MAX + BTREE_MIN = 16
    BY DEF BTREE_MAX, BTREE_MIN, BTREE_B
  <2> QED BY <1>3, <2>2, <2>3, NatOperations DEF TreeBytes
<1>9. OwnBytes(v) = CASE x.kind = "string" -> x.cap
                      [] x.kind = "array" -> x.cap * x.elem
                      [] x.kind = "list" -> ListBytes(x)
                      [] x.kind = "btree" -> TreeBytes(x)
                      [] OTHER -> 0
  BY <1>1 DEF OwnBytes
<1>10. PICK a, b, c : a = x.cap * x.elem /\ b = ListBytes(x) /\ c = TreeBytes(x)
  OBVIOUS
<1>11. OwnBytes(v) = CASE x.kind = "string" -> x.cap
                       [] x.kind = "array" -> a
                       [] x.kind = "list" -> b
                       [] x.kind = "btree" -> c
                       [] OTHER -> 0
  BY <1>9, <1>10
<1>12. a \in Nat /\ b \in Nat /\ c \in Nat
  BY <1>5, <1>6, <1>8, <1>10
<1> QED BY <1>1, <1>4, <1>11, <1>12

\* The heap and the client are as they were, and bytes are added.
LEMMA ReplaceCount ==
  ASSUME CountInv, NEW t \in Threads, NEW new, NEW bytes \in Nat, Replace(t, new, bytes)
  PROVE  CountInv'
<1>1. total' \in [Threads -> Nat]
  BY DEF CountInv, Replace
<1> QED BY <1>1 DEF CountInv, Replace, Nodes

\* A step of a thread.
LEMMA StepCount ==
  ASSUME OwnInv, CountInv, NEW t \in Threads, Start(t) \/ Step(t)
  PROVE  CountInv'
<1>1. PICK w : w = Head(agenda[t]).value
  OBVIOUS
<1>2. SizeTypes /\ WellOwned(heap)
  BY DEF OwnInv, SizeTypes
<1>3. ASSUME NEW kinds, AtVisit(t, kinds) PROVE w \in Nodes /\ Value(w).kind \in kinds
  BY <1>1, <1>2, <1>3, HeadVisit
<1>4. ASSUME AtVisit(t, {"box"}) \/ AtVisit(t, {"arc", "rc"})
      PROVE  Value(Pointee(w)).size \in Nat
  <2>1. w \in Nodes /\ Value(w).kind \in {"box", "arc", "rc"}
    BY <1>3, <1>4
  <2>2. Pointee(w) \in Nodes
    BY <1>2, <2>1, VisitsOfParts
  <2> QED BY <1>2, <2>2, BytesNat
<1>5. CASE Start(t)
  <2>1. Root[t] \in Nodes
    BY <1>2, <1>5 DEF Start, WellOwned, Root, Nodes
  <2>2. Value(Root[t]).size \in Nat
    BY <1>2, <2>1, BytesNat
  <2> QED BY <1>5, <2>2 DEF Start, CountInv, Nodes
<1>6. CASE Sum(t)
  <2>1. OwnBytes(w) \in Nat
    BY <1>2, <1>3, <1>6, BytesNat DEF Sum
  <2> QED BY <1>1, <1>6, <2>1, ReplaceCount DEF Sum
<1>7. CASE Box(t)
  BY <1>1, <1>4, <1>7, ReplaceCount DEF Box
<1>8. CASE Shared(t)
  <2>1. \E new : \E bytes \in Nat : Replace(t, new, bytes)
    <3>1. Value(Pointee(w)).size \in Nat
      BY <1>4, <1>8 DEF Shared
    <3> QED BY <1>1, <1>8, <3>1 DEF Shared
  <2> QED BY <2>1, ReplaceCount
<1>9. CASE Lock(t)
  <2>1. PICK new : Replace(t, new, 0)
    BY <1>9 DEF Lock
  <2> QED BY <2>1, ReplaceCount
<1>10. CASE DropGuard(t)
  BY <1>10, ReplaceCount DEF DropGuard
<1>11. CASE Return(t)
  BY <1>11 DEF Return, CountInv, Nodes
<1> QED BY <1>5, <1>6, <1>7, <1>8, <1>9, <1>10, <1>11 DEF Step

\* A step of the client.
LEMMA ClientCount ==
  ASSUME OwnInv, CountInv, (\E l \in Locks : ClientWait(l)) \/ ClientLock \/ ClientUnlock
  PROVE  CountInv'
<1>1. /\ SizeTypes /\ WellOwned(heap)
      /\ client \in [pc : {"idle"}, uses : Nat]
                      \cup [pc : {"waiting", "holding"}, uses : Nat, lock : Locks]
  BY DEF OwnInv, SizeTypes
<1>2. CASE \E l \in Locks : ClientWait(l)
  <2>1. /\ client'.uses = client.uses + 1 /\ client.uses < heap.uses
        /\ heap' = heap /\ total' = total /\ poisoned' = poisoned
    BY <1>2 DEF ClientWait, threadVars
  <2>2. client'.uses \in 0 .. heap.uses
    BY <2>1 DEF CountInv
  <2> QED BY <2>1, <2>2 DEF CountInv, Nodes
<1>3. CASE ClientLock
  <2>1. /\ client' = [client EXCEPT !.pc = "holding"]
        /\ heap' = heap /\ total' = total /\ poisoned' = poisoned
    BY <1>3 DEF ClientLock, threadVars
  <2>2. client'.uses = client.uses
    BY <1>1, <2>1
  <2> QED BY <2>1, <2>2 DEF CountInv, Nodes
<1>4. CASE ClientUnlock
  <2>1. PICK l : l = client.lock
    OBVIOUS
  <2>2. /\ client.pc = "holding" /\ client'.uses = client.uses
        /\ heap' \in {heap} \cup Changes(l) /\ total' = total
        /\ poisoned' \subseteq poisoned \cup {l}
    BY <1>4, <2>1 DEF ClientUnlock, threadVars
  <2>3. l \in Locks /\ l \in Nodes
    BY <1>1, <2>1, <2>2 DEF Locks
  <2>4. heap'.uses = heap.uses
    BY <1>1, <2>1, <2>2, ChangesSpare
  <2>5. DOMAIN heap'.value = Nodes
    BY <1>1, <2>2, <2>3, ChangesKeep DEF Keeps, Nodes
  <2> QED BY <2>2, <2>3, <2>4, <2>5 DEF CountInv, Nodes
<1> QED BY <1>2, <1>3, <1>4

-----------------------------------------------------------------------------
SizingInv == OwnInv /\ HeldInv /\ CountInv

\* Before any measure.
LEMMA SizingInit ==
  ASSUME Init
  PROVE  SizingInv
<1>1. /\ heap \in Heaps /\ heap.uses \in Nat
      /\ agenda = [t \in Threads |-> << >>] /\ total = [t \in Threads |-> 0]
      /\ held = [v \in Nodes |-> {}] /\ poisoned = {} /\ client = NoClient
  BY DEF Init
<1>2. HeldInv
  <2>1. \A m \in Nodes : held[m] = {}
    BY <1>1
  <2>2. Locks \subseteq Nodes
    BY DEF Locks
  <2>3. \A t \in Threads : GuardsOwed(t) /\ Anchored(t)
    BY <1>1, <2>1 DEF GuardsOwed, Anchored
  <2> QED BY <2>1, <2>2, <2>3 DEF HeldInv
<1>3. CountInv
  BY <1>1 DEF CountInv, NoClient
<1> QED BY <1>2, <1>3, OwnInit DEF SizingInv

\* Every step keeps the invariant.
LEMMA SizingNext ==
  ASSUME SizingInv, [Next]_vars
  PROVE  SizingInv'
<1>1. OwnInv /\ HeldInv /\ CountInv
  BY DEF SizingInv
<1>2. OwnInv'
  BY <1>1, OwnNext
<1>3. CASE \E t \in Threads : Start(t) \/ Step(t)
  <2>1. PICK t \in Threads : Start(t) \/ Step(t)
    BY <1>3
  <2>2. CountInv'
    BY <1>1, <2>1, StepCount
  <2>3. HeldInv'
    <3>1. CASE Return(t)
      <4>1. UNCHANGED <<heap, agenda, held, client>>
        BY <3>1 DEF Return
      <4>2. \A u \in Threads : GuardsOwed(u)' /\ Anchored(u)'
        BY <1>1, <4>1, AgendasHeld
      <4> QED BY <1>1, <4>1, <4>2, HeldSame
    <3> QED BY <1>1, <2>1, <3>1, StartHeld, SumHeld, LockHeld, DropGuardHeld DEF Step
  <2> QED BY <1>2, <2>2, <2>3 DEF SizingInv
<1>4. CASE (\E l \in Locks : ClientWait(l)) \/ ClientLock \/ ClientUnlock
  BY <1>1, <1>2, <1>4, ClientAskHeld, ClientUnlockHeld, ClientCount DEF SizingInv
<1>5. CASE UNCHANGED vars
  <2>1. UNCHANGED <<heap, agenda, held, client, total, poisoned>>
    BY <1>5 DEF vars, threadVars
  <2>2. \A u \in Threads : GuardsOwed(u)' /\ Anchored(u)'
    BY <1>1, <2>1, AgendasHeld
  <2>3. HeldInv'
    BY <1>1, <2>1, <2>2, HeldSame
  <2>4. CountInv'
    BY <1>1, <2>1 DEF CountInv, Nodes
  <2> QED BY <1>2, <2>3, <2>4 DEF SizingInv
<1> QED BY <1>3, <1>4, <1>5 DEF Next

\* The invariant gives every variable its type.
LEMMA SizingTypes ==
  ASSUME SizingInv
  PROVE  TypeOK
<1>1. SizeTypes /\ HeldInv /\ CountInv
  BY DEF SizingInv, OwnInv
<1>2. ASSUME NEW t \in Threads, NEW i \in DOMAIN agenda[t]
      PROVE  agenda[t][i].do \in {"visit", "unlock"} /\ agenda[t][i].value \in Nodes
  <2>1. agenda[t] \in Seq(Items)
    BY <1>1 DEF SizeTypes
  <2>2. agenda[t][i] \in Items
    BY <2>1, ElementOfSeq
  <2> QED BY <2>2 DEF Items
<1>3. held \in [Nodes -> {{}, {Client}} \cup SUBSET Threads]
  <2>1. held \in [Nodes -> SUBSET (Threads \cup {Client})]
    BY <1>1 DEF SizeTypes
  <2>2. ASSUME NEW m \in Nodes PROVE held[m] \in {{}, {Client}} \cup SUBSET Threads
    BY <1>1, <2>1 DEF HeldInv
  <2> QED BY <2>1, <2>2
<1>4. ASSUME NEW l \in Locks, Value(l).kind = "mutex" PROVE Cardinality(held[l]) <= 1
  <2>1. \A a, b \in held[l] : a = b
    BY <1>1, <1>4 DEF HeldInv
  <2>2. CASE held[l] = {}
    BY <2>2, FS_EmptySet
  <2>3. CASE held[l] # {}
    <3>1. PICK a : a \in held[l]
      BY <2>3
    <3>2. held[l] = {a}
      BY <2>1, <3>1
    <3>3. Cardinality({a}) = 1
      BY FS_Singleton
    <3> QED BY <3>2, <3>3
  <2> QED BY <2>2, <2>3
<1>5. client.pc \in {"idle", "waiting", "holding"}
  BY <1>1 DEF SizeTypes
<1> QED BY <1>1, <1>2, <1>3, <1>4, <1>5 DEF TypeOK, SizeTypes, HeldInv, CountInv

\* Whatever several measures and a client do, the memory stays well owned: a Mutex is
\* held by one at a time, a client's guard excludes all others, only locks are held,
\* and what a measure has left to do is about values that are there
\* (default_impls.rs:172-187).
THEOREM SizingKeepsTypes == Spec => []TypeOK
<1>1. Init => SizingInv
  BY SizingInit
<1>2. SizingInv /\ [Next]_vars => SizingInv'
  BY SizingNext
<1>3. SizingInv => TypeOK
  BY SizingTypes
<1> QED BY <1>1, <1>2, <1>3, PTL DEF Spec

\* A step changes no value that a thread has still to visit or to release, but for
\* the content of a lock that the client holds and the thread waits for.
Undisturbed ==
  \A t \in Threads : \A i \in DOMAIN agenda[t] :
    \/ heap'.value[agenda[t][i].value] = Value(agenda[t][i].value)
    \/ client.pc = "holding" /\ agenda[t][i].value = client.lock

\* Only the client changes values, and none that a thread goes through.
LEMMA StepUndisturbed ==
  ASSUME SizingInv, [Next]_vars
  PROVE  [Undisturbed]_vars
<1>1. OwnInv /\ HeldInv /\ SizeTypes
  BY DEF SizingInv, OwnInv
<1>2. CASE heap' = heap
  BY <1>2 DEF Undisturbed, Value
<1>3. CASE ClientUnlock
  <2>1. PICK l, k : l = client.lock /\ k = heap'
    OBVIOUS
  <2>2. client.pc = "holding" /\ k \in {heap} \cup Changes(l)
    BY <1>3, <2>1 DEF ClientUnlock
  <2>3. l \in Locks /\ held[l] = {Client} /\ WellOwned(heap)
    BY <1>1, <2>1, <2>2 DEF SizeTypes
  <2>4. DOMAIN k.value = Nodes
    BY <2>2, <2>3, ChangesKeep DEF Keeps, Nodes
  <2>5. PICK A \in SUBSET Nodes : Spared(l, A, k)
    BY <1>1, <2>1, <2>2, ChangesSpare
  <2>6. ASSUME NEW t \in Threads, NEW i \in DOMAIN agenda[t]
        PROVE  agenda[t][i].value \in A
    BY <1>1, <2>3, <2>4, <2>5, AgendaSpared
  <2>7. \A u \in A : u # l => k.value[u] = Value(u)
    BY <2>5 DEF Spared
  <2> QED BY <2>1, <2>2, <2>6, <2>7 DEF Undisturbed
<1>4. heap' = heap \/ ClientUnlock
  BY DEF Next, vars, threadVars, Start, Step, Sum, Box, Shared, Lock, DropGuard, Return,
         Replace, ClientWait, ClientLock
<1> QED BY <1>2, <1>3, <1>4

\* The client cannot free or change what a measure goes through: all of that is kept
\* by owners, and by locks whose guards the measure holds
\* (deepsize.rs:376-383, default_impls.rs:172-187).
THEOREM MeasuredIsUndisturbed == Spec => [][Undisturbed]_vars
<1>1. Init => SizingInv
  BY SizingInit
<1>2. SizingInv /\ [Next]_vars => SizingInv'
  BY SizingNext
<1>3. SizingInv /\ [Next]_vars => [Undisturbed]_vars
  BY StepUndisturbed
<1> QED BY <1>1, <1>2, <1>3, PTL DEF Spec
-----------------------------------------------------------------------------
(* What a value leads to, and the bytes that are counted of it.             *)

\* Nothing in S leads out of S.
Closed(h, cut, S) == \A w \in S : Leads(h, cut, w) \subseteq S

\* The values that r leads to: those in every closed set that has r.
Span(h, r, cut) ==
  {w \in DOMAIN h.value :
     \A S \in SUBSET DOMAIN h.value : r \in S /\ Closed(h, cut, S) => w \in S}

\* The span of r is closed, and the least closed set that has r.
LEMMA SpanClosed ==
  ASSUME NEW h, WellOwned(h), NEW r \in DOMAIN h.value, NEW cut
  PROVE  /\ r \in Span(h, r, cut) /\ Span(h, r, cut) \subseteq DOMAIN h.value
         /\ Closed(h, cut, Span(h, r, cut))
         /\ \A S \in SUBSET DOMAIN h.value :
              r \in S /\ Closed(h, cut, S) => Span(h, r, cut) \subseteq S
<1>1. ASSUME NEW w \in Span(h, r, cut), NEW x \in Leads(h, cut, w)
      PROVE  x \in Span(h, r, cut)
  <2>1. x \in DOMAIN h.value
    BY DEF WellOwned, Leads, Span
  <2>2. ASSUME NEW S \in SUBSET DOMAIN h.value, r \in S, Closed(h, cut, S) PROVE x \in S
    <3>1. w \in S
      BY <2>2 DEF Span
    <3> QED BY <2>2, <3>1 DEF Closed
  <2> QED BY <2>1, <2>2 DEF Span
<1>2. Closed(h, cut, Span(h, r, cut))
  BY <1>1 DEF Closed
<1> QED BY <1>2 DEF Span

\* What OwnBytes adds for the value x.
Buffer(x) ==
  CASE x.kind = "string" -> x.cap
    [] x.kind = "array" -> x.cap * x.elem
    [] x.kind = "list" -> ListBytes(x)
    [] x.kind = "btree" -> TreeBytes(x)
    [] OTHER -> 0

\* The bytes of value x, and those of its buffer.
ValueBytes(h, x) == Extent(<<"value", x>>, h.value[x].size)
BufferBytes(h, x) == Extent(<<"buffer", x>>, Buffer(h.value[x]))

\* The bytes in B are n, and are about values of D, buffers of those in done.
Tallied(B, n, D, done) ==
  /\ IsFiniteSet(B) /\ Cardinality(B) = n
  /\ \A x, i : <<<<"value", x>>, i>> \in B => x \in D
  /\ \A x, i : <<<<"buffer", x>>, i>> \in B => x \in done

\* Whatever r leads to, and is done, is counted, and what that leads to is in D.
Complete(h, r, cut, D, done, known, B) ==
  /\ r \in D /\ ValueBytes(h, r) \subseteq B
  /\ \A w \in Span(h, r, cut) \cap done :
       /\ BufferBytes(h, w) \subseteq B /\ Leads(h, cut, w) \subseteq D
       /\ h.value[w].kind \in HandleKinds =>
            \A x \in Leads(h, cut, w) : ValueBytes(h, x) \subseteq B
  /\ \A x \in known \cap Span(h, r, cut) : x \in D /\ ValueBytes(h, x) \subseteq B

\* What handles lead to.
Behind(h, r, cut) ==
  UNION {Leads(h, cut, w) : w \in {u \in Span(h, r, cut) : h.value[u].kind \in HandleKinds}}

\* The bytes of the values of Q, and of the buffers of those of S.
Gained(h, Q) == UNION {ValueBytes(h, x) : x \in Q}
Buffers(h, S) == UNION {BufferBytes(h, w) : w \in S}

\* The bytes of what r leads to.
Owned(h, r, cut) == Gained(h, {r} \cup Behind(h, r, cut)) \cup Buffers(h, Span(h, r, cut))

\* Nothing else is counted.
Exact(h, r, cut, D, B) == D \subseteq Span(h, r, cut) /\ B \subseteq Owned(h, r, cut)

\* A size is the number of its bytes.
LEMMA ExtentBytes ==
  ASSUME NEW x, NEW n \in Nat
  PROVE  /\ IsFiniteSet(Extent(x, n)) /\ Cardinality(Extent(x, n)) = n
         /\ \A b \in Extent(x, n) : \E i : b = <<x, i>>
         /\ \A y, i : <<y, i>> \in Extent(x, n) => y = x
<1>1. Extent(x, n) = EntryBytes(x, n)
  BY DEF Extent, EntryBytes
<1>2. IsFiniteSet(Extent(x, n)) /\ Cardinality(Extent(x, n)) = n
  BY <1>1, EntryBytesCount
<1>3. \A b \in Extent(x, n) : \E i : b = <<x, i>>
  BY DEF Extent
<1>4. \A y, i : <<y, i>> \in Extent(x, n) => y = x
  BY DEF Extent
<1> QED BY <1>2, <1>3, <1>4

\* No size has no bytes.
LEMMA ExtentEmpty == \A x : Extent(x, 0) = {}
BY DEF Extent

\* A union of finite sets of bytes, one for each of finitely many values.
LEMMA ManyFinite ==
  ASSUME NEW f, IsFiniteSet(DOMAIN f), \A x \in DOMAIN f : IsFiniteSet(f[x])
  PROVE  IsFiniteSet(UNION {f[x] : x \in DOMAIN f})
<1> DEFINE D == DOMAIN f
           T == {f[x] : x \in D}
           g == [x \in D |-> f[x]]
<1>1. g \in Surjection(D, T)
  BY DEF Surjection
<1>2. IsFiniteSet(T)
  <2> HIDE DEF D, T, g
  <2> QED BY <1>1, FS_Surjection DEF D
<1>3. \A s \in T : IsFiniteSet(s)
  OBVIOUS
<1> QED BY <1>2, <1>3, FS_UNION

\* The bytes of a value and of a buffer are about it.
LEMMA BytesAbout ==
  ASSUME NEW h, NEW x, h.value[x].size \in Nat, Buffer(h.value[x]) \in Nat
  PROVE  /\ IsFiniteSet(ValueBytes(h, x)) /\ IsFiniteSet(BufferBytes(h, x))
         /\ Cardinality(ValueBytes(h, x)) = h.value[x].size
         /\ Cardinality(BufferBytes(h, x)) = Buffer(h.value[x])
         /\ \A b \in ValueBytes(h, x) : \E i : b = <<<<"value", x>>, i>>
         /\ \A b \in BufferBytes(h, x) : \E i : b = <<<<"buffer", x>>, i>>
         /\ \A y, i : <<<<"value", y>>, i>> \in ValueBytes(h, x) => y = x
         /\ \A y, i : <<<<"buffer", y>>, i>> \in BufferBytes(h, x) => y = x
         /\ \A y, i : <<<<"buffer", y>>, i>> \notin ValueBytes(h, x)
         /\ \A y, i : <<<<"value", y>>, i>> \notin BufferBytes(h, x)
<1>1. PICK v, b : v = <<"value", x>> /\ b = <<"buffer", x>>
  OBVIOUS
<1>2. ValueBytes(h, x) = Extent(v, h.value[x].size)
  BY <1>1 DEF ValueBytes
<1>3. BufferBytes(h, x) = Extent(b, Buffer(h.value[x]))
  BY <1>1 DEF BufferBytes
<1>4. \A y : /\ <<"value", y>> # b /\ <<"buffer", y>> # v
             /\ <<"value", y>> = v => y = x
             /\ <<"buffer", y>> = b => y = x
  BY <1>1
<1>5. /\ IsFiniteSet(ValueBytes(h, x)) /\ Cardinality(ValueBytes(h, x)) = h.value[x].size
      /\ \A c \in ValueBytes(h, x) : \E i : c = <<v, i>>
      /\ \A y, i : <<y, i>> \in ValueBytes(h, x) => y = v
  BY <1>2, ExtentBytes
<1>6. /\ IsFiniteSet(BufferBytes(h, x)) /\ Cardinality(BufferBytes(h, x)) = Buffer(h.value[x])
      /\ \A c \in BufferBytes(h, x) : \E i : c = <<b, i>>
      /\ \A y, i : <<y, i>> \in BufferBytes(h, x) => y = b
  BY <1>3, ExtentBytes
<1> QED BY <1>1, <1>4, <1>5, <1>6

\* Bytes that are new are added to the number.
LEMMA Disjoint ==
  ASSUME NEW S, NEW T, IsFiniteSet(S), IsFiniteSet(T), S \cap T = {}
  PROVE  IsFiniteSet(S \cup T) /\ Cardinality(S \cup T) = Cardinality(S) + Cardinality(T)
<1>1. /\ IsFiniteSet(S \cup T)
      /\ Cardinality(S \cup T) = Cardinality(S) + Cardinality(T) - Cardinality(S \cap T)
  BY FS_Union
<1>2. Cardinality(S) \in Nat /\ Cardinality(T) \in Nat /\ Cardinality(S \cap T) = 0
  BY FS_CardinalityType, FS_EmptySet
<1> QED BY <1>1, <1>2

\* A value is done, and what one more handle leads to is counted.
LEMMA TalliedThen ==
  ASSUME NEW B, NEW n, NEW D, NEW done, Tallied(B, n, D, done), NEW h, NEW w, w \notin done,
         Buffer(h.value[w]) \in Nat, h.value[w].size \in Nat,
         NEW p, NEW Q \in {{}, {p}},
         Q # {} => p \notin D /\ h.value[p].size \in Nat /\ Buffer(h.value[p]) \in Nat,
         NEW E, D \subseteq E, Q \subseteq E,
         NEW C, C = (B \cup BufferBytes(h, w)) \cup Gained(h, Q),
         NEW q, q = IF Q = {} THEN 0 ELSE h.value[p].size
  PROVE  Tallied(C, n + Buffer(h.value[w]) + q, E, done \cup {w})
<1>1. /\ IsFiniteSet(B) /\ Cardinality(B) = n
      /\ \A x, i : <<<<"value", x>>, i>> \in B => x \in D
      /\ \A x, i : <<<<"buffer", x>>, i>> \in B => x \in done
  BY DEF Tallied
<1>2. PICK X, V : X = BufferBytes(h, w) /\ V = Gained(h, Q)
  OBVIOUS
<1>3. /\ IsFiniteSet(X) /\ Cardinality(X) = Buffer(h.value[w])
      /\ \A b \in X : \E i : b = <<<<"buffer", w>>, i>>
      /\ \A y, i : <<<<"buffer", y>>, i>> \in X => y = w
      /\ \A y, i : <<<<"value", y>>, i>> \notin X
  BY <1>2, BytesAbout
<1>4. /\ IsFiniteSet(V) /\ Cardinality(V) = q
      /\ \A b \in V : \E i : b = <<<<"value", p>>, i>>
      /\ \A y, i : <<<<"value", y>>, i>> \in V => y \in Q
      /\ \A y, i : <<<<"buffer", y>>, i>> \notin V
  <2>1. CASE Q = {}
    <3>1. V = {}
      BY <1>2, <2>1 DEF Gained
    <3> QED BY <2>1, <3>1, FS_EmptySet
  <2>2. CASE Q = {p}
    <3>1. V = ValueBytes(h, p) /\ Q # {}
      BY <1>2, <2>2 DEF Gained
    <3> QED BY <2>2, <3>1, BytesAbout
  <2> QED BY <2>1, <2>2
<1>5. B \cap X = {}
  BY <1>1, <1>3
<1>6. (B \cup X) \cap V = {}
  BY <1>1, <1>3, <1>4
<1>7. IsFiniteSet(B \cup X) /\ Cardinality(B \cup X) = n + Buffer(h.value[w])
  BY <1>1, <1>3, <1>5, Disjoint
<1>8. IsFiniteSet(C) /\ Cardinality(C) = n + Buffer(h.value[w]) + q
  <2>1. PICK Y : Y = B \cup X
    OBVIOUS
  <2>2. IsFiniteSet(Y) /\ IsFiniteSet(V) /\ Y \cap V = {}
    BY <1>4, <1>6, <1>7, <2>1
  <2>3. IsFiniteSet(Y \cup V) /\ Cardinality(Y \cup V) = Cardinality(Y) + Cardinality(V)
    BY <2>2, Disjoint
  <2>4. C = Y \cup V
    BY <1>2, <2>1
  <2> QED BY <1>4, <1>7, <2>1, <2>3, <2>4
<1>9. \A x, i : /\ <<<<"value", x>>, i>> \in C => x \in E
                /\ <<<<"buffer", x>>, i>> \in C => x \in done \cup {w}
  BY <1>1, <1>2, <1>3, <1>4
<1> QED BY <1>8, <1>9 DEF Tallied

\* A value is done: it is counted, and so is what it leads to, N and what was known.
LEMMA CompleteThen ==
  ASSUME NEW h, WellOwned(h), NEW r \in DOMAIN h.value, NEW cut, NEW D, NEW done, NEW known,
         NEW B, Complete(h, r, cut, D, done, known, B),
         NEW w, NEW N, NEW Q, Q \subseteq N, Leads(h, cut, w) \subseteq N \cup known,
         h.value[w].kind \in HandleKinds => N \subseteq Q,
         NEW C, C = (B \cup BufferBytes(h, w)) \cup Gained(h, Q),
         NEW then, then \subseteq known \cup Q
  PROVE  Complete(h, r, cut, D \cup N, done \cup {w}, then, C)
<1>1. PICK S : S = Span(h, r, cut)
  OBVIOUS
<1>2. /\ r \in D /\ ValueBytes(h, r) \subseteq B
      /\ \A u \in S \cap done :
           /\ BufferBytes(h, u) \subseteq B /\ Leads(h, cut, u) \subseteq D
           /\ h.value[u].kind \in HandleKinds =>
                \A x \in Leads(h, cut, u) : ValueBytes(h, x) \subseteq B
      /\ \A x \in known \cap S : x \in D /\ ValueBytes(h, x) \subseteq B
  BY <1>1 DEF Complete
<1>3. B \subseteq C /\ BufferBytes(h, w) \subseteq C /\ \A x \in Q : ValueBytes(h, x) \subseteq C
  BY DEF Gained
<1>4. \A x \in then \cap S : x \in D \cup N /\ ValueBytes(h, x) \subseteq C
  BY <1>2, <1>3
<1>5. ASSUME w \in S
      PROVE  /\ BufferBytes(h, w) \subseteq C /\ Leads(h, cut, w) \subseteq D \cup N
             /\ h.value[w].kind \in HandleKinds =>
                  \A x \in Leads(h, cut, w) : ValueBytes(h, x) \subseteq C
  <2>1. Leads(h, cut, w) \subseteq S
    BY <1>1, <1>5, SpanClosed DEF Closed
  <2> QED BY <1>2, <1>3, <2>1
<1>6. ASSUME NEW u \in S \cap (done \cup {w})
      PROVE  /\ BufferBytes(h, u) \subseteq C /\ Leads(h, cut, u) \subseteq D \cup N
             /\ h.value[u].kind \in HandleKinds =>
                  \A x \in Leads(h, cut, u) : ValueBytes(h, x) \subseteq C
  <2>1. CASE u = w
    BY <1>5, <1>6, <2>1
  <2>2. CASE u # w
    BY <1>2, <1>3, <1>6, <2>2
  <2> QED BY <2>1, <2>2
<1>7. r \in D \cup N /\ ValueBytes(h, r) \subseteq C
  BY <1>2, <1>3
<1> QED BY <1>1, <1>4, <1>6, <1>7 DEF Complete

\* What is owned, piece by piece.
LEMMA OwnedPieces ==
  ASSUME NEW h, NEW r, NEW cut
  PROVE  /\ \A x \in {r} \cup Behind(h, r, cut) : ValueBytes(h, x) \subseteq Owned(h, r, cut)
         /\ \A w \in Span(h, r, cut) : BufferBytes(h, w) \subseteq Owned(h, r, cut)
         /\ \A O : (/\ \A x \in {r} \cup Behind(h, r, cut) : ValueBytes(h, x) \subseteq O
                   /\ \A w \in Span(h, r, cut) : BufferBytes(h, w) \subseteq O)
                    => Owned(h, r, cut) \subseteq O
<1>1. PICK S, X : S = Span(h, r, cut) /\ X = {r} \cup Behind(h, r, cut)
  OBVIOUS
<1>2. PICK V, W : V = Gained(h, X) /\ W = Buffers(h, S)
  OBVIOUS
<1>3. Owned(h, r, cut) = V \cup W
  BY <1>1, <1>2 DEF Owned
<1>4. /\ \A x \in X : ValueBytes(h, x) \subseteq V
      /\ \A O : (\A x \in X : ValueBytes(h, x) \subseteq O) => V \subseteq O
  BY <1>2 DEF Gained
<1>5. /\ \A w \in S : BufferBytes(h, w) \subseteq W
      /\ \A O : (\A w \in S : BufferBytes(h, w) \subseteq O) => W \subseteq O
  BY <1>2 DEF Buffers
<1>6. \A O : V \subseteq O /\ W \subseteq O => Owned(h, r, cut) \subseteq O
  BY <1>3
<1>7. V \subseteq Owned(h, r, cut) /\ W \subseteq Owned(h, r, cut)
  BY <1>3
<1> QED BY <1>1, <1>4, <1>5, <1>6, <1>7

\* What is entered and counted at w is owned, if w leads to it.
LEMMA ExactThen ==
  ASSUME NEW h, WellOwned(h), NEW r \in DOMAIN h.value, NEW cut,
         NEW D, NEW B, Exact(h, r, cut, D, B),
         NEW w \in D, NEW N, NEW Q, Q \subseteq N, N \subseteq Leads(h, cut, w),
         Q # {} => h.value[w].kind \in HandleKinds,
         NEW C, C = (B \cup BufferBytes(h, w)) \cup Gained(h, Q)
  PROVE  Exact(h, r, cut, D \cup N, C)
<1>1. PICK S, O : S = Span(h, r, cut) /\ O = Owned(h, r, cut)
  OBVIOUS
<1>2. D \subseteq S /\ B \subseteq O /\ w \in S
  BY <1>1 DEF Exact
<1>3. Leads(h, cut, w) \subseteq S
  BY <1>1, <1>2, SpanClosed DEF Closed
<1>4. BufferBytes(h, w) \subseteq O
  BY <1>1, <1>2, OwnedPieces
<1>5. \A x \in Q : ValueBytes(h, x) \subseteq O
  <2>1. Q \subseteq Behind(h, r, cut)
    BY <1>1, <1>2 DEF Behind
  <2> QED BY <1>1, <2>1, OwnedPieces
<1>6. Gained(h, Q) \subseteq O
  BY <1>5 DEF Gained
<1> QED BY <1>1, <1>2, <1>3, <1>4, <1>6 DEF Exact

\* When the values of A, but for what is behind those in later, are in k what they
\* were in h.
Lasts(h, k, later, A) ==
  \A u \in A :
    /\ k.value[u].kind = h.value[u].kind /\ k.value[u].size = h.value[u].size
    /\ Buffer(k.value[u]) = Buffer(h.value[u])
    /\ u \notin later => /\ Inside(k, u) = Inside(h, u)
                         /\ h.value[u].kind # "ref" => Inside(h, u) \subseteq A

\* What was complete stays so while the client changes only what is cut off.
LEMMA CompleteLater ==
  ASSUME NEW h, WellOwned(h), NEW k, WellOwned(k), DOMAIN k.value = DOMAIN h.value,
         NEW A \in SUBSET DOMAIN h.value, NEW r \in A, NEW cut, NEW later, cut \subseteq later,
         Lasts(h, k, later, A),
         NEW D, NEW done, NEW known, NEW B, Complete(h, r, cut, D, done, known, B)
  PROVE  Complete(k, r, later, D, done, known, B)
<1>1. PICK S, T : S = Span(h, r, cut) /\ T = Span(k, r, later)
  OBVIOUS
<1>2. /\ r \in S /\ S \subseteq DOMAIN h.value
      /\ \A u \in S : Leads(h, cut, u) \subseteq S
  BY <1>1, SpanClosed DEF Closed
<1>3. ASSUME NEW u \in A
      PROVE  /\ Leads(k, later, u) \subseteq A /\ Leads(k, later, u) \subseteq Leads(h, cut, u)
             /\ BufferBytes(k, u) = BufferBytes(h, u) /\ ValueBytes(k, u) = ValueBytes(h, u)
             /\ k.value[u].kind = h.value[u].kind
  BY DEF Lasts, Leads, BufferBytes, ValueBytes
<1>4. T \subseteq S \cap A
  <2>1. S \cap A \in SUBSET DOMAIN k.value /\ r \in S \cap A
    BY <1>2
  <2>2. Closed(k, later, S \cap A)
    BY <1>2, <1>3 DEF Closed
  <2>3. r \in DOMAIN k.value
    OBVIOUS
  <2> QED BY <1>1, <2>1, <2>2, <2>3, SpanClosed
<1>5. \A u \in T : Leads(k, later, u) \subseteq T
  <2>1. r \in DOMAIN k.value
    OBVIOUS
  <2> QED BY <1>1, <2>1, SpanClosed DEF Closed
<1>6. /\ r \in D /\ ValueBytes(h, r) \subseteq B
      /\ \A u \in S \cap done :
           /\ BufferBytes(h, u) \subseteq B /\ Leads(h, cut, u) \subseteq D
           /\ h.value[u].kind \in HandleKinds =>
                \A x \in Leads(h, cut, u) : ValueBytes(h, x) \subseteq B
      /\ \A x \in known \cap S : x \in D /\ ValueBytes(h, x) \subseteq B
  BY <1>1 DEF Complete
<1>7. \A x \in known \cap T : x \in D /\ ValueBytes(k, x) \subseteq B
  BY <1>3, <1>4, <1>6
<1>8. ASSUME NEW u \in T \cap done
      PROVE  /\ BufferBytes(k, u) \subseteq B /\ Leads(k, later, u) \subseteq D
             /\ k.value[u].kind \in HandleKinds =>
                  \A x \in Leads(k, later, u) : ValueBytes(k, x) \subseteq B
  <2>1. u \in S \cap done /\ u \in A
    BY <1>4
  <2>2. \A x \in Leads(k, later, u) : x \in A /\ x \in Leads(h, cut, u)
    BY <1>3, <2>1
  <2> QED BY <1>3, <1>6, <2>1, <2>2
<1>9. ValueBytes(k, r) \subseteq B
  BY <1>3, <1>6
<1> QED BY <1>1, <1>6, <1>7, <1>8, <1>9 DEF Complete

\* All that is entered is done: all that r leads to is counted.
LEMMA AllCounted ==
  ASSUME NEW h, WellOwned(h), NEW r \in DOMAIN h.value, NEW cut, NEW D \in SUBSET DOMAIN h.value,
         NEW known, NEW B, Complete(h, r, cut, D, D, known, B)
  PROVE  Owned(h, r, cut) \subseteq B
<1>1. PICK S : S = Span(h, r, cut)
  OBVIOUS
<1>2. /\ r \in S /\ S \subseteq DOMAIN h.value
      /\ \A u \in S : Leads(h, cut, u) \subseteq S
  BY <1>1, SpanClosed DEF Closed
<1>3. /\ r \in D /\ ValueBytes(h, r) \subseteq B
      /\ \A u \in S \cap D :
           /\ BufferBytes(h, u) \subseteq B /\ Leads(h, cut, u) \subseteq D
           /\ h.value[u].kind \in HandleKinds =>
                \A x \in Leads(h, cut, u) : ValueBytes(h, x) \subseteq B
  BY <1>1 DEF Complete
<1>4. S \subseteq S \cap D
  <2>1. S \cap D \in SUBSET DOMAIN h.value /\ r \in S \cap D
    BY <1>2, <1>3
  <2>2. Closed(h, cut, S \cap D)
    BY <1>2, <1>3 DEF Closed
  <2> QED BY <1>1, <2>1, <2>2, SpanClosed
<1>5. \A x \in Behind(h, r, cut) : ValueBytes(h, x) \subseteq B
  BY <1>1, <1>3, <1>4 DEF Behind
<1> QED BY <1>1, <1>3, <1>4, <1>5, OwnedPieces

\* What a search finds from v is what v leads to.
LEMMA ReachedSpan ==
  ASSUME WellOwned(heap), NEW v \in Nodes, NEW cut
  PROVE  Reached(v, cut) = Span(heap, v, cut)
<1>1. PICK N, X : N = Len(heap.value) /\ X = Nodes
  OBVIOUS
<1>2. PICK E : E = [w \in X |-> Follows(w, cut)]
  OBVIOUS
<1>3. N \in Nat /\ X = 1 .. N
  BY <1>1, LenProperties DEF WellOwned, Nodes
<1>4. IsFiniteSet(X) /\ N = Cardinality(X)
  BY <1>3, FS_Interval
<1>5. \A w \in X : Follows(w, cut) = Leads(heap, cut, w) /\ Leads(heap, cut, w) \subseteq X
  BY <1>1 DEF Follows, Leads, ToSet, Inside, Value, WellOwned, Nodes
<1>6. E \in [X -> SUBSET X] /\ {v} \in SUBSET X
  BY <1>1, <1>2, <1>5
<1> DEFINE F(f) == f = [n \in 0 .. N |-> IF n = 0 THEN {v}
                                         ELSE UNION {{w} \cup Follows(w, cut) : w \in f[n - 1]}]
<1>7. ASSUME NEW S \in SUBSET X PROVE Grown(E, S) = UNION {{w} \cup Follows(w, cut) : w \in S}
  BY <1>2 DEF Grown
<1>8. \E f : F(f)
  <2>1. PICK f \in [0 .. N -> SUBSET X] : Searches(f, N, {v}, E)
    BY <1>3, <1>6, SearchExists
  <2>2. ASSUME NEW n \in 0 .. N, n # 0
        PROVE  f[n] = UNION {{w} \cup Follows(w, cut) : w \in f[n - 1]}
    <3>1. n - 1 \in 0 .. N - 1 /\ n - 1 \in 0 .. N /\ (n - 1) + 1 = n /\ f[n - 1] \in SUBSET X
      BY <1>3, <2>1, <2>2
    <3>2. f[n] = Grown(E, f[n - 1])
      BY <1>6, <2>1, <3>1 DEF Searches
    <3> QED BY <1>7, <3>1, <3>2
  <2>3. f = [n \in 0 .. N |-> f[n]] /\ f[0] = {v}
    BY <2>1 DEF Searches
  <2>4. F(f)
    BY <2>2, <2>3
  <2> QED BY <2>4
<1>9. PICK f : F(f) /\ Reached(v, cut) = f[N]
  <2>1. PICK f : f = CHOOSE g : F(g)
    OBVIOUS
  <2>2. F(f)
    <3> HIDE DEF F
    <3> QED BY <1>8, <2>1
  <2>3. Reached(v, cut) = f[N]
    BY <1>1, <2>1 DEF Reached
  <2> QED BY <2>2, <2>3
<1>10. Searches(f, N, {v}, E)
  <2>1. 0 \in 0 .. N
    BY <1>3
  <2>2. f[0] = {v} /\ f = [n \in 0 .. N |-> f[n]]
    BY <1>9, <2>1
  <2>3. ASSUME NEW n \in 0 .. N - 1, f[n] \subseteq X PROVE f[n + 1] = Grown(E, f[n])
    <3>1. n + 1 \in 0 .. N /\ n + 1 # 0 /\ (n + 1) - 1 = n
      BY <1>3
    <3>2. f[n + 1] = UNION {{w} \cup Follows(w, cut) : w \in f[n]}
      BY <1>9, <3>1
    <3> QED BY <1>7, <2>3, <3>2
  <2> QED BY <1>6, <2>2, <2>3 DEF Searches
<1> HIDE DEF F
<1>11. PICK R, S : R = f[N] /\ S = Span(heap, v, cut)
  OBVIOUS
<1>12. /\ R \subseteq X /\ v \in R /\ \A w \in R : E[w] \subseteq R
       /\ \A T \in SUBSET X : {v} \subseteq T /\ (\A w \in T : E[w] \subseteq T) => R \subseteq T
  <2>1. PICK base : base = {v}
    OBVIOUS
  <2>2. Explores(f, N, X, base, E)
    BY <1>4, <1>6, <1>10, <2>1 DEF Explores
  <2>3. /\ f[N] \subseteq X /\ base \subseteq f[N] /\ \A w \in f[N] : E[w] \subseteq f[N]
        /\ \A T \in SUBSET X : base \subseteq T /\ (\A w \in T : E[w] \subseteq T) => f[N] \subseteq T
    BY <2>2, SearchEnds
  <2> QED BY <1>11, <2>1, <2>3
<1>13. \A w \in X : E[w] = Leads(heap, cut, w)
  BY <1>2, <1>5
<1>14. /\ v \in S /\ S \subseteq X /\ \A w \in S : Leads(heap, cut, w) \subseteq S
       /\ \A T \in SUBSET X : v \in T /\ (\A w \in T : Leads(heap, cut, w) \subseteq T) => S \subseteq T
  BY <1>1, <1>11, SpanClosed DEF Closed, Nodes
<1>15. S \subseteq R
  BY <1>12, <1>13, <1>14
<1>16. R \subseteq S
  BY <1>12, <1>13, <1>14
<1> QED BY <1>9, <1>11, <1>15, <1>16

\* The bytes of a measure, by its definition, are those of what its root leads to.
LEMMA MemoryOwned ==
  ASSUME WellOwned(heap), NEW v \in Nodes, NEW cut
  PROVE  Memory(v, cut) = Owned(heap, v, cut) /\ IsFiniteSet(Memory(v, cut))
<1>1. PICK S : S = Span(heap, v, cut)
  OBVIOUS
<1>2. S \subseteq Nodes /\ Reached(v, cut) = S /\ \A w \in S : Leads(heap, cut, w) \subseteq S
  BY <1>1, ReachedSpan, SpanClosed DEF Nodes, Closed
<1>3. \A w \in Nodes : Follows(w, cut) = Leads(heap, cut, w)
  BY DEF Follows, Leads, ToSet, Inside, Value
<1>4. PICK H : H = Handles(v, cut, {"box", "arc", "rc"})
  OBVIOUS
<1>5. H = {u \in S : heap.value[u].kind \in HandleKinds}
  BY <1>2, <1>4 DEF Handles, HandleKinds, Value
<1>6. PICK K : K = Behind(heap, v, cut)
  OBVIOUS
<1>7. UNION {Follows(w, cut) : w \in H} = K
  <2>1. K = UNION {Leads(heap, cut, w) : w \in H}
    BY <1>1, <1>5, <1>6 DEF Behind
  <2>2. \A w \in H : Follows(w, cut) = Leads(heap, cut, w)
    BY <1>2, <1>3, <1>5
  <2> QED BY <2>1, <2>2
<1>8. PICK Y : Y = {v} \cup K
  OBVIOUS
<1>9. ValuesOf(Y) = Gained(heap, Y)
  BY DEF ValuesOf, Gained, ValueBytes, SizeOf, Value
<1>10. \A w : Extent(<<"buffer", w>>, OwnBytes(w)) = BufferBytes(heap, w)
  BY DEF BufferBytes, OwnBytes, Buffer, Value
<1>11. BuffersOf(S) = Buffers(heap, S)
  BY <1>10 DEF BuffersOf, Buffers
<1>12. Memory(v, cut) = Gained(heap, Y) \cup Buffers(heap, S)
  BY <1>2, <1>4, <1>7, <1>8, <1>9, <1>11 DEF Memory
<1>13. Owned(heap, v, cut) = Gained(heap, Y) \cup Buffers(heap, S)
  BY <1>1, <1>6, <1>8 DEF Owned
<1>14. Y \subseteq Nodes
  BY <1>1, <1>2, <1>6, <1>8 DEF Behind
<1>15. IsFiniteSet(Nodes)
  <2>1. Nodes = 1 .. Len(heap.value) /\ Len(heap.value) \in Nat
    BY LenProperties DEF WellOwned, Nodes
  <2> QED BY <2>1, FS_Interval
<1>16. \A x \in Nodes : IsFiniteSet(ValueBytes(heap, x)) /\ IsFiniteSet(BufferBytes(heap, x))
  <2>1. ASSUME NEW x \in Nodes PROVE heap.value[x].size \in Nat /\ Buffer(heap.value[x]) \in Nat
    <3>1. Value(x).size \in Nat /\ OwnBytes(x) \in Nat
      BY BytesNat
    <3>2. OwnBytes(x) = Buffer(heap.value[x])
      BY DEF OwnBytes, Buffer, Value
    <3> QED BY <3>1, <3>2 DEF Value
  <2> QED BY <2>1, BytesAbout
<1>17. IsFiniteSet(Gained(heap, Y))
  <2>1. PICK f : f = [x \in Y |-> ValueBytes(heap, x)]
    OBVIOUS
  <2>2. IsFiniteSet(DOMAIN f) /\ \A x \in DOMAIN f : IsFiniteSet(f[x])
    BY <1>14, <1>15, <1>16, <2>1, FS_Subset
  <2>3. IsFiniteSet(UNION {f[x] : x \in DOMAIN f})
    BY <2>2, ManyFinite
  <2>4. UNION {f[x] : x \in DOMAIN f} = Gained(heap, Y)
    BY <2>1 DEF Gained
  <2> QED BY <2>3, <2>4
<1>18. IsFiniteSet(Buffers(heap, S))
  <2>1. PICK f : f = [x \in S |-> BufferBytes(heap, x)]
    OBVIOUS
  <2>2. IsFiniteSet(DOMAIN f) /\ \A x \in DOMAIN f : IsFiniteSet(f[x])
    BY <1>2, <1>15, <1>16, <2>1, FS_Subset
  <2>3. IsFiniteSet(UNION {f[x] : x \in DOMAIN f})
    BY <2>2, ManyFinite
  <2>4. UNION {f[x] : x \in DOMAIN f} = Buffers(heap, S)
    BY <2>1 DEF Buffers
  <2> QED BY <2>3, <2>4
<1> QED BY <1>12, <1>13, <1>17, <1>18, FS_Union
-----------------------------------------------------------------------------
(* Each value is counted once.                                              *)

\* A poisoned lock whose memory is used for a new value leads nowhere.
PoisonedInv == \A v \in poisoned : v \in Locks \/ Inside(heap, v) = {}

\* The bytes in B are those that t has counted, of the values D that it has entered.
Tracked(t, D, B) ==
  /\ Entered(t, D) /\ Tallied(B, total[t], D, D \ ToVisit(t))
  /\ Complete(heap, Root[t], poisoned \cup changed[t], D, D \ ToVisit(t), Known(t), B)
  /\ changed[t] = {} => Exact(heap, Root[t], poisonedBefore[t], D, B)

\* A thread that measures has a set of bytes that tracks what it has counted.
CountedOnce(t) ==
  /\ pc[t] = "ready" => Known(t) = {}
  /\ pc[t] = "sizing" =>
       /\ t \in DOMAIN Root /\ poisonedBefore[t] \subseteq poisoned
       /\ \E D \in SUBSET Nodes : \E B : Tracked(t, D, B)

\* The invariant of what is counted.
CountedInv == PoisonedInv /\ \A t \in Threads : CountedOnce(t)

\* What is tracked after a step.
LEMMA TrackedThen ==
  ASSUME NEW t \in Threads, NEW D, NEW B, Entered(t, D)',
         Tallied(B, total'[t], D, D \ ToVisit(t)'),
         Complete(heap', Root'[t], poisoned' \cup changed'[t], D, D \ ToVisit(t)', Known(t)', B),
         changed'[t] = {} => Exact(heap', Root'[t], poisonedBefore'[t], D, B)
  PROVE  Tracked(t, D, B)'
BY DEF Tracked, Tallied, Complete, Exact, Owned, Behind, Gained, Buffers, Span, Closed, Leads,
       Inside, ValueBytes, BufferBytes, Extent, Buffer, ListBytes, TreeBytes, NodeBytes, RoundUp,
       HandleKinds

\* What the history of a thread is.
Chronicle(u) ==
  pc[u] = "sizing" =>
    /\ poisonedBefore'[u] = poisonedBefore[u]
    /\ changed'[u] = IF heap' = heap THEN changed[u] ELSE changed[u] \cup {client.lock}

\* Every step keeps the history.
LEMMA Chronicles ==
  ASSUME [MCNext]_mcvars, NEW u \in Threads
  PROVE  Chronicle(u)
<1>1. CASE MCNext
  BY <1>1 DEF MCNext, Chronicle
<1>2. CASE UNCHANGED mcvars
  BY <1>2 DEF mcvars, vars, Chronicle
<1> QED BY <1>1, <1>2

\* A thread for which nothing changes.
LEMMA SameCounted ==
  ASSUME NEW u \in Threads, CountedOnce(u), heap' = heap, poisoned' = poisoned,
         ToVisit(u)' = ToVisit(u), Known(u)' = Known(u), pc'[u] = pc[u], total'[u] = total[u],
         \A D \in SUBSET Nodes : Entered(u, D) => D \in SUBSET Nodes' /\ Entered(u, D)',
         Chronicle(u)
  PROVE  CountedOnce(u)'
<1>1. CASE pc[u] # "sizing"
  BY <1>1 DEF CountedOnce
<1>2. CASE pc[u] = "sizing"
  <2>1. /\ u \in DOMAIN Root /\ poisonedBefore[u] \subseteq poisoned
        /\ \E D \in SUBSET Nodes : \E B : Tracked(u, D, B)
    BY <1>2 DEF CountedOnce
  <2>2. PICK D, B : D \in SUBSET Nodes /\ Tracked(u, D, B)
    BY <2>1
  <2>3. /\ poisonedBefore'[u] = poisonedBefore[u] /\ changed'[u] = changed[u] /\ Root' = Root
    BY <1>2 DEF Chronicle, Root
  <2>4. /\ Entered(u, D) /\ Tallied(B, total[u], D, D \ ToVisit(u))
        /\ Complete(heap, Root[u], poisoned \cup changed[u], D, D \ ToVisit(u), Known(u), B)
        /\ changed[u] = {} => Exact(heap, Root[u], poisonedBefore[u], D, B)
    BY <2>2 DEF Tracked
  <2>5. D \in SUBSET Nodes' /\ Entered(u, D)'
    BY <2>2, <2>4
  <2>6. Tracked(u, D, B)'
    BY <2>3, <2>4, <2>5, TrackedThen
  <2> QED BY <1>2, <2>1, <2>3, <2>5, <2>6 DEF CountedOnce
<1> QED BY <1>1, <1>2

\* Another thread, at a step that does not change the heap.
LEMMA OtherCounted ==
  ASSUME OwnInv, NEW u \in Threads, CountedOnce(u), Chronicle(u), heap' = heap,
         poisoned' = poisoned, agenda'[u] = agenda[u], context'[u] = context[u],
         pc'[u] = pc[u], total'[u] = total[u],
         \A l \in Nodes : u \in held'[l] <=> u \in held[l]
  PROVE  CountedOnce(u)'
<1>1. InTurn(u) /\ UNCHANGED heap
  BY DEF OwnInv
<1>2. ASSUME NEW D \in SUBSET Nodes, Entered(u, D)
      PROVE  D \in SUBSET Nodes' /\ Entered(u, D)'
  BY <1>1, <1>2, OtherThread
<1>3. ToVisit(u)' = ToVisit(u) /\ Known(u)' = Known(u)
  BY DEF ToVisit, VisitsOf, Nodes, Known
<1> QED BY <1>2, <1>3, SameCounted

\* A measure that begins.
LEMMA StartCounted ==
  ASSUME SizingInv, CountedInv, NEW t \in Threads, Start(t), MCNext
  PROVE  CountedOnce(t)'
<1>1. PICK r : r = Root[t]
  OBVIOUS
<1>2. OwnInv /\ WellOwned(heap) /\ CountedOnce(t)
  BY DEF SizingInv, OwnInv, SizeTypes, CountedInv
<1>3. OwnInv' /\ r \in Nodes /\ ToVisit(t)' = {r} /\ Entered(t, {r})'
  BY <1>1, <1>2, StartOwn
<1>4. /\ pc[t] = "ready" /\ t \in DOMAIN Root /\ UNCHANGED <<heap, context, poisoned>>
      /\ total' = [total EXCEPT ![t] = Value(r).size]
      /\ poisonedBefore'[t] = poisoned
  BY <1>1 DEF Start, MCNext
<1>5. Root' = Root /\ Nodes' = Nodes /\ Known(t)' = {} /\ total'[t] = Value(r).size
  BY <1>2, <1>4 DEF Root, Nodes, Known, CountedOnce, SizingInv, CountInv
<1>6. PICK B, cut, before : /\ B = ValueBytes(heap, r) /\ cut = poisoned' \cup changed'[t]
                            /\ before = poisonedBefore'[t]
  OBVIOUS
<1>7. Value(r).size \in Nat /\ OwnBytes(r) \in Nat
  BY <1>2, <1>3, BytesNat
<1>8. Tallied(B, Value(r).size, {r}, {})
  <2>1. heap.value[r].size \in Nat /\ Buffer(heap.value[r]) \in Nat /\ Value(r) = heap.value[r]
    BY <1>7 DEF Value, OwnBytes, Buffer
  <2> QED BY <1>6, <2>1, BytesAbout DEF Tallied
<1>9. Complete(heap, r, cut, {r}, {}, {}, B)
  BY <1>6 DEF Complete
<1>10. Exact(heap, r, before, {r}, B)
  <2>1. r \in Span(heap, r, before)
    BY <1>2, <1>3, SpanClosed DEF Nodes
  <2>2. B \subseteq Owned(heap, r, before)
    BY <1>6, OwnedPieces
  <2> QED BY <2>1, <2>2 DEF Exact
<1>11. PICK d : d = {r}
  OBVIOUS
<1>12. d \ ToVisit(t)' = {}
  BY <1>3, <1>11
<1>13. Tracked(t, d, B)'
  <2>1. Tallied(B, total'[t], d, d \ ToVisit(t)')
    BY <1>5, <1>8, <1>11, <1>12
  <2>2. Complete(heap', Root'[t], poisoned' \cup changed'[t], d, d \ ToVisit(t)', Known(t)', B)
    BY <1>1, <1>4, <1>5, <1>6, <1>9, <1>11, <1>12
  <2>3. Exact(heap', Root'[t], poisonedBefore'[t], d, B)
    BY <1>1, <1>4, <1>5, <1>6, <1>10, <1>11
  <2>4. Entered(t, d)'
    BY <1>3, <1>11
  <2> QED BY <2>1, <2>2, <2>3, <2>4, TrackedThen
<1>14. d \in SUBSET Nodes' /\ poisonedBefore'[t] \subseteq poisoned' /\ t \in DOMAIN Root'
  BY <1>3, <1>4, <1>5, <1>11
<1> QED BY <1>5, <1>13, <1>14 DEF CountedOnce

\* As long as the heap and the poisoned locks stay the same.
LEMMA PoisonedSame ==
  ASSUME PoisonedInv, heap' = heap, poisoned' = poisoned
  PROVE  PoisonedInv'
<1>1. Locks' = Locks /\ \A v : Inside(heap, v)' = Inside(heap, v)
  BY DEF Locks, Nodes, Value, Inside
<1> QED BY <1>1 DEF PoisonedInv

\* What is counted at a value once is what is owned there, and no more.
LEMMA VisitTracked ==
  ASSUME SizingInv, PoisonedInv, NEW t \in Threads, Chronicle(t), pc[t] = "sizing",
         t \in DOMAIN Root, poisonedBefore[t] \subseteq poisoned,
         NEW w, NEW new, NEW bytes, NEW X, NEW K, NEW Q,
         Enters(t, w, new, bytes, X, K), Counts(t, w, new, bytes, K, Q),
         NEW D \in SUBSET Nodes, NEW B, Tracked(t, D, B)
  PROVE  \E E \in SUBSET Nodes' : \E C : Tracked(t, E, C)'
<1>1. PICK r, cut, before : /\ r = Root[t] /\ cut = poisoned \cup changed[t]
                            /\ before = poisonedBefore[t]
  OBVIOUS
<1>2. PICK N, E : Adds(D, new, N, E)
  BY DEF Adds
<1>3. PICK C : C = (B \cup BufferBytes(heap, w)) \cup Gained(heap, Q)
  OBVIOUS
<1>4. OwnInv /\ SizeTypes /\ WellOwned(heap) /\ r \in Nodes
  BY <1>1 DEF SizingInv, OwnInv, SizeTypes, WellOwned, Root, Nodes
<1>5. Entered(t, D) /\ ToVisit(t) \subseteq D
  BY DEF Tracked, Entered
<1>6. /\ w \in ToVisit(t) /\ w \in Nodes /\ w \in D /\ N \subseteq Inside(heap, w) \ D
      /\ ToVisit(t)' = (ToVisit(t) \ {w}) \cup N
      /\ E \in SUBSET Nodes' /\ Entered(t, E)'
  BY <1>2, <1>4, <1>5, VisitEnters
<1>7. /\ UNCHANGED <<heap, pc, poisoned>> /\ total' = [total EXCEPT ![t] = @ + bytes]
      /\ Known(t)' = K.arc \cup K.rc /\ (N # {} => Value(w).kind # "ref")
  BY <1>2 DEF Enters, Replace, Knows, Known, GoesOn, Adds
<1>8. /\ poisonedBefore'[t] = before /\ changed'[t] = changed[t] /\ Root'[t] = r
  BY <1>1, <1>7 DEF Chronicle, Root
<1>9. /\ Q = IF Value(w).kind \in HandleKinds THEN N ELSE {}
      /\ Q \in {{}, {Pointee(w)}}
      /\ bytes = IF Q = {} THEN OwnBytes(w) ELSE Value(Pointee(w)).size
      /\ Leads(heap, poisoned, w) \subseteq N \cup Known(t)
      /\ K.arc \cup K.rc \subseteq Known(t) \cup Q
      /\ w \in Locks /\ N # {} => w \notin poisoned
  BY <1>2 DEF Counts, Adds
<1>10. PICK V, p : V = D \ ToVisit(t) /\ p = Pointee(w)
  OBVIOUS
<1>11. E = D \cup N /\ E \ ToVisit(t)' = V \cup {w} /\ w \notin V
  BY <1>2, <1>5, <1>6, <1>10 DEF Adds
<1>12. /\ Tallied(B, total[t], D, V) /\ Complete(heap, r, cut, D, V, Known(t), B)
       /\ changed[t] = {} => Exact(heap, r, before, D, B)
  BY <1>1, <1>10 DEF Tracked
<1>13. Buffer(heap.value[w]) = OwnBytes(w) /\ heap.value[w].size = Value(w).size
  BY DEF Buffer, OwnBytes, Value
<1>14. ASSUME NEW x \in Nodes PROVE heap.value[x].size \in Nat /\ Buffer(heap.value[x]) \in Nat
  <2>1. Value(x).size \in Nat /\ OwnBytes(x) \in Nat
    BY <1>4, BytesNat
  <2> QED BY <2>1 DEF Buffer, OwnBytes, Value
<1>15. Q \subseteq N /\ (Q # {} => p \in N /\ p \in Nodes /\ Value(w).kind \in HandleKinds)
  BY <1>4, <1>6, <1>9, <1>10 DEF WellOwned, Nodes
<1>16. Tallied(C, total'[t], E, V \cup {w})
  <2>1. PICK q : q = IF Q = {} THEN 0 ELSE heap.value[p].size
    OBVIOUS
  <2>2. Q # {} => p \notin D /\ heap.value[p].size \in Nat /\ Buffer(heap.value[p]) \in Nat
    BY <1>6, <1>14, <1>15
  <2>3. Tallied(C, total[t] + Buffer(heap.value[w]) + q, E, V \cup {w})
    <3>1. Buffer(heap.value[w]) \in Nat /\ heap.value[w].size \in Nat
      BY <1>6, <1>14
    <3>2. Q \in {{}, {p}} /\ D \subseteq E /\ Q \subseteq E
      BY <1>9, <1>10, <1>11, <1>15
    <3> QED BY <1>3, <1>11, <1>12, <2>1, <2>2, <3>1, <3>2, TalliedThen
  <2>4. total[t] \in Nat /\ total'[t] = total[t] + bytes
    <3>1. total \in [Threads -> Nat]
      BY DEF SizingInv, CountInv
    <3>2. total' = [total EXCEPT ![t] = total[t] + bytes]
      BY <1>7
    <3> QED BY <3>1, <3>2
  <2>5. bytes = Buffer(heap.value[w]) + q
    <3>1. CASE Q = {}
      BY <1>6, <1>9, <1>13, <1>14, <2>1, <3>1
    <3>2. CASE Q # {}
      <4>1. Buffer(heap.value[w]) = 0
        BY <1>15, <3>2 DEF Buffer, HandleKinds, Value
      <4>2. bytes = q /\ q \in Nat
        BY <1>9, <1>10, <2>1, <2>2, <3>2 DEF Value
      <4> QED BY <4>1, <4>2
    <3> QED BY <3>1, <3>2
  <2>6. q \in Nat /\ Buffer(heap.value[w]) \in Nat
    BY <1>6, <1>14, <2>1, <2>2
  <2> QED BY <2>3, <2>4, <2>5, <2>6
<1>17. Complete(heap, r, cut, E, V \cup {w}, Known(t)', C)
  <2>1. Leads(heap, cut, w) \subseteq N \cup Known(t)
    BY <1>1, <1>9 DEF Leads
  <2>2. heap.value[w].kind \in HandleKinds => N \subseteq Q
    BY <1>9 DEF Value
  <2>3. Known(t)' \subseteq Known(t) \cup Q
    BY <1>7, <1>9
  <2>4. Complete(heap, r, cut, D \cup N, V \cup {w}, Known(t)', C)
    BY <1>3, <1>4, <1>12, <1>15, <2>1, <2>2, <2>3, CompleteThen DEF Nodes
  <2> QED BY <1>11, <2>4
<1>18. ASSUME changed[t] = {} PROVE Exact(heap, r, before, E, C)
  <2>1. N \subseteq Leads(heap, before, w)
    BY <1>1, <1>6, <1>7, <1>9 DEF Leads, PoisonedInv, Value
  <2>2. Q # {} => heap.value[w].kind \in HandleKinds
    BY <1>15 DEF Value
  <2>3. Exact(heap, r, before, D \cup N, C)
    BY <1>3, <1>4, <1>6, <1>12, <1>15, <1>18, <2>1, <2>2, ExactThen DEF Nodes
  <2> QED BY <1>11, <2>3
<1>19. Tracked(t, E, C)'
  <2>1. Tallied(C, total'[t], E, E \ ToVisit(t)')
    BY <1>11, <1>16
  <2>2. Complete(heap', Root'[t], poisoned' \cup changed'[t], E, E \ ToVisit(t)', Known(t)', C)
    BY <1>1, <1>7, <1>8, <1>11, <1>17
  <2>3. changed'[t] = {} => Exact(heap', Root'[t], poisonedBefore'[t], E, C)
    BY <1>7, <1>8, <1>18
  <2> QED BY <1>6, <2>1, <2>2, <2>3, TrackedThen
<1> QED BY <1>6, <1>19

\* A visit, of whatever kind.
LEMMA VisitCounted ==
  ASSUME SizingInv, CountedInv, NEW t \in Threads, Sum(t) \/ Box(t) \/ Shared(t) \/ Lock(t),
         \A u \in Threads : Chronicle(u)
  PROVE  CountedInv'
<1>1. OwnInv /\ PoisonedInv /\ \A u \in Threads : CountedOnce(u)
  BY DEF SizingInv, CountedInv
<1>2. PICK w, new, bytes, X, K, Q :
        Enters(t, w, new, bytes, X, K) /\ Counts(t, w, new, bytes, K, Q)
  BY <1>1, SumEnters, SharedEnters, LockEnters
<1>3. /\ agenda' = [agenda EXCEPT ![t] = new \o Tail(@)]
      /\ total' = [total EXCEPT ![t] = @ + bytes] /\ UNCHANGED <<heap, pc, poisoned>>
      /\ X \in {{}, {t}} /\ \A l \in Nodes : held'[l] = IF l = w THEN held[l] \cup X ELSE held[l]
      /\ \A u \in Threads \ {t} : context'[u] = context[u]
  BY <1>2 DEF Enters, Replace, Guards, Knows
<1>4. agenda \in [Threads -> Seq(Items)] /\ total \in [Threads -> Nat]
  BY DEF SizingInv, OwnInv, SizeTypes, CountInv
<1>5. ASSUME NEW u \in Threads, u # t PROVE CountedOnce(u)'
  <2>1. agenda'[u] = agenda[u] /\ total'[u] = total[u]
    BY <1>3, <1>4, <1>5
  <2>2. context'[u] = context[u] /\ pc'[u] = pc[u]
    BY <1>3, <1>5
  <2>3. \A l \in Nodes : u \in held'[l] <=> u \in held[l]
    BY <1>3, <1>5
  <2> QED BY <1>1, <1>3, <2>1, <2>2, <2>3, OtherCounted
<1>6. CountedOnce(t)'
  <2>1. CASE pc[t] = "sizing"
    <3>1. /\ t \in DOMAIN Root /\ poisonedBefore[t] \subseteq poisoned
          /\ \E D \in SUBSET Nodes : \E B : Tracked(t, D, B)
      BY <1>1, <2>1 DEF CountedOnce
    <3>2. PICK D, B : D \in SUBSET Nodes /\ Tracked(t, D, B)
      BY <3>1
    <3>3. \E E \in SUBSET Nodes' : \E C : Tracked(t, E, C)'
      BY <1>1, <1>2, <2>1, <3>1, <3>2, VisitTracked
    <3>4. t \in DOMAIN Root' /\ poisonedBefore'[t] \subseteq poisoned' /\ pc'[t] = "sizing"
      BY <1>3, <2>1, <3>1 DEF Root, Chronicle
    <3> QED BY <3>3, <3>4 DEF CountedOnce
  <2>2. CASE pc[t] = "ready"
    <3>1. PICK D \in SUBSET Nodes : Entered(t, D)
      BY <1>1 DEF OwnInv
    <3>2. PICK N, E : Adds(D, new, N, E)
      BY DEF Adds
    <3>3. w \in ToVisit(t)
      BY <1>1, <1>2, <3>1, <3>2, VisitEnters
    <3> QED BY <2>2, <3>1, <3>3 DEF Entered
  <2>3. CASE pc[t] \notin {"sizing", "ready"}
    BY <1>3, <2>3 DEF CountedOnce
  <2> QED BY <2>1, <2>2, <2>3
<1>7. PoisonedInv'
  BY <1>1, <1>3, PoisonedSame
<1> QED BY <1>5, <1>6, <1>7 DEF CountedInv

\* The other steps of a thread count nothing.
LEMMA StepCounted ==
  ASSUME SizingInv, CountedInv, NEW t \in Threads, Start(t) \/ DropGuard(t) \/ Return(t), MCNext,
         \A u \in Threads : Chronicle(u)
  PROVE  CountedInv'
<1>1. OwnInv /\ PoisonedInv /\ \A u \in Threads : CountedOnce(u)
  BY DEF SizingInv, CountedInv
<1>2. /\ agenda \in [Threads -> Seq(Items)] /\ total \in [Threads -> Nat]
      /\ pc \in [Threads -> {"ready", "sizing", "done"}]
      /\ held \in [Nodes -> SUBSET (Threads \cup {Client})]
  BY DEF SizingInv, OwnInv, SizeTypes, CountInv
<1>3. heap' = heap /\ poisoned' = poisoned /\ context' = context
  BY DEF Start, DropGuard, Return, Replace
<1>4. ASSUME NEW u \in Threads, u # t PROVE CountedOnce(u)'
  <2>1. agenda'[u] = agenda[u] /\ total'[u] = total[u] /\ pc'[u] = pc[u]
    <3>1. CASE Start(t)
      BY <1>2, <1>4, <3>1 DEF Start
    <3>2. CASE DropGuard(t)
      BY <1>2, <1>4, <3>2 DEF DropGuard, Replace
    <3>3. CASE Return(t)
      BY <1>2, <1>4, <3>3 DEF Return
    <3> QED BY <3>1, <3>2, <3>3
  <2>2. \A l \in Nodes : u \in held'[l] <=> u \in held[l]
    <3>1. CASE DropGuard(t)
      BY <1>2, <1>4, <3>1 DEF DropGuard
    <3>2. CASE Start(t) \/ Return(t)
      BY <3>2 DEF Start, Return
    <3> QED BY <3>1, <3>2
  <2> QED BY <1>1, <1>3, <2>1, <2>2, OtherCounted
<1>5. CountedOnce(t)'
  <2>1. CASE Start(t)
    BY <2>1, StartCounted
  <2>2. CASE DropGuard(t)
    <3>1. /\ ToVisit(t)' = ToVisit(t)
          /\ \A D \in SUBSET Nodes : Entered(t, D) => D \in SUBSET Nodes' /\ Entered(t, D)'
      BY <1>1, <2>2, DropGuardOwn
    <3>2. pc' = pc /\ total' = [total EXCEPT ![t] = @ + 0]
      BY <2>2 DEF DropGuard, Replace
    <3>3. pc'[t] = pc[t] /\ total'[t] = total[t] /\ Known(t)' = Known(t)
      BY <1>2, <1>3, <3>2 DEF Known
    <3> QED BY <1>1, <1>3, <3>1, <3>3, SameCounted
  <2>3. CASE Return(t)
    <3>1. pc'[t] = "done"
      BY <1>2, <2>3 DEF Return
    <3> QED BY <3>1 DEF CountedOnce
  <2> QED BY <2>1, <2>2, <2>3
<1>6. PoisonedInv'
  BY <1>1, <1>3, PoisonedSame
<1> QED BY <1>4, <1>5, <1>6 DEF CountedInv

\* The client asks for a lock, or is given it, or nothing happens.
LEMMA AskCounted ==
  ASSUME SizingInv, CountedInv,
         (\E l \in Locks : ClientWait(l)) \/ ClientLock \/ UNCHANGED vars,
         \A u \in Threads : Chronicle(u)
  PROVE  CountedInv'
<1>1. OwnInv /\ PoisonedInv /\ \A u \in Threads : CountedOnce(u)
  BY DEF SizingInv, CountedInv
<1>2. /\ held \in [Nodes -> SUBSET (Threads \cup {Client})]
      /\ client \in [pc : {"idle"}, uses : Nat]
                      \cup [pc : {"waiting", "holding"}, uses : Nat, lock : Locks]
  BY DEF SizingInv, OwnInv, SizeTypes
<1>3. heap' = heap /\ poisoned' = poisoned /\ UNCHANGED threadVars
  BY DEF ClientWait, ClientLock, vars
<1>4. ASSUME NEW u \in Threads, NEW l \in Nodes PROVE u \in held'[l] <=> u \in held[l]
  <2>1. CASE ClientLock
    <3>1. held[client.lock] = {} /\ held' = [held EXCEPT ![client.lock] = {Client}]
      BY <2>1 DEF ClientLock
    <3> QED BY <1>2, <3>1
  <2>2. CASE held' = held
    BY <2>2
  <2> QED BY <2>1, <2>2 DEF ClientWait, vars
<1>5. ASSUME NEW u \in Threads PROVE CountedOnce(u)'
  BY <1>1, <1>3, <1>4, OtherCounted DEF threadVars
<1>6. PoisonedInv'
  BY <1>1, <1>3, PoisonedSame
<1> QED BY <1>5, <1>6 DEF CountedInv

\* What is spared lasts, but for what is behind the lock.
LEMMA SparedLasts ==
  ASSUME WellOwned(heap), NEW l \in Locks, NEW A \in SUBSET Nodes, NEW k, Spared(l, A, k),
         NEW later, l \in later
  PROVE  Lasts(heap, k, later, A)
<1>1. ASSUME NEW u \in A
      PROVE  /\ k.value[u].kind = heap.value[u].kind /\ k.value[u].size = heap.value[u].size
             /\ u # l => /\ k.value[u] = heap.value[u] /\ Inside(k, u) = Inside(heap, u)
                         /\ heap.value[u].kind # "ref" => Inside(heap, u) \subseteq A
  BY DEF Spared, Value
<1>2. heap.value[l].kind \in {"mutex", "rwlock"}
  BY DEF Locks, Value
<1>3. ASSUME NEW u \in A PROVE Buffer(k.value[u]) = Buffer(heap.value[u])
  <2>1. CASE u # l
    BY <1>1, <2>1
  <2>2. CASE u = l
    BY <1>1, <1>2, <2>2 DEF Buffer
  <2> QED BY <2>1, <2>2
<1> QED BY <1>1, <1>3 DEF Lasts

\* The client releases its lock, with something changed behind it or not.
LEMMA UnlockCounted ==
  ASSUME SizingInv, CountedInv, ClientUnlock, \A u \in Threads : Chronicle(u)
  PROVE  CountedInv'
<1>1. OwnInv /\ PoisonedInv /\ SizeTypes /\ \A u \in Threads : CountedOnce(u)
  BY DEF SizingInv, CountedInv, OwnInv
<1>2. PICK l, k : l = client.lock /\ k = heap'
  OBVIOUS
<1>3. /\ client.pc = "holding" /\ held' = [held EXCEPT ![l] = {}]
      /\ k \in {heap} \cup Changes(l) /\ UNCHANGED threadVars
      /\ poisoned \subseteq poisoned' /\ poisoned' \subseteq poisoned \cup {l}
  BY <1>2 DEF ClientUnlock
<1>4. /\ l \in Locks /\ l \in Nodes /\ held[l] = {Client} /\ WellOwned(heap)
      /\ held \in [Nodes -> SUBSET (Threads \cup {Client})]
  BY <1>1, <1>2, <1>3 DEF SizeTypes, Locks
<1>5. Keeps(heap, k)
  BY <1>3, <1>4, ChangesKeep
<1>6. k.root = heap.root /\ KeepsKinds(k) /\ \E A \in SUBSET Nodes : Spared(l, A, k)
  BY <1>1, <1>2, <1>3, ChangesSpare
<1>7. WellOwned(k) /\ DOMAIN k.value = DOMAIN heap.value /\ Nodes' = Nodes /\ Root' = Root
  BY <1>2, <1>5, <1>6 DEF Keeps, Nodes, Root
<1>8. PICK A \in SUBSET Nodes : Spared(l, A, k)
  BY <1>6
<1>9. ASSUME NEW u \in Threads PROVE CountedOnce(u)'
  <2>1. pc'[u] = pc[u] /\ Known(u)' = Known(u) /\ ToVisit(u)' = ToVisit(u) /\ total'[u] = total[u]
    BY <1>3, <1>7 DEF threadVars, Known, ToVisit, VisitsOf
  <2>2. CASE pc[u] # "sizing"
    BY <1>1, <2>1, <2>2 DEF CountedOnce
  <2>3. CASE pc[u] = "sizing"
    <3>1. /\ u \in DOMAIN Root /\ poisonedBefore[u] \subseteq poisoned
          /\ \E D \in SUBSET Nodes : \E B : Tracked(u, D, B)
      BY <1>1, <2>3 DEF CountedOnce
    <3>2. PICK D, B : D \in SUBSET Nodes /\ Tracked(u, D, B)
      BY <3>1
    <3>3. PICK r, cut, later : /\ r = Root[u] /\ cut = poisoned \cup changed[u]
                               /\ later = poisoned' \cup changed'[u]
      OBVIOUS
    <3>4. /\ poisonedBefore'[u] = poisonedBefore[u]
          /\ changed'[u] = IF k = heap THEN changed[u] ELSE changed[u] \cup {l}
      BY <1>2, <2>3 DEF Chronicle
    <3>5. cut \subseteq later
      BY <1>3, <3>3, <3>4
    <3>6. D \in SUBSET Nodes' /\ Entered(u, D)'
      <4>1. \A m \in Nodes : u \in held'[m] <=> u \in held[m]
        BY <1>3, <1>4
      <4>2. InTurn(u) /\ Entered(u, D)
        BY <1>1, <3>2 DEF OwnInv, Tracked
      <4> QED BY <1>1, <1>2, <1>3, <1>5, <3>2, <4>1, <4>2, ThreadMeanwhile
    <3>7. /\ Tallied(B, total[u], D, D \ ToVisit(u))
          /\ Complete(heap, r, cut, D, D \ ToVisit(u), Known(u), B)
          /\ changed[u] = {} => Exact(heap, r, poisonedBefore[u], D, B)
      BY <3>2, <3>3 DEF Tracked
    <3>8. Complete(k, r, later, D, D \ ToVisit(u), Known(u), B)
      <4>1. \E P \in SUBSET DOMAIN heap.value : r \in P /\ Lasts(heap, k, later, P)
        <5>1. CASE k = heap
          <6>1. r \in Nodes /\ \A v \in Nodes : Inside(heap, v) \subseteq Nodes
            BY <1>4, <3>1, <3>3 DEF WellOwned, Nodes, Root
          <6>2. Lasts(heap, k, later, Nodes)
            BY <5>1, <6>1 DEF Lasts
          <6> QED BY <6>1, <6>2 DEF Nodes
        <5>2. CASE k # heap
          <6>1. l \in later
            BY <3>3, <3>4, <5>2
          <6>2. Lasts(heap, k, later, A) /\ r \in A
            BY <1>4, <1>8, <3>1, <3>3, <6>1, SparedLasts DEF Spared
          <6> QED BY <6>2 DEF Nodes
        <5> QED BY <5>1, <5>2
      <4>2. PICK P \in SUBSET DOMAIN heap.value : r \in P /\ Lasts(heap, k, later, P)
        BY <4>1
      <4> QED BY <1>4, <1>7, <3>5, <3>7, <4>2, CompleteLater
    <3>9. changed'[u] = {} => changed[u] = {} /\ k = heap
      BY <3>4
    <3>10. Tracked(u, D, B)'
      <4>1. Tallied(B, total'[u], D, D \ ToVisit(u)')
        BY <2>1, <3>7
      <4>2. Complete(heap', Root'[u], poisoned' \cup changed'[u], D, D \ ToVisit(u)', Known(u)', B)
        BY <1>2, <1>7, <2>1, <3>3, <3>8
      <4>3. changed'[u] = {} => Exact(heap', Root'[u], poisonedBefore'[u], D, B)
        BY <1>2, <1>7, <3>3, <3>4, <3>7, <3>9
      <4> QED BY <3>6, <4>1, <4>2, <4>3, TrackedThen
    <3>11. u \in DOMAIN Root' /\ poisonedBefore'[u] \subseteq poisoned'
      BY <1>3, <1>7, <3>1, <3>4
    <3> QED BY <2>1, <2>3, <3>6, <3>10, <3>11 DEF CountedOnce
  <2> QED BY <2>2, <2>3
<1>10. PoisonedInv'
  <2>1. ASSUME NEW v \in poisoned'
        PROVE  v \in Locks' \/ Inside(k, v) = {}
    <3>1. v \in Nodes /\ (v \in Locks \/ Inside(heap, v) = {})
      BY <1>1, <1>3, <1>4 DEF PoisonedInv, SizingInv, CountInv
    <3>2. CASE k.value[v].kind = "leaf" /\ Inside(k, v) = {}
      BY <3>2
    <3>3. CASE k.value[v].kind = Value(v).kind
      <4>1. CASE v \in Locks
        BY <1>2, <1>7, <3>3, <4>1 DEF Locks, Value
      <4>2. CASE Inside(heap, v) = {}
        <5>1. Value(v).kind # "arc"
          BY <1>4, <3>1, <4>2, VisitsOfParts
        <5> QED BY <1>5, <3>1, <3>3, <4>2, <5>1 DEF Keeps, Nodes, Value
      <4> QED BY <3>1, <4>1, <4>2
    <3> QED BY <1>6, <3>1, <3>2, <3>3 DEF KeepsKinds
  <2>2. \A v : Inside(heap, v)' = Inside(k, v)
    BY <1>2 DEF Inside
  <2> QED BY <2>1, <2>2 DEF PoisonedInv
<1> QED BY <1>9, <1>10 DEF CountedInv
-----------------------------------------------------------------------------
\* The invariant of the whole.
SizedInv == SizingInv /\ CountedInv

\* Before any measure.
LEMMA SizedInit ==
  ASSUME MCInit
  PROVE  SizedInv
<1>1. SizingInv
  BY SizingInit DEF MCInit
<1>2. poisoned = {} /\ \A t \in Threads : pc[t] = "ready" /\ Known(t) = {}
  BY DEF MCInit, Init, Known, NoContext
<1> QED BY <1>1, <1>2 DEF SizedInv, CountedInv, PoisonedInv, CountedOnce

\* Every step keeps the invariant.
LEMMA SizedNext ==
  ASSUME SizedInv, [MCNext]_mcvars
  PROVE  SizedInv'
<1>1. SizingInv /\ CountedInv /\ \A u \in Threads : Chronicle(u)
  BY Chronicles DEF SizedInv
<1>2. [Next]_vars
  BY DEF MCNext, mcvars
<1>3. SizingInv'
  BY <1>1, <1>2, SizingNext
<1>4. CountedInv'
  <2>1. CASE UNCHANGED mcvars
    BY <1>1, <2>1, AskCounted DEF mcvars
  <2>2. CASE MCNext
    <3>1. CASE \E t \in Threads : Start(t) \/ Step(t)
      <4>1. PICK t \in Threads : Start(t) \/ Step(t)
        BY <3>1
      <4>2. CASE Sum(t) \/ Box(t) \/ Shared(t) \/ Lock(t)
        BY <1>1, <4>2, VisitCounted
      <4>3. CASE Start(t) \/ DropGuard(t) \/ Return(t)
        BY <1>1, <2>2, <4>3, StepCounted
      <4> QED BY <4>1, <4>2, <4>3 DEF Step
    <3>2. CASE (\E l \in Locks : ClientWait(l)) \/ ClientLock
      BY <1>1, <3>2, AskCounted
    <3>3. CASE ClientUnlock
      BY <1>1, <3>3, UnlockCounted
    <3> QED BY <2>2, <3>1, <3>2, <3>3 DEF MCNext, Next
  <2> QED BY <2>1, <2>2
<1> QED BY <1>3, <1>4 DEF SizedInv

\* When nothing is left to visit, the bytes counted are those that are owned.
LEMMA SizedMeans ==
  ASSUME SizedInv
  PROVE  CountsEachOnce
<1>1. /\ SizingInv /\ CountedInv /\ WellOwned(heap) /\ IsFiniteSet(Nodes)
  <2>1. WellOwned(heap)
    BY DEF SizedInv, SizingInv, OwnInv, SizeTypes
  <2>2. Nodes = 1 .. Len(heap.value) /\ Len(heap.value) \in Nat
    BY <2>1, LenProperties DEF WellOwned, Nodes
  <2> QED BY <2>1, <2>2, FS_Interval DEF SizedInv
<1>2. ASSUME NEW t \in Threads, pc[t] = "sizing", agenda[t] = << >>
      PROVE  /\ total[t] >= Measure(Root[t], poisoned \cup changed[t])
             /\ changed[t] = {} => total[t] <= Measure(Root[t], poisonedBefore[t])
  <2>1. PICK r, cut, before : /\ r = Root[t] /\ cut = poisoned \cup changed[t]
                              /\ before = poisonedBefore[t]
    OBVIOUS
  <2>2. t \in DOMAIN Root /\ \E D \in SUBSET Nodes : \E B : Tracked(t, D, B)
    BY <1>1, <1>2 DEF CountedInv, CountedOnce
  <2>3. PICK D, B : D \in SUBSET Nodes /\ Tracked(t, D, B)
    BY <2>2
  <2>4. ToVisit(t) = {} /\ D \ ToVisit(t) = D
    BY <1>2 DEF ToVisit, VisitsOf
  <2>5. /\ Tallied(B, total[t], D, D) /\ Complete(heap, r, cut, D, D, Known(t), B)
        /\ changed[t] = {} => Exact(heap, r, before, D, B)
    BY <2>1, <2>3, <2>4 DEF Tracked
  <2>6. r \in Nodes
    BY <1>1, <2>1, <2>2 DEF WellOwned, Root, Nodes
  <2>7. IsFiniteSet(B) /\ Cardinality(B) = total[t]
    BY <2>5 DEF Tallied
  <2>8. total[t] >= Measure(r, cut)
    <3>1. Owned(heap, r, cut) \subseteq B
      BY <1>1, <2>3, <2>5, <2>6, AllCounted DEF Nodes
    <3>2. Memory(r, cut) \subseteq B
      BY <1>1, <2>6, <3>1, MemoryOwned
    <3>3. Cardinality(Memory(r, cut)) <= Cardinality(B) /\ IsFiniteSet(Memory(r, cut))
      BY <2>7, <3>2, FS_Subset
    <3>4. Cardinality(Memory(r, cut)) \in Nat /\ Cardinality(B) \in Nat
      BY <2>7, <3>3, FS_CardinalityType
    <3> QED BY <2>7, <3>3, <3>4 DEF Measure
  <2>9. ASSUME changed[t] = {} PROVE total[t] <= Measure(r, before)
    <3>1. B \subseteq Owned(heap, r, before)
      BY <2>5, <2>9 DEF Exact
    <3>2. B \subseteq Memory(r, before) /\ IsFiniteSet(Memory(r, before))
      BY <1>1, <2>6, <3>1, MemoryOwned
    <3>3. Cardinality(B) <= Cardinality(Memory(r, before))
      BY <3>2, FS_Subset
    <3> QED BY <2>7, <3>3 DEF Measure
  <2> QED BY <2>1, <2>8, <2>9
<1> QED BY <1>2 DEF CountsEachOnce

\* A measure returns what is owned, each Arc and Rc counted once, however many handles
\* lead to it and whatever the client does meanwhile
\* (deepsize.rs:145-151, 160-178, 372-402, default_impls.rs:172-187).
THEOREM EachIsCountedOnce == MCSpec => []CountsEachOnce
<1>1. MCInit => SizedInv
  BY SizedInit
<1>2. SizedInv /\ [MCNext]_mcvars => SizedInv'
  BY SizedNext
<1>3. SizedInv => CountsEachOnce
  BY SizedMeans
<1> QED BY <1>1, <1>2, <1>3, PTL DEF MCSpec
=============================================================================
