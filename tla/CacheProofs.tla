---------------------------- MODULE CacheProofs -----------------------------
(* The locks of the cache, for every number of threads and shards and every *)
(* depth of user code: each lock is held for an effect still to come, hooks *)
(* run last, and a Guard pins its shard.                                    *)
EXTENDS Cache, AccountingProofs, SequenceTheorems

USE ThreadsAssumption, KeysAssumption, ParametersAssumption
-----------------------------------------------------------------------------
(* Sequences of effects: how many of them release a lock.                   *)

\* Finitely many effects of a sequence release a lock.
LEMMA OwingType ==
  ASSUME NEW S, NEW e \in Seq(S), NEW s
  PROVE  /\ IsFiniteSet(Owing(e, s))
         /\ Cardinality(Owing(e, s)) \in Nat
         /\ Owing(e, s) \subseteq 1 .. Len(e)
<1>1. DOMAIN e = 1 .. Len(e) /\ Len(e) \in Nat
  BY LenProperties
<1>2. IsFiniteSet(1 .. Len(e))
  BY <1>1, FS_Interval
<1>3. Owing(e, s) \in SUBSET (1 .. Len(e))
  BY <1>1 DEF Owing
<1> QED BY <1>2, <1>3, FS_Subset, FS_CardinalityType

\* Two sequences in a row release what both release.
LEMMA OwingConcat ==
  ASSUME NEW S, NEW a \in Seq(S), NEW b \in Seq(S), NEW s
  PROVE  Cardinality(Owing(a \o b, s))
           = Cardinality(Owing(a, s)) + Cardinality(Owing(b, s))
<1> DEFINE n == Len(a)
           shift == [i \in Owing(b, s) |-> i + n]
           moved == {i + n : i \in Owing(b, s)}
<1>1. /\ DOMAIN a = 1 .. n /\ DOMAIN b = 1 .. Len(b)
      /\ DOMAIN (a \o b) = 1 .. n + Len(b)
      /\ n \in Nat /\ Len(b) \in Nat
      /\ \A i \in 1 .. n : (a \o b)[i] = a[i]
      /\ \A i \in 1 .. Len(b) : (a \o b)[i + n] = b[i]
  BY LenProperties, ConcatProperties
<1>2. Owing(a \o b, s) = Owing(a, s) \cup moved
  <2>1. ASSUME NEW i \in Owing(a \o b, s) PROVE i \in Owing(a, s) \cup moved
    <3>1. CASE i \in 1 .. n
      BY <1>1, <2>1, <3>1 DEF Owing
    <3>2. CASE i \notin 1 .. n
      <4>1. i - n \in 1 .. Len(b) /\ i = (i - n) + n
        BY <1>1, <2>1, <3>2 DEF Owing
      <4>2. b[i - n] = (a \o b)[i]
        BY <1>1, <4>1
      <4> QED BY <1>1, <2>1, <4>1, <4>2 DEF Owing
    <3> QED BY <3>1, <3>2
  <2>2. ASSUME NEW i \in Owing(a, s) PROVE i \in Owing(a \o b, s)
    BY <1>1, <2>2 DEF Owing
  <2>3. ASSUME NEW i \in Owing(b, s) PROVE i + n \in Owing(a \o b, s)
    BY <1>1, <2>3 DEF Owing
  <2> QED BY <2>1, <2>2, <2>3
<1>3. Owing(a, s) \cap moved = {}
  BY <1>1 DEF Owing
<1>4. shift \in Bijection(Owing(b, s), moved)
  <2>1. \A i, j \in Owing(b, s) : i + n = j + n => i = j
    BY <1>1, OwingType
  <2> QED BY <2>1 DEF Bijection, Injection, Surjection, IsInjective
<1>5. IsFiniteSet(moved) /\ Cardinality(moved) = Cardinality(Owing(b, s))
  BY <1>4, OwingType, FS_Bijection DEF ExistsBijection
<1>6. Cardinality(Owing(a, s) \cap moved) = 0
  BY <1>3, FS_EmptySet
<1>7. /\ IsFiniteSet(Owing(a, s))
      /\ Cardinality(Owing(a, s)) \in Nat /\ Cardinality(Owing(b, s)) \in Nat
  BY OwingType
<1> HIDE DEF moved
<1>8. Cardinality(Owing(a, s) \cup moved)
        = Cardinality(Owing(a, s)) + Cardinality(moved)
            - Cardinality(Owing(a, s) \cap moved)
  BY <1>5, <1>7, FS_Union
<1> QED BY <1>2, <1>5, <1>6, <1>7, <1>8

\* Effects none of which is the dropping of a lock on s release none.
LEMMA OwingNone ==
  ASSUME NEW S, NEW e \in Seq(S), NEW s,
         \A i \in 1 .. Len(e) : e[i] \notin {Unlock(s), Guard(s)}
  PROVE  Owing(e, s) = {} /\ Cardinality(Owing(e, s)) = 0
<1>1. Owing(e, s) = {}
  BY LenProperties DEF Owing
<1> QED BY <1>1, FS_EmptySet

\* A single effect releases one lock at most.
LEMMA OwingOne ==
  ASSUME NEW x, NEW s
  PROVE  Cardinality(Owing(<<x>>, s)) = IF x \in {Unlock(s), Guard(s)} THEN 1 ELSE 0
<1>1. CASE x \in {Unlock(s), Guard(s)}
  <2>1. Owing(<<x>>, s) = {1}
    BY <1>1 DEF Owing
  <2> QED BY <1>1, <2>1, FS_Singleton
<1>2. CASE x \notin {Unlock(s), Guard(s)}
  <2>1. Owing(<<x>>, s) = {}
    BY <1>2 DEF Owing
  <2> QED BY <1>2, <2>1, FS_EmptySet
<1> QED BY <1>1, <1>2

\* A sequence that is not empty is its head and its tail.
LEMMA HeadThenTail ==
  ASSUME NEW S, NEW e \in Seq(S), e # << >>
  PROVE  /\ e = <<Head(e)>> \o Tail(e)
         /\ Head(e) = e[1] /\ Head(e) \in S /\ <<Head(e)>> \in Seq(S)
         /\ Tail(e) \in Seq(S) /\ Len(e) \in Nat \ {0} /\ Len(Tail(e)) = Len(e) - 1
         /\ \A i \in 1 .. Len(e) - 1 : Tail(e)[i] = e[i + 1]
<1>1. Len(e) \in Nat \ {0}
  BY EmptySeq, LenProperties
<1>2. Head(e) \in S /\ Tail(e) \in Seq(S) /\ Len(Tail(e)) = Len(e) - 1
  BY HeadTailProperties
<1>3. <<Head(e)>> \in Seq(S) /\ Len(<<Head(e)>>) = 1 /\ <<Head(e)>>[1] = Head(e)
  BY <1>2
<1>4. \A i \in 1 .. Len(e) - 1 : Tail(e)[i] = e[i + 1]
  BY <1>2, HeadTailProperties
<1>5. Head(e) = e[1]
  BY <1>1
<1>6. e = <<Head(e)>> \o Tail(e)
  <2> DEFINE h == <<Head(e)>>
             r == Tail(e)
  <2>1. /\ h \o r \in Seq(S) /\ Len(h \o r) = 1 + Len(r)
        /\ \A i \in 1 .. 1 + Len(r) : (h \o r)[i] = IF i <= 1 THEN h[i] ELSE r[i - 1]
    BY <1>2, <1>3, ConcatProperties
  <2>2. Len(h \o r) = Len(e)
    BY <1>1, <1>2, <2>1
  <2>3. \A i \in 1 .. Len(e) : e[i] = (h \o r)[i]
    <3> TAKE i \in 1 .. Len(e)
    <3>1. CASE i = 1
      BY <1>1, <1>2, <1>3, <1>5, <2>1, <3>1
    <3>2. CASE i # 1
      <4>1. i - 1 \in 1 .. Len(e) - 1 /\ (h \o r)[i] = r[i - 1]
        BY <1>1, <1>2, <2>1, <3>2
      <4>2. r[i - 1] = e[(i - 1) + 1]
        BY <1>4, <4>1
      <4> QED BY <1>1, <4>1, <4>2
    <3> QED BY <3>1, <3>2
  <2> HIDE DEF h, r
  <2>4. e = h \o r
    BY <2>1, <2>2, <2>3, SeqEqual
  <2> QED BY <2>4 DEF h, r
<1> QED BY <1>1, <1>2, <1>3, <1>4, <1>5, <1>6
-----------------------------------------------------------------------------
(* The order of the effects.                                                *)

\* What is left of a sequence of effects in turn is in turn, and releases what
\* the part in front does not.
LEMMA SuffixInTurn ==
  ASSUME NEW S, NEW e \in Seq(S), NEW end \in 1 .. Len(e) + 1, InTurn(e)
  PROVE  /\ SubSeq(e, end, Len(e)) \in Seq(S)
         /\ InTurn(SubSeq(e, end, Len(e)))
         /\ \A i \in DOMAIN SubSeq(e, end, Len(e)) :
              i + end - 1 \in DOMAIN e /\ SubSeq(e, end, Len(e))[i] = e[i + end - 1]
<1> DEFINE r == SubSeq(e, end, Len(e))
<1>1. Len(e) \in Nat /\ DOMAIN e = 1 .. Len(e) /\ end \in Int
  BY LenProperties
<1>2. \A i \in end .. Len(e) : e[i] \in S
  BY <1>1, ElementOfSeq
<1>3. r \in Seq(S) /\ \A i \in 1 .. Len(e) - end + 1 : r[i] = e[end + i - 1]
  BY <1>1, <1>2, SubSeqProperties
<1>4. DOMAIN r = 1 .. Len(e) - end + 1
  <2>1. Len(r) = IF end <= Len(e) THEN Len(e) - end + 1 ELSE 0
    BY <1>1, <1>2, SubSeqProperties
  <2>2. Len(r) = Len(e) - end + 1
    BY <1>1, <2>1
  <2> QED BY <1>3, <2>2, LenProperties
<1> HIDE DEF r
<1>5. \A i \in DOMAIN r : i + end - 1 \in DOMAIN e /\ r[i] = e[i + end - 1]
  BY <1>1, <1>3, <1>4
<1>6. InTurn(r)
  <2> SUFFICES ASSUME NEW i \in DOMAIN r
               PROVE  /\ r[i].do \notin {"add", "reset", "unlock"} =>
                           \A j \in DOMAIN r : i < j => r[j].do \in {"hook", "hooks", "guard"}
                      /\ r[i].do \in {"insert", "remove", "clear"} /\ r[i].waits =>
                           i = 1 /\ (r[i].do = "clear" => r[i].next < ShardCount)
                      /\ r[i].do = "clear" => Len(r[i].entries) <= r[i].next
    BY DEF InTurn
  <2>1. PICK o \in DOMAIN e : o = i + end - 1 /\ r[i] = e[o]
    BY <1>5
  <2>2. r[i].do = "clear" => Len(r[i].entries) <= r[i].next
    BY <2>1 DEF InTurn
  <2>3. ASSUME r[i].do \in {"insert", "remove", "clear"}, r[i].waits
        PROVE  i = 1 /\ (r[i].do = "clear" => r[i].next < ShardCount)
    <3>1. o = 1 /\ (r[i].do = "clear" => r[i].next < ShardCount)
      BY <2>1, <2>3 DEF InTurn
    <3> QED BY <1>1, <1>4, <2>1, <3>1
  <2>4. ASSUME r[i].do \notin {"add", "reset", "unlock"}, NEW j \in DOMAIN r, i < j
        PROVE  r[j].do \in {"hook", "hooks", "guard"}
    <3>1. j + end - 1 \in DOMAIN e /\ r[j] = e[j + end - 1] /\ o < j + end - 1
      BY <1>1, <1>4, <1>5, <2>1, <2>4
    <3> QED BY <2>1, <2>4, <3>1 DEF InTurn
  <2> QED BY <2>2, <2>3, <2>4
<1> QED BY <1>3, <1>5, <1>6 DEF r

\* What a frame has left after its first effect is still in turn; nothing but
\* user code is left once that effect is not an update or an unlock.
LEMMA TailInTurn ==
  ASSUME NEW S, NEW e \in Seq(S), e # << >>, InTurn(e)
  PROVE  /\ InTurn(Tail(e))
         /\ e[1].do \notin {"add", "reset", "unlock"} =>
              \A i \in DOMAIN Tail(e) : Tail(e)[i].do \in {"hook", "hooks", "guard"}
<1>1. Tail(e) = SubSeq(e, 2, Len(e)) /\ Len(e) \in Nat \ {0}
  BY HeadThenTail, TailIsSubSeq
<1>2. DOMAIN e = 1 .. Len(e)
  BY <1>1, LenProperties
<1>3. /\ InTurn(Tail(e))
      /\ \A i \in DOMAIN Tail(e) : i + 2 - 1 \in DOMAIN e /\ Tail(e)[i] = e[i + 2 - 1]
  <2>1. PICK end \in 1 .. Len(e) + 1 : end = 2
    BY <1>1
  <2>2. /\ InTurn(SubSeq(e, end, Len(e)))
        /\ \A i \in DOMAIN SubSeq(e, end, Len(e)) :
             i + end - 1 \in DOMAIN e /\ SubSeq(e, end, Len(e))[i] = e[i + end - 1]
    BY SuffixInTurn
  <2> QED BY <1>1, <2>1, <2>2
<1>4. DOMAIN Tail(e) = 1 .. Len(Tail(e)) /\ 1 \in DOMAIN e
  BY <1>1, <1>2, HeadThenTail, LenProperties
<1>5. ASSUME e[1].do \notin {"add", "reset", "unlock"}, NEW i \in DOMAIN Tail(e)
      PROVE  Tail(e)[i].do \in {"hook", "hooks", "guard"}
  <2>1. i + 1 \in DOMAIN e /\ Tail(e)[i] = e[i + 1] /\ 1 < i + 1
    BY <1>3, <1>4, <1>5
  <2> QED BY <1>4, <1>5, <2>1 DEF InTurn
<1> QED BY <1>3, <1>5

\* Effects in turn, in front of user code, are in turn.
LEMMA ConcatInTurn ==
  ASSUME NEW S, NEW a \in Seq(S), NEW b \in Seq(S), InTurn(a), InTurn(b),
         \A i \in DOMAIN b : b[i].do \in {"hook", "hooks", "guard"}
  PROVE  InTurn(a \o b)
<1> DEFINE c == a \o b
           n == Len(a)
<1>1. /\ DOMAIN a = 1 .. n /\ DOMAIN b = 1 .. Len(b)
      /\ n \in Nat /\ Len(b) \in Nat
      /\ DOMAIN c = 1 .. n + Len(b)
      /\ \A i \in 1 .. n + Len(b) : c[i] = IF i <= n THEN a[i] ELSE b[i - n]
  BY LenProperties, ConcatProperties
<1> HIDE DEF c, n
<1> SUFFICES ASSUME NEW i \in DOMAIN c
             PROVE  /\ c[i].do \notin {"add", "reset", "unlock"} =>
                         \A j \in DOMAIN c : i < j => c[j].do \in {"hook", "hooks", "guard"}
                    /\ c[i].do \in {"insert", "remove", "clear"} /\ c[i].waits =>
                         i = 1 /\ (c[i].do = "clear" => c[i].next < ShardCount)
                    /\ c[i].do = "clear" => Len(c[i].entries) <= c[i].next
  BY DEF InTurn, c
<1>2. \A j \in DOMAIN c : j > n => c[j].do \in {"hook", "hooks", "guard"}
  <2> TAKE j \in DOMAIN c
  <2> HAVE j > n
  <2>1. c[j] = b[j - n] /\ j - n \in DOMAIN b
    BY <1>1
  <2> QED BY <2>1
<1>3. CASE i <= n
  <2>1. i \in DOMAIN a /\ c[i] = a[i]
    BY <1>1, <1>3
  <2>2. ASSUME NEW j \in DOMAIN c, i < j, c[i].do \notin {"add", "reset", "unlock"}
        PROVE  c[j].do \in {"hook", "hooks", "guard"}
    <3>1. CASE j <= n
      <4>1. j \in DOMAIN a /\ c[j] = a[j]
        BY <1>1, <3>1
      <4> QED BY <2>1, <2>2, <4>1 DEF InTurn
    <3>2. CASE j > n
      BY <1>2, <3>2
    <3> QED BY <1>1, <3>1, <3>2
  <2> QED BY <2>1, <2>2 DEF InTurn
<1>4. CASE i > n
  <2>1. c[i].do \in {"hook", "hooks", "guard"}
    BY <1>2, <1>4
  <2>2. \A j \in DOMAIN c : i < j => c[j].do \in {"hook", "hooks", "guard"}
    BY <1>1, <1>2, <1>4
  <2> QED BY <2>1, <2>2
<1> QED BY <1>1, <1>3, <1>4
-----------------------------------------------------------------------------
(* The types of the effects.                                                *)

\* Every effect that a method leaves to do is one.
LEMMA EffectTypes ==
  /\ \A c \in Counters, n \in Int : Add(c, n) \in Effects
  /\ \A c \in Metrics : Reset(c) \in Effects
  /\ \A s \in Shards : Unlock(s) \in Effects /\ Guard(s) \in Effects
  /\ \A S \in SUBSET Keys : [do |-> "hooks", keys |-> S] \in Effects
  /\ \A k \in Keys : Hook(k) \in Effects
  /\ Calls \subseteq Effects
<1>1. \A c \in Counters, n \in Int : Add(c, n) \in [do : {"add"}, counter : Counters, by : Int]
  BY DEF Add
<1>2. \A c \in Metrics : Reset(c) \in [do : {"reset"}, counter : Metrics]
  BY DEF Reset
<1>3. \A s \in Shards : Unlock(s) \in [do : {"unlock", "guard"}, shard : Shards]
                        /\ Guard(s) \in [do : {"unlock", "guard"}, shard : Shards]
  BY DEF Unlock, Guard
<1>4. \A S \in SUBSET Keys : [do |-> "hooks", keys |-> S] \in [do : {"hooks"}, keys : SUBSET Keys]
  OBVIOUS
<1>5. \A k \in Keys : Hook(k) \in [do : {"hook"}, key : Keys]
  BY DEF Hook
<1> QED BY <1>1, <1>2, <1>3, <1>4, <1>5 DEF Effects

\* What an effect carries.
LEMMA EffectFields ==
  ASSUME NEW e \in Effects
  PROVE  /\ e.do \in {"insert", "remove", "get", "clear", "add", "reset",
                      "unlock", "guard", "hooks", "hook"}
         /\ e.do \in {"insert", "remove", "get", "hook"} => e.key \in Keys
         /\ e.do = "insert" => e.size \in Sizes /\ e.policy \in Policies
         /\ e.do \in {"insert", "remove", "clear"} => e.waits \in BOOLEAN
         /\ e.do = "clear" => e.next \in 0 .. ShardCount
         /\ e.do = "add" => e.counter \in Counters /\ e.by \in Int
         /\ e.do = "reset" => e.counter \in Metrics
         /\ e.do \in {"unlock", "guard"} => e.shard \in Shards
         /\ e.do = "hooks" => e.keys \in SUBSET Keys
<1>1. e.do \in {"insert", "remove", "get", "clear", "add", "reset",
              "unlock", "guard", "hooks", "hook"}
  BY DEF Effects, Calls
<1>2. e.do \in {"insert", "remove", "get", "hook"} => e.key \in Keys
  BY DEF Effects, Calls
<1>3. e.do = "insert" => e.size \in Sizes /\ e.policy \in Policies
  BY DEF Effects, Calls
<1>4. e.do \in {"insert", "remove", "clear"} => e.waits \in BOOLEAN
  BY DEF Effects, Calls
<1>5. e.do = "clear" => e.next \in 0 .. ShardCount
  <2> SUFFICES ASSUME e.do = "clear" PROVE e.next \in 0 .. ShardCount
    OBVIOUS
  <2> DEFINE E == UNION {[1 .. n -> [do : {"hooks"}, keys : SUBSET Keys]]
                           : n \in 0 .. ShardCount}
  <2>1. \/ e \in [do : {"clear"}, next : {0}, entries : {<< >>}, waits : {FALSE}]
        \/ e \in [do : {"clear"}, next : 0 .. ShardCount, waits : BOOLEAN, entries : E]
    <3> HIDE DEF E
    <3>1. e \in Calls \/ e \in [do : {"clear"}, next : 0 .. ShardCount, waits : BOOLEAN,
                                entries : E]
      BY DEF Effects, E
    <3> QED BY <3>1 DEF Calls
  <2> HIDE DEF E
  <2>2. CASE e \in [do : {"clear"}, next : {0}, entries : {<< >>}, waits : {FALSE}]
    <3>1. e.next = 0
      BY <2>2
    <3> QED BY <3>1
  <2>3. CASE e \in [do : {"clear"}, next : 0 .. ShardCount, waits : BOOLEAN, entries : E]
    BY <2>3
  <2> QED BY <2>1, <2>2, <2>3
<1>6. e.do = "add" => e.counter \in Counters /\ e.by \in Int
  BY DEF Effects, Calls
<1>7. e.do = "reset" => e.counter \in Metrics
  BY DEF Effects, Calls
<1>8. e.do \in {"unlock", "guard"} => e.shard \in Shards
  BY DEF Effects, Calls
<1>9. e.do = "hooks" => e.keys \in SUBSET Keys
  BY DEF Effects, Calls
<1> QED BY <1>1, <1>2, <1>3, <1>4, <1>5, <1>6, <1>7, <1>8, <1>9

\* Every key has a shard.
LEMMA ShardOfType ==
  ASSUME NEW k \in Keys
  PROVE  ShardOf(k) \in Shards
BY DEF ShardOf, Shards

\* What a clear keeps: the hooks for the entries of the shards it has drained.
HookCalls == [do : {"hooks"}, keys : SUBSET Keys]

\* What a clear has drained so far: the hooks of at most all the shards.
LEMMA ClearFields ==
  ASSUME NEW e \in Effects, e.do = "clear"
  PROVE  /\ e.entries \in Seq(HookCalls) /\ Len(e.entries) <= ShardCount
         /\ e = [do |-> "clear", next |-> e.next, waits |-> e.waits, entries |-> e.entries]
<1> DEFINE E == UNION {[1 .. n -> [do : {"hooks"}, keys : SUBSET Keys]]
                         : n \in 0 .. ShardCount}
<1>1. /\ e.entries = << >> \/ e.entries \in E
      /\ e = [do |-> "clear", next |-> e.next, waits |-> e.waits, entries |-> e.entries]
  <2> HIDE DEF E
  <2>1. \/ e \in [do : {"clear"}, next : {0}, entries : {<< >>}, waits : {FALSE}]
        \/ e \in [do : {"clear"}, next : 0 .. ShardCount, waits : BOOLEAN, entries : E]
    <3>1. e \in Calls \/ e \in [do : {"clear"}, next : 0 .. ShardCount, waits : BOOLEAN,
                                entries : E]
      BY DEF Effects, E
    <3> QED BY <3>1 DEF Calls
  <2>2. CASE e \in [do : {"clear"}, next : {0}, entries : {<< >>}, waits : {FALSE}]
    BY <2>2
  <2>3. CASE e \in [do : {"clear"}, next : 0 .. ShardCount, waits : BOOLEAN, entries : E]
    BY <2>3
  <2> QED BY <2>1, <2>2, <2>3
<1>2. ASSUME e.entries = << >>
      PROVE  e.entries \in Seq(HookCalls) /\ Len(e.entries) <= ShardCount
  BY <1>2
<1>3. ASSUME e.entries \in E
      PROVE  e.entries \in Seq(HookCalls) /\ Len(e.entries) <= ShardCount
  <2>1. PICK n \in 0 .. ShardCount : e.entries \in [1 .. n -> HookCalls]
    BY <1>3 DEF HookCalls
  <2>2. e.entries \in Seq(HookCalls)
    BY <2>1, SeqDef
  <2>3. Len(e.entries) = n
    BY <2>1, <2>2, LenProperties
  <2> QED BY <2>2, <2>3
<1> QED BY <1>1, <1>2, <1>3

\* A clear with the hooks of some shards drained is an effect.
LEMMA ClearType ==
  ASSUME NEW n \in 0 .. ShardCount, NEW w \in BOOLEAN,
         NEW h \in Seq(HookCalls), Len(h) <= ShardCount
  PROVE  [do |-> "clear", next |-> n, waits |-> w, entries |-> h] \in Effects
<1> DEFINE E == UNION {[1 .. i -> [do : {"hooks"}, keys : SUBSET Keys]]
                         : i \in 0 .. ShardCount}
<1>1. h \in E
  <2>1. h \in [1 .. Len(h) -> HookCalls] /\ Len(h) \in 0 .. ShardCount
    BY LenProperties
  <2> QED BY <2>1 DEF HookCalls
<1> HIDE DEF E
<1>2. [do |-> "clear", next |-> n, waits |-> w, entries |-> h]
        \in [do : {"clear"}, next : 0 .. ShardCount, waits : BOOLEAN, entries : E]
  BY <1>1
<1> QED BY <1>2 DEF Effects, E
-----------------------------------------------------------------------------
(* What the methods leave to do.                                            *)

\* The work of a method, before it calls hooks; and what user code is left.
Work(e) == \A i \in DOMAIN e : e[i].do \in {"add", "reset", "unlock"}
User(e) == \A i \in DOMAIN e : e[i].do \in {"hook", "hooks", "guard"}

\* What a method leaves to do: work, and then h.
WorkBefore(h, e) == \E w \in Seq(Effects) : Work(w) /\ e = w \o h

\* Effects that hold no lock on any shard.
Frees(e) == \A s \in Shards : Cardinality(Owing(e, s)) = 0

\* Effects without an unlock or a Guard owe no lock.
LEMMA FreesIf ==
  ASSUME NEW e \in Seq(Effects), \A i \in DOMAIN e : e[i].do \notin {"unlock", "guard"}
  PROVE  Frees(e)
<1>1. \A i \in 1 .. Len(e), s \in Shards : e[i] \notin {Unlock(s), Guard(s)}
  <2>1. \A s \in Shards : Unlock(s).do = "unlock" /\ Guard(s).do = "guard"
    BY DEF Unlock, Guard
  <2> QED BY <2>1, LenProperties
<1> QED BY <1>1, OwingNone DEF Frees

\* Frames that owe no lock owe none together.
LEMMA FreesConcat ==
  ASSUME NEW a \in Seq(Effects), NEW b \in Seq(Effects), Frees(a), Frees(b)
  PROVE  Frees(a \o b)
BY OwingConcat DEF Frees

\* The locks that two frames owe add up.
LEMMA OwingSum ==
  \A a, b \in Seq(Effects) : \A x \in Shards :
    Cardinality(Owing(a \o b, x)) = Cardinality(Owing(a, x)) + Cardinality(Owing(b, x))
BY OwingConcat

\* Work in front of work is work.
LEMMA WorkConcat ==
  ASSUME NEW a \in Seq(Effects), NEW b \in Seq(Effects), Work(a), Work(b)
  PROVE  Work(a \o b)
<1>1. /\ DOMAIN a = 1 .. Len(a) /\ DOMAIN b = 1 .. Len(b)
      /\ Len(a) \in Nat /\ Len(b) \in Nat
      /\ DOMAIN (a \o b) = 1 .. Len(a) + Len(b)
      /\ \A i \in 1 .. Len(a) + Len(b) :
           (a \o b)[i] = IF i <= Len(a) THEN a[i] ELSE b[i - Len(a)]
  BY LenProperties, ConcatProperties
<1>2. ASSUME NEW i \in DOMAIN (a \o b)
      PROVE  (a \o b)[i].do \in {"add", "reset", "unlock"}
  <2>1. CASE i <= Len(a)
    BY <1>1, <2>1 DEF Work
  <2>2. CASE ~ (i <= Len(a))
    <3>1. i - Len(a) \in DOMAIN b /\ (a \o b)[i] = b[i - Len(a)]
      BY <1>1, <2>2
    <3> QED BY <3>1 DEF Work
  <2> QED BY <2>1, <2>2
<1> QED BY <1>2 DEF Work

\* Work before user code is in turn.
LEMMA WorkThenUser ==
  ASSUME NEW a \in Seq(Effects), NEW b \in Seq(Effects), Work(a), User(b)
  PROVE  InTurn(a \o b)
<1>1. InTurn(a)
  BY DEF Work, InTurn
<1>2. InTurn(b)
  BY DEF User, InTurn
<1> QED BY <1>1, <1>2, ConcatInTurn DEF User

\* Single effects.
LEMMA AddWork ==
  ASSUME NEW c \in Counters, NEW n \in Int
  PROVE  <<Add(c, n)>> \in Seq(Effects) /\ Work(<<Add(c, n)>>) /\ Frees(<<Add(c, n)>>)
<1>1. <<Add(c, n)>> \in Seq(Effects)
  BY EffectTypes
<1>2. \A i \in DOMAIN <<Add(c, n)>> : <<Add(c, n)>>[i].do = "add"
  BY DEF Add
<1> QED BY <1>1, <1>2, FreesIf DEF Work

\* The update of a metric is work, and owes no lock.
LEMMA CountWork ==
  ASSUME NEW c \in Counters, NEW n \in Int
  PROVE  Count(c, n) \in Seq(Effects) /\ Work(Count(c, n)) /\ Frees(Count(c, n))
<1>1. CASE MetricsFeature
  BY <1>1, AddWork DEF Count
<1>2. CASE ~ MetricsFeature
  <2>1. Count(c, n) = << >> /\ << >> \in Seq(Effects) /\ DOMAIN << >> = {}
    BY <1>2, EmptySeq DEF Count
  <2> QED BY <2>1, FreesIf DEF Work
<1> QED BY <1>1, <1>2

\* The hooks of a set of keys are user code, and owe no lock.
LEMMA HooksUser ==
  ASSUME NEW S \in SUBSET Keys
  PROVE  Hooks(S) \in Seq(Effects) /\ User(Hooks(S)) /\ Frees(Hooks(S))
<1>1. Hooks(S) \in Seq(Effects)
  BY EffectTypes, EmptySeq DEF Hooks
<1>2. \A i \in DOMAIN Hooks(S) : Hooks(S)[i].do = "hooks"
  BY DEF Hooks
<1> QED BY <1>1, <1>2, FreesIf DEF User

\* Two counter updates are work, and owe no lock.
LEMMA AddsWork ==
  ASSUME NEW c \in Counters, NEW m \in Int, NEW d \in Counters, NEW n \in Int
  PROVE  /\ <<Add(c, m), Add(d, n)>> \in Seq(Effects)
         /\ Work(<<Add(c, m), Add(d, n)>>) /\ Frees(<<Add(c, m), Add(d, n)>>)
<1>1. <<Add(c, m), Add(d, n)>> \in Seq(Effects)
  BY EffectTypes
<1>2. \A i \in DOMAIN <<Add(c, m), Add(d, n)>> : <<Add(c, m), Add(d, n)>>[i].do = "add"
  BY DEF Add
<1> QED BY <1>1, <1>2, FreesIf DEF Work

\* The head of a sequence that starts with work.
LEMMA FirstOfConcat ==
  ASSUME NEW a \in Seq(Effects), a # << >>, NEW b \in Seq(Effects)
  PROVE  a \o b # << >> /\ (a \o b)[1] = a[1] /\ a \o b \in Seq(Effects)
<1>1. Len(a) \in Nat \ {0} /\ Len(b) \in Nat
  BY EmptySeq, LenProperties
<1>2. /\ a \o b \in Seq(Effects) /\ Len(a \o b) = Len(a) + Len(b)
      /\ (a \o b)[1] = a[1]
  BY <1>1, ConcatProperties
<1> QED BY <1>1, <1>2, EmptySeq

\* What insert leaves to do: it updates counters, then calls hooks.
LEMMA InsertWork ==
  ASSUME NEW old, old # << >> => old[1].size \in Nat, NEW size \in Nat,
         NEW victims, Countable(victims), DOMAIN victims \in SUBSET Keys,
         NEW e, e = InsertEffects(old, size, victims)
  PROVE  /\ e \in Seq(Effects) /\ e # << >> /\ e[1].do = "add" /\ InTurn(e) /\ Frees(e)
         /\ WorkBefore(Hooks(DOMAIN victims), e)
<1> DEFINE n == Cardinality(DOMAIN victims)
           a == IF old # << >>
                THEN <<Add("current_size", size - old[1].size)>> \o Count("updates", 1)
                ELSE <<Add("current_size", size), Add("entry_count", 1)>> \o Count("inserts", 1)
           v == <<Add("entry_count", -n), Add("current_size", -TotalSize(victims))>>
                  \o Count("evictions", n)
           h == Hooks(DOMAIN victims)
<1>1. n \in Nat /\ TotalSize(victims) \in Nat
  BY TotalType, FS_CardinalityType DEF Countable
<1>2. /\ "current_size" \in Counters /\ "entry_count" \in Counters
      /\ "updates" \in Counters /\ "inserts" \in Counters /\ "evictions" \in Counters
  BY DEF Counters, Metrics
<1>3. a \in Seq(Effects) /\ a # << >> /\ a[1].do = "add" /\ Work(a) /\ Frees(a)
  <2>1. CASE old # << >>
    <3> DEFINE x == <<Add("current_size", size - old[1].size)>>
               y == Count("updates", 1)
    <3>1. /\ x \in Seq(Effects) /\ Work(x) /\ Frees(x) /\ x # << >> /\ x[1].do = "add"
          /\ y \in Seq(Effects) /\ Work(y) /\ Frees(y)
      <4>1. size - old[1].size \in Int
        BY <2>1
      <4>2. x # << >> /\ x[1].do = "add"
        BY DEF Add
      <4>3. x \in Seq(Effects) /\ Work(x) /\ Frees(x)
        BY <1>2, <4>1, AddWork
      <4>4. y \in Seq(Effects) /\ Work(y) /\ Frees(y)
        BY <1>2, CountWork
      <4> QED BY <4>2, <4>3, <4>4
    <3>2. a = x \o y
      BY <2>1
    <3> HIDE DEF x, y, a
    <3> QED BY <3>1, <3>2, WorkConcat, FreesConcat, FirstOfConcat
  <2>2. CASE old = << >>
    <3> DEFINE x == <<Add("current_size", size), Add("entry_count", 1)>>
               y == Count("inserts", 1)
    <3>1. /\ x \in Seq(Effects) /\ Work(x) /\ Frees(x) /\ x # << >> /\ x[1].do = "add"
          /\ y \in Seq(Effects) /\ Work(y) /\ Frees(y)
      <4>1. x # << >> /\ x[1].do = "add"
        BY DEF Add
      <4>2. x \in Seq(Effects) /\ Work(x) /\ Frees(x)
        BY <1>2, AddsWork, SMTT(40)
      <4>3. y \in Seq(Effects) /\ Work(y) /\ Frees(y)
        BY <1>2, CountWork
      <4> QED BY <4>1, <4>2, <4>3
    <3>2. a = x \o y
      BY <2>2
    <3> HIDE DEF x, y, a
    <3> QED BY <3>1, <3>2, WorkConcat, FreesConcat, FirstOfConcat
  <2> QED BY <2>1, <2>2
<1>4. v \in Seq(Effects) /\ Work(v) /\ Frees(v)
  <2> DEFINE x == <<Add("entry_count", -n), Add("current_size", -TotalSize(victims))>>
             y == Count("evictions", n)
  <2>1. /\ x \in Seq(Effects) /\ Work(x) /\ Frees(x)
        /\ y \in Seq(Effects) /\ Work(y) /\ Frees(y)
    <3>1. n \in Int /\ -n \in Int /\ -TotalSize(victims) \in Int
      BY <1>1
    <3> HIDE DEF n
    <3>2. x \in Seq(Effects) /\ Work(x) /\ Frees(x)
      BY <1>2, <3>1, AddsWork
    <3>3. y \in Seq(Effects) /\ Work(y) /\ Frees(y)
      BY <1>2, <3>1, CountWork
    <3> QED BY <3>2, <3>3
  <2>2. v = x \o y
    OBVIOUS
  <2> HIDE DEF x, y, v
  <2> QED BY <2>1, <2>2, WorkConcat, FreesConcat, ConcatProperties
<1>5. h \in Seq(Effects) /\ User(h) /\ Frees(h)
  BY HooksUser
<1>6. e = a \o (IF n = 0 THEN << >> ELSE v \o h)
  BY DEF InsertEffects
<1> HIDE DEF a, v, h
<1>7. CASE n = 0
  <2> HIDE DEF n
  <2>1. e = a
    BY <1>3, <1>6, <1>7, ConcatEmptySeq
  <2>2. InTurn(a)
    BY <1>3 DEF Work, InTurn
  <2>3. h = << >>
    <3>1. DOMAIN victims = {}
      BY <1>7, FS_EmptySet DEF n, Countable
    <3> QED BY <3>1 DEF h, Hooks
  <2>4. WorkBefore(h, e)
    BY <1>3, <1>6, <1>7, <2>3 DEF WorkBefore
  <2> QED BY <1>3, <2>1, <2>2, <2>4 DEF h
<1> HIDE DEF n
<1>8. CASE n # 0
  <2>1. a \o v \in Seq(Effects) /\ v \o h \in Seq(Effects)
    BY <1>3, <1>4, <1>5, ConcatProperties
  <2>2. (a \o v) \o h = a \o (v \o h)
    BY <1>3, <1>4, <1>5, ConcatAssociative, SMTT(40)
  <2>3. e = a \o (v \o h)
    BY <1>6, <1>8
  <2>4. Work(a \o v)
    BY <1>3, <1>4, WorkConcat
  <2>5. InTurn(e)
    BY <1>5, <2>1, <2>2, <2>3, <2>4, WorkThenUser
  <2>6. Frees(v \o h)
    BY <1>4, <1>5, FreesConcat
  <2>7. Frees(e)
    BY <1>3, <2>1, <2>3, <2>6, FreesConcat
  <2>8. WorkBefore(h, e)
    BY <2>1, <2>2, <2>3, <2>4 DEF WorkBefore
  <2> QED BY <1>3, <2>1, <2>3, <2>5, <2>7, <2>8, FirstOfConcat DEF h
<1> QED BY <1>7, <1>8

\* Releasing a lock, or keeping it with a Guard, is owing one lock.
LEMMA OneLock ==
  ASSUME NEW s \in Shards, NEW x \in {Unlock(s), Guard(s)}
  PROVE  /\ <<x>> \in Seq(Effects) /\ x.do \in {"unlock", "guard"} /\ x.shard = s
         /\ \A y \in Shards : Cardinality(Owing(<<x>>, y)) = IF y = s THEN 1 ELSE 0
<1>1. x.do \in {"unlock", "guard"} /\ x.shard = s
  BY DEF Unlock, Guard
<1>2. \A y \in Shards : x \in {Unlock(y), Guard(y)} <=> y = s
  <2>1. \A y \in Shards : Unlock(y).shard = y /\ Guard(y).shard = y
    BY DEF Unlock, Guard
  <2> QED BY <1>1, <2>1
<1>3. <<x>> \in Seq(Effects)
  BY EffectTypes
<1> QED BY <1>1, <1>2, <1>3, OwingOne

\* What remove leaves to do, when it found its key: it updates counters,
\* releases the lock, then calls the hook.
LEMMA RemoveWork ==
  ASSUME NEW k \in Keys, NEW size \in Nat, NEW e, e = RemoveEffects(k, size)
  PROVE  /\ e \in Seq(Effects) /\ e # << >> /\ e[1].do = "add" /\ InTurn(e)
         /\ \A x \in Shards : Cardinality(Owing(e, x)) = IF x = ShardOf(k) THEN 1 ELSE 0
         /\ WorkBefore(Hooks({k}), e)
<1> DEFINE a == <<Add("current_size", -size), Add("entry_count", -1)>>
           c == Count("removals", 1)
           u == <<Unlock(ShardOf(k))>>
           h == Hooks({k})
<1>1. /\ "current_size" \in Counters /\ "entry_count" \in Counters /\ "removals" \in Counters
      /\ -size \in Int /\ -1 \in Int
  BY DEF Counters, Metrics
<1>2. a \in Seq(Effects) /\ Work(a) /\ Frees(a)
  BY <1>1, AddsWork
<1>3. c \in Seq(Effects) /\ Work(c) /\ Frees(c)
  BY <1>1, CountWork
<1>4. /\ u \in Seq(Effects)
      /\ \A x \in Shards : Cardinality(Owing(u, x)) = IF x = ShardOf(k) THEN 1 ELSE 0
  BY ShardOfType, OneLock
<1>5. Work(u)
  BY DEF Work, Unlock
<1>6. h \in Seq(Effects) /\ User(h) /\ Frees(h)
  BY HooksUser
<1>7. a # << >> /\ a[1].do = "add"
  BY DEF Add
<1>8. e = ((a \o c) \o u) \o h
  BY DEF RemoveEffects
<1> HIDE DEF a, c, u, h
<1>9. a \o c \in Seq(Effects) /\ Work(a \o c) /\ Frees(a \o c)
  BY <1>2, <1>3, WorkConcat, FreesConcat, ConcatProperties
<1>10. /\ (a \o c) \o u \in Seq(Effects) /\ Work((a \o c) \o u)
       /\ \A x \in Shards : Cardinality(Owing((a \o c) \o u, x)) = IF x = ShardOf(k) THEN 1 ELSE 0
  <2>1. (a \o c) \o u \in Seq(Effects) /\ Work((a \o c) \o u)
    BY <1>4, <1>5, <1>9, WorkConcat, ConcatProperties
  <2>2. \A x \in Shards : Cardinality(Owing((a \o c) \o u, x))
                            = Cardinality(Owing(a \o c, x)) + Cardinality(Owing(u, x))
    BY <1>4, <1>9, OwingSum
  <2> QED BY <1>4, <1>9, <2>1, <2>2 DEF Frees
<1>11. InTurn(e)
  BY <1>6, <1>8, <1>10, WorkThenUser
<1>12. ASSUME NEW x \in Shards
       PROVE  Cardinality(Owing(e, x)) = IF x = ShardOf(k) THEN 1 ELSE 0
  <2>1. Cardinality(Owing(e, x)) = Cardinality(Owing((a \o c) \o u, x)) + Cardinality(Owing(h, x))
    BY <1>6, <1>8, <1>10, OwingSum, ZenonT(40)
  <2> QED BY <1>6, <1>10, <2>1 DEF Frees
<1>13. e \in Seq(Effects) /\ e # << >> /\ e[1] = a[1]
  <2>1. a \o c # << >> /\ (a \o c)[1] = a[1]
    BY <1>2, <1>3, <1>7, FirstOfConcat
  <2>2. (a \o c) \o u # << >> /\ ((a \o c) \o u)[1] = a[1]
    BY <1>4, <1>9, <2>1, FirstOfConcat
  <2> QED BY <1>6, <1>8, <1>10, <2>2, FirstOfConcat
<1>14. WorkBefore(h, e)
  BY <1>8, <1>10 DEF WorkBefore
<1> QED BY <1>7, <1>11, <1>12, <1>13, <1>14 DEF h

\* What a method leaves to do that only counts and then releases its lock, or
\* leaves that to a Guard.
LEMMA GetWork ==
  ASSUME NEW c \in Counters, NEW s \in Shards, NEW x \in {Unlock(s), Guard(s)},
         NEW e, e = Count(c, 1) \o <<x>>
  PROVE  /\ e \in Seq(Effects) /\ e # << >> /\ InTurn(e)
         /\ e[1].do \in {"add", "unlock", "guard"}
         /\ \A y \in Shards : /\ y = s => Cardinality(Owing(e, y)) = 1
                              /\ y # s => Cardinality(Owing(e, y)) = 0
<1> DEFINE a == Count(c, 1)
           b == <<x>>
<1>1. a \in Seq(Effects) /\ Work(a) /\ Frees(a)
  BY CountWork
<1>2. a = << >> \/ a = <<Add(c, 1)>>
  BY DEF Count
<1>3. /\ b \in Seq(Effects)
      /\ \A y \in Shards : Cardinality(Owing(b, y)) = IF y = s THEN 1 ELSE 0
  BY OneLock
<1>4. x.do \in {"unlock", "guard"} /\ b[1] = x /\ b # << >>
  BY OneLock
<1>5. Add(c, 1).do = "add"
  BY DEF Add
<1>6. e = a \o b
  OBVIOUS
<1> HIDE DEF a, b
<1>7. ASSUME NEW y \in Shards
      PROVE  Cardinality(Owing(e, y)) = IF y = s THEN 1 ELSE 0
  <2>1. Cardinality(Owing(a \o b, y)) = Cardinality(Owing(a, y)) + Cardinality(Owing(b, y))
    BY <1>1, <1>3, OwingSum
  <2>2. Cardinality(Owing(a, y)) = 0
    BY <1>1 DEF Frees
  <2>3. Cardinality(Owing(b, y)) = IF y = s THEN 1 ELSE 0
    BY <1>3
  <2>4. Cardinality(Owing(a \o b, y)) = IF y = s THEN 1 ELSE 0
    BY <2>1, <2>2, <2>3
  <2> QED BY <1>6, <2>4
<1>8. InTurn(e)
  <2>1. CASE x.do = "unlock"
    <3>1. Work(b)
      BY <2>1 DEF Work, b
    <3>2. Work(e)
      BY <1>1, <1>3, <1>6, <3>1, WorkConcat
    <3> QED BY <3>2 DEF Work, InTurn
  <2>2. CASE x.do = "guard"
    <3>1. User(b)
      BY <2>2 DEF User, b
    <3> QED BY <1>1, <1>3, <1>6, <3>1, WorkThenUser
  <2> QED BY <1>4, <2>1, <2>2
<1>9. e \in Seq(Effects) /\ e # << >> /\ e[1].do \in {"add", "unlock", "guard"}
  <2>1. CASE a = << >>
    <3>1. e = b
      BY <1>3, <1>6, <2>1, ConcatEmptySeq
    <3> QED BY <1>3, <1>4, <3>1
  <2>2. CASE a = <<Add(c, 1)>>
    <3>1. a # << >> /\ a[1] = Add(c, 1)
      BY <2>2
    <3> QED BY <1>1, <1>3, <1>5, <1>6, <3>1, FirstOfConcat
  <2> QED BY <1>2, <2>1, <2>2
<1> QED BY <1>7, <1>8, <1>9

\* clear releases the shard it has drained and goes on to the next one, with
\* one more hook call kept at most.
LEMMA DrainWork ==
  ASSUME NEW call \in Effects, call.do = "clear", NEW s \in Shards, s = call.next,
         Len(call.entries) <= s, DOMAIN store[s] \in SUBSET Keys,
         NEW m \in Int, NEW n \in Int,
         NEW e, e = <<Add("current_size", m), Add("entry_count", n),
                      Unlock(s), Drained(call, s)>>
  PROVE  /\ e \in Seq(Effects) /\ e # << >> /\ e[1].do = "add" /\ InTurn(e)
         /\ \A x \in Shards : Cardinality(Owing(e, x)) = IF x = s THEN 1 ELSE 0
<1> DEFINE h == call.entries \o Hooks(DOMAIN store[s])
           d == [do |-> "clear", next |-> s + 1, waits |-> FALSE, entries |-> h]
<1>1. s \in Nat /\ s + 1 \in 0 .. ShardCount
  BY DEF Shards
<1>2. Drained(call, s) = d
  BY DEF Drained
<1>3. h \in Seq(HookCalls) /\ Len(h) <= s + 1
  <2>1. call.entries \in Seq(HookCalls) /\ Len(call.entries) \in Nat
    BY ClearFields, LenProperties
  <2>2. Hooks(DOMAIN store[s]) \in Seq(HookCalls) /\ Len(Hooks(DOMAIN store[s])) \in {0, 1}
    <3>1. CASE DOMAIN store[s] = {}
      <4>1. Hooks(DOMAIN store[s]) = << >>
        BY <3>1 DEF Hooks
      <4> QED BY <4>1, EmptySeq
    <3>2. CASE DOMAIN store[s] # {}
      <4> DEFINE c == [do |-> "hooks", keys |-> DOMAIN store[s]]
      <4>1. c \in HookCalls
        BY DEF HookCalls
      <4>2. Hooks(DOMAIN store[s]) = <<c>>
        BY <3>2 DEF Hooks
      <4> HIDE DEF c
      <4>3. <<c>> \in Seq(HookCalls) /\ Len(<<c>>) = 1
        BY <4>1
      <4> QED BY <4>2, <4>3
    <3> QED BY <3>1, <3>2
  <2> DEFINE g == Hooks(DOMAIN store[s])
  <2> HIDE DEF g
  <2>3. /\ call.entries \o g \in Seq(HookCalls)
        /\ Len(call.entries \o g) = Len(call.entries) + Len(g)
    BY <2>1, <2>2, ConcatProperties DEF g
  <2>4. Len(g) \in {0, 1}
    BY <2>2 DEF g
  <2>5. Len(call.entries \o g) <= s + 1
    <3>1. \A x, y \in Nat : x <= s /\ y \in {0, 1} => x + y <= s + 1
      BY <1>1
    <3>2. Len(call.entries) \in Nat /\ Len(call.entries) <= s /\ Len(g) \in Nat
      BY <2>1, <2>4
    <3> HIDE DEF h, d
    <3> QED BY <2>3, <2>4, <3>1, <3>2
  <2> QED BY <2>3, <2>5 DEF g
<1> HIDE DEF h
<1>4. d \in Effects
  <2>1. PICK i \in 0 .. ShardCount : i = s + 1
    BY <1>1
  <2>2. Len(h) <= ShardCount
    <3>1. Len(h) \in Nat
      BY <1>3, LenProperties
    <3> QED BY <1>1, <1>3, <3>1
  <2>3. [do |-> "clear", next |-> i, waits |-> FALSE, entries |-> h] \in Effects
    BY <1>3, <2>2, ClearType
  <2> QED BY <2>1, <2>3
<1>5. d.do = "clear" /\ d.waits = FALSE /\ d.next = s + 1 /\ d.entries = h
  OBVIOUS
<1> HIDE DEF d
<1>6. e = <<Add("current_size", m), Add("entry_count", n), Unlock(s), d>>
  BY <1>2
<1>7. /\ Add("current_size", m).do = "add" /\ Add("entry_count", n).do = "add"
      /\ Unlock(s).do = "unlock"
      /\ Add("current_size", m) \in Effects /\ Add("entry_count", n) \in Effects
      /\ Unlock(s) \in Effects
  <2>1. "current_size" \in Counters /\ "entry_count" \in Counters
    BY DEF Counters
  <2> QED BY <2>1, EffectTypes DEF Add, Unlock
<1>8. e \in Seq(Effects) /\ e # << >> /\ e[1].do = "add" /\ DOMAIN e = 1 .. 4
  BY <1>4, <1>6, <1>7
<1>9. InTurn(e)
  <2>1. /\ e[1].do = "add" /\ e[2].do = "add" /\ e[3].do = "unlock" /\ e[4].do = "clear"
        /\ e[4].waits = FALSE /\ Len(e[4].entries) <= e[4].next
    BY <1>3, <1>5, <1>6, <1>7
  <2> QED BY <1>8, <2>1 DEF InTurn
<1>10. ASSUME NEW x \in Shards
       PROVE  Cardinality(Owing(e, x)) = IF x = s THEN 1 ELSE 0
  <2>1. /\ \A i \in DOMAIN e : i # 3 => e[i] \notin {Unlock(x), Guard(x)}
        /\ e[3] \in {Unlock(x), Guard(x)} <=> x = s
    <3>1. /\ Unlock(x).do = "unlock" /\ Guard(x).do = "guard" /\ Unlock(x).shard = x
          /\ Unlock(s).shard = s
      BY DEF Unlock, Guard
    <3>2. e[1] = Add("current_size", m) /\ e[2] = Add("entry_count", n)
          /\ e[3] = Unlock(s) /\ e[4] = d
      BY <1>6
    <3>3. e[3] \in {Unlock(x), Guard(x)} <=> x = s
      BY <1>7, <3>1, <3>2
    <3>4. \A i \in 1 .. 4 : i # 3 => e[i].do \notin {"unlock", "guard"}
      BY <1>5, <1>7, <3>2
    <3> QED BY <1>8, <3>1, <3>3, <3>4
  <2>2. Owing(e, x) = IF x = s THEN {3} ELSE {}
    BY <1>8, <2>1 DEF Owing
  <2> QED BY <2>2, FS_Singleton, FS_EmptySet
<1> QED BY <1>8, <1>9, <1>10

\* What clear leaves to do at last: metrics, then the hooks it has kept.
LEMMA DropWork ==
  ASSUME NEW h \in Seq(HookCalls), NEW e, e = ResetAll \o h
  PROVE  /\ e \in Seq(Effects) /\ InTurn(e) /\ Frees(e)
         /\ \A i \in DOMAIN e : e[i].do \in {"reset", "hooks"}
         /\ WorkBefore(h, e)
<1>1. /\ \A i \in DOMAIN h : h[i].do = "hooks"
      /\ h \in Seq(Effects)
  <2>1. HookCalls \subseteq Effects
    BY EffectTypes DEF HookCalls, Effects
  <2>2. h \in Seq(Effects)
    BY <2>1, SeqMonotonic
  <2>3. \A i \in DOMAIN h : h[i] \in HookCalls
    BY LenProperties, ElementOfSeq
  <2> QED BY <2>2, <2>3 DEF HookCalls
<1>2. ResetAll \in Seq(Effects) /\ \A i \in DOMAIN ResetAll : ResetAll[i].do = "reset"
  <2>1. CASE MetricsFeature
    <3>1. \A c \in Metrics : Reset(c) \in Effects /\ Reset(c).do = "reset"
      BY EffectTypes DEF Reset
    <3>2. ResetAll = <<Reset("hits"), Reset("misses"), Reset("inserts"),
                       Reset("updates"), Reset("evictions"), Reset("removals")>>
      BY <2>1 DEF ResetAll
    <3>3. /\ "hits" \in Metrics /\ "misses" \in Metrics /\ "inserts" \in Metrics
          /\ "updates" \in Metrics /\ "evictions" \in Metrics /\ "removals" \in Metrics
      BY DEF Metrics
    <3> QED BY <3>1, <3>2, <3>3
  <2>2. CASE ~ MetricsFeature
    BY <2>2 DEF ResetAll
  <2> QED BY <2>1, <2>2
<1> DEFINE r == ResetAll
<1> HIDE DEF r
<1>3. r \in Seq(Effects) /\ \A i \in DOMAIN r : r[i].do = "reset"
  BY <1>2 DEF r
<1>4. e = r \o h
  BY DEF r
<1>5. Frees(r) /\ Frees(h)
  BY <1>1, <1>3, FreesIf
<1>6. Work(r) /\ User(h)
  BY <1>1, <1>3 DEF Work, User
<1>7. InTurn(e) /\ Frees(e) /\ e \in Seq(Effects)
  BY <1>1, <1>3, <1>4, <1>5, <1>6, WorkThenUser, FreesConcat, ConcatProperties
<1>8. ASSUME NEW i \in DOMAIN e PROVE e[i].do \in {"reset", "hooks"}
  <2>1. /\ DOMAIN e = 1 .. Len(r) + Len(h) /\ DOMAIN r = 1 .. Len(r) /\ DOMAIN h = 1 .. Len(h)
        /\ Len(r) \in Nat /\ Len(h) \in Nat
        /\ e[i] = IF i <= Len(r) THEN r[i] ELSE h[i - Len(r)]
    BY <1>1, <1>3, <1>4, LenProperties, ConcatProperties
  <2>2. CASE i <= Len(r)
    BY <1>3, <2>1, <2>2
  <2>3. CASE ~ (i <= Len(r))
    <3>1. i - Len(r) \in DOMAIN h
      BY <2>1, <2>3
    <3> QED BY <1>1, <2>1, <2>3, <3>1
  <2> QED BY <2>2, <2>3
<1>9. WorkBefore(h, e)
  BY <1>3, <1>4, <1>6 DEF WorkBefore
<1> QED BY <1>7, <1>8, <1>9
-----------------------------------------------------------------------------
(* One step of a thread.                                                    *)

\* The locks on s that thread t still has to release.
Owed(t, s) == Cardinality(Owing(todo[t], s))

\* An effect that waits for a lock.
Waiting(e) == e.do \in {"insert", "remove", "clear"} /\ e.waits

\* Only the effect at the head waits.
LEMMA WaitsIsHead ==
  ASSUME NEW t \in Threads, NEW x, todo[t] \in Seq(Effects)
  PROVE  Waits(t, x) => todo[t] # << >> /\ Waiting(todo[t][1]) /\ Target(t) = x
BY HeadThenTail DEF Waits, At, Waiting

\* What a thread has to do when it replaces its first effect by others, which
\* it may do if they leave the order intact.
LEMMA ThenTodo ==
  ASSUME todo \in [Threads -> Seq(Effects)], NEW t \in Threads, InTurn(todo[t]),
         todo[t] # << >>,
         NEW new \in Seq(Effects), InTurn(new), Then(t, new),
         new = << >> \/ todo[t][1].do \notin {"add", "reset", "unlock"}
  PROVE  /\ todo' \in [Threads -> Seq(Effects)]
         /\ todo'[t] = new \o Tail(todo[t])
         /\ InTurn(todo'[t])
         /\ \A s \in Shards :
              Owed(t, s)' = Cardinality(Owing(new, s)) + Owed(t, s)
                              - Cardinality(Owing(<<Head(todo[t])>>, s))
         /\ \A u \in Threads \ {t} : todo'[u] = todo[u]
<1> DEFINE e == todo[t]
           r == Tail(todo[t])
           h == <<Head(todo[t])>>
<1>1. /\ e \in Seq(Effects) /\ r \in Seq(Effects) /\ h \in Seq(Effects) /\ e = h \o r
  BY HeadThenTail
<1>2. todo' = [todo EXCEPT ![t] = new \o r]
  BY DEF Then
<1>3. new \o r \in Seq(Effects)
  BY <1>1, ConcatProperties
<1>4. /\ todo' \in [Threads -> Seq(Effects)]
      /\ todo'[t] = new \o r
      /\ \A u \in Threads \ {t} : todo'[u] = todo[u]
  <2> HIDE DEF r
  <2> QED BY <1>2, <1>3
<1>5. InTurn(new \o r)
  <2>1. InTurn(r)
    BY TailInTurn
  <2>2. CASE new = << >>
    BY <1>1, <2>1, <2>2, ConcatEmptySeq
  <2>3. CASE e[1].do \notin {"add", "reset", "unlock"}
    <3>1. \A i \in DOMAIN r : r[i].do \in {"hook", "hooks", "guard"}
      BY <1>1, <2>3, TailInTurn
    <3> QED BY <1>1, <2>1, <3>1, ConcatInTurn
  <2> QED BY <2>2, <2>3
<1>6. ASSUME NEW s \in Shards
      PROVE  Owed(t, s)' = Cardinality(Owing(new, s)) + Owed(t, s)
                             - Cardinality(Owing(h, s))
  <2>1. /\ Cardinality(Owing(new, s)) \in Nat /\ Cardinality(Owing(h, s)) \in Nat
        /\ Cardinality(Owing(r, s)) \in Nat
    BY <1>1, OwingType
  <2>2. Cardinality(Owing(e, s)) = Cardinality(Owing(h, s)) + Cardinality(Owing(r, s))
    <3>1. Cardinality(Owing(h \o r, s)) = Cardinality(Owing(h, s)) + Cardinality(Owing(r, s))
      BY <1>1, OwingSum
    <3> QED BY <1>1, <3>1
  <2>3. Cardinality(Owing(new \o r, s))
          = Cardinality(Owing(new, s)) + Cardinality(Owing(r, s))
    BY <1>1, OwingSum
  <2>4. Owed(t, s)' = Cardinality(Owing(new \o r, s))
    BY <1>4 DEF Owed
  <2>5. Owed(t, s) = Cardinality(Owing(e, s))
    BY DEF Owed
  <2> QED BY <2>1, <2>2, <2>3, <2>4, <2>5
<1> HIDE DEF h
<1> QED BY <1>4, <1>5, <1>6 DEF h

\* A thread that has done its first effect does not wait, if what it has put in
\* front does not: nothing behind the head waits.
LEMMA ThenRuns ==
  ASSUME NEW t \in Threads, todo[t] \in Seq(Effects), InTurn(todo[t]), todo[t] # << >>,
         NEW new \in Seq(Effects), new # << >> => ~ Waiting(new[1]),
         todo'[t] = new \o Tail(todo[t]), todo'[t] \in Seq(Effects), NEW x
  PROVE  ~ Waits(t, x)'
<1> DEFINE r == Tail(todo[t])
<1>1. r \in Seq(Effects) /\ DOMAIN todo[t] = 1 .. Len(todo[t])
  BY HeadThenTail, LenProperties
<1>2. ASSUME r # << >> PROVE ~ Waiting(r[1])
  <2>1. 1 \in 1 .. Len(todo[t]) - 1 /\ r[1] = todo[t][2] /\ 2 \in DOMAIN todo[t]
    BY <1>1, <1>2, HeadThenTail, EmptySeq
  <2> QED BY <2>1 DEF InTurn, Waiting
<1>3. ASSUME todo'[t] # << >> PROVE ~ Waiting(todo'[t][1])
  <2> HIDE DEF r
  <2>1. CASE new = << >>
    <3>1. todo'[t] = r
      BY <1>1, <2>1, ConcatEmptySeq DEF r
    <3> QED BY <1>2, <1>3, <3>1
  <2>2. CASE new # << >>
    <3>1. todo'[t][1] = new[1]
      BY <1>1, <2>2, FirstOfConcat DEF r
    <3> QED BY <2>2, <3>1
  <2> QED BY <2>1, <2>2
<1>4. Waits(t, x)' => todo'[t] # << >> /\ Waiting(todo'[t][1])
  BY HeadThenTail DEF Waits, At, Waiting
<1> QED BY <1>3, <1>4

\* The locks stay as LockInv says if they do for the thread that takes the step,
\* for each shard, and if the step leaves the other threads their locks.
LEMMA LockStep ==
  ASSUME lock \in [Shards -> [writer : Threads \cup {NoThread}, readers : [Threads -> Nat]]],
         LockInv, NEW t \in Threads,
         \A u \in Threads \ {t} : todo'[u] = todo[u],
         InTurn(todo'[t]),
         \A x \in Shards :
           /\ \A u \in Threads \ {t} :
                /\ lock'[x].readers[u] = lock[x].readers[u]
                /\ lock'[x].writer = u <=> lock[x].writer = u
                /\ Writes(u, x) => lock'[x].readers[t] = 0
           /\ Waits(t, x)' => lock'[x].writer = t
           /\ Writes(t, x)' => \A u \in Threads : lock'[x].readers[u] = 0
           /\ lock'[x].readers[t] + (IF Writes(t, x)' THEN 1 ELSE 0) = Owed(t, x)'
  PROVE  LockInv'
<1>1. \A u \in Threads : InTurn(todo'[u])
  BY DEF LockInv
<1>2. ASSUME NEW x \in Shards, NEW u \in Threads
      PROVE  /\ Waits(u, x)' => lock'[x].writer = u
             /\ Writes(u, x)' => \A r \in Threads : lock'[x].readers[r] = 0
             /\ lock'[x].readers[u] + (IF Writes(u, x)' THEN 1 ELSE 0) = Owed(u, x)'
  <2>1. CASE u = t
    BY <2>1
  <2>2. CASE u # t
    <3>1. todo'[u] = todo[u]
      BY <2>2
    <3>2. Waits(u, x)' <=> Waits(u, x)
      BY <3>1 DEF Waits, At, Target
    <3>3. Owed(u, x)' = Owed(u, x)
      BY <3>1 DEF Owed
    <3>4. /\ lock'[x].readers[u] = lock[x].readers[u]
          /\ lock'[x].writer = u <=> lock[x].writer = u
          /\ Writes(u, x) => lock'[x].readers[t] = 0
      BY <2>2
    <3>5. Writes(u, x)' <=> Writes(u, x)
      BY <3>2, <3>4 DEF Writes
    <3>6. Writes(u, x)' => \A r \in Threads : lock'[x].readers[r] = 0
      <4> SUFFICES ASSUME Writes(u, x)', NEW r \in Threads PROVE lock'[x].readers[r] = 0
        OBVIOUS
      <4>1. CASE r = t
        BY <3>4, <3>5, <4>1
      <4>2. CASE r # t
        <5>1. lock[x].readers[r] = 0
          BY <3>5 DEF LockInv
        <5> QED BY <4>2, <5>1
      <4> QED BY <4>1, <4>2
    <3>7. /\ Waits(u, x) => lock[x].writer = u
          /\ lock[x].readers[u] + (IF Writes(u, x) THEN 1 ELSE 0) = Owed(u, x)
      BY DEF LockInv, Owed
    <3> QED BY <3>2, <3>3, <3>4, <3>5, <3>6, <3>7
  <2> QED BY <2>1, <2>2
<1> QED BY <1>1, <1>2 DEF LockInv, Owed
-----------------------------------------------------------------------------
(* What every action preserves.                                             *)

\* Every shard is a finite map, so that its bytes can be counted.
StoreInv == DOMAIN store = Shards /\ \A s \in Shards : Countable(store[s])

CInv == TypeOK /\ StoreInv /\ LockInv

LocksType ==
  lock \in [Shards -> [writer : Threads \cup {NoThread}, readers : [Threads -> Nat]]]

\* A step that takes and releases no lock: what its thread puts in front of the
\* rest frees no lock, and neither did the effect that it has done.
LEMMA PlainStep ==
  ASSUME todo \in [Threads -> Seq(Effects)], LocksType, LockInv,
         NEW t \in Threads, todo[t] # << >>,
         ~ Waiting(todo[t][1]), todo[t][1].do \notin {"unlock", "guard"},
         NEW new \in Seq(Effects), InTurn(new), Frees(new), new # << >> => ~ Waiting(new[1]),
         new = << >> \/ todo[t][1].do \notin {"add", "reset"},
         Then(t, new), UNCHANGED lock
  PROVE  todo' \in [Threads -> Seq(Effects)] /\ LockInv'
<1> DEFINE h == <<Head(todo[t])>>
<1>1. InTurn(todo[t]) /\ todo[t] \in Seq(Effects)
  BY DEF LockInv
<1>2. /\ todo' \in [Threads -> Seq(Effects)]
      /\ todo'[t] = new \o Tail(todo[t])
      /\ InTurn(todo'[t])
      /\ \A s \in Shards : Owed(t, s)' = Cardinality(Owing(new, s)) + Owed(t, s)
                                           - Cardinality(Owing(h, s))
      /\ \A u \in Threads \ {t} : todo'[u] = todo[u]
  BY <1>1, ThenTodo
<1>3. h \in Seq(Effects) /\ h[1] = todo[t][1] /\ Len(h) = 1
  BY <1>1, HeadThenTail
<1> HIDE DEF h
<1>4. Frees(h)
  <2>1. \A i \in DOMAIN h : h[i].do \notin {"unlock", "guard"}
    BY <1>3, LenProperties
  <2> QED BY <1>3, <2>1, FreesIf
<1>5. ASSUME NEW x \in Shards
      PROVE  /\ Owed(t, x)' = Owed(t, x)
             /\ ~ Waits(t, x) /\ ~ Waits(t, x)'
             /\ lock'[x] = lock[x]
  <2>1. Owed(t, x) \in Nat
    BY <1>1, OwingType DEF Owed
  <2>2. Owed(t, x)' = Owed(t, x)
    BY <1>2, <1>4, <2>1 DEF Frees
  <2>3. ~ Waits(t, x)
    BY <1>1, WaitsIsHead
  <2>4. ~ Waits(t, x)'
    BY <1>1, <1>2, ThenRuns
  <2> QED BY <2>2, <2>3, <2>4
<1>6. ASSUME NEW x \in Shards
      PROVE  /\ \A u \in Threads \ {t} :
                  /\ lock'[x].readers[u] = lock[x].readers[u]
                  /\ lock'[x].writer = u <=> lock[x].writer = u
                  /\ Writes(u, x) => lock'[x].readers[t] = 0
             /\ Waits(t, x)' => lock'[x].writer = t
             /\ Writes(t, x)' => \A u \in Threads : lock'[x].readers[u] = 0
             /\ lock'[x].readers[t] + (IF Writes(t, x)' THEN 1 ELSE 0) = Owed(t, x)'
  <2>1. Writes(t, x)' <=> Writes(t, x)
    BY <1>5 DEF Writes
  <2>2. /\ \A u \in Threads : Writes(u, x) => \A r \in Threads : lock[x].readers[r] = 0
        /\ lock[x].readers[t] + (IF Writes(t, x) THEN 1 ELSE 0) = Owed(t, x)
    BY DEF LockInv, Owed
  <2> QED BY <1>5, <2>1, <2>2
<1>7. LockInv'
  BY <1>2, <1>6, LockStep DEF LocksType
<1> QED BY <1>2, <1>7

\* Nothing is left to do.
LEMMA NothingLeft ==
  << >> \in Seq(Effects) /\ InTurn(<< >>) /\ Frees(<< >>)
<1> DEFINE e == << >>
<1>1. e \in Seq(Effects) /\ DOMAIN e = {}
  BY EmptySeq
<1> HIDE DEF e
<1>2. InTurn(e) /\ Frees(e)
  BY <1>1, FreesIf DEF InTurn
<1> QED BY <1>1, <1>2 DEF e

\* One lemma per action: it preserves CInv.
LEMMA HookReturnInv ==
  ASSUME CInv, NEW t \in Threads, HookReturn(t)
  PROVE  CInv'
<1>1. /\ todo[t] # << >> /\ todo[t][1].do = "hook" /\ Then(t, << >>)
      /\ UNCHANGED <<store, lock, counter>>
  BY HeadThenTail DEF HookReturn, At, CInv, TypeOK
<1>2. todo' \in [Threads -> Seq(Effects)] /\ LockInv'
  BY <1>1, NothingLeft, PlainStep DEF CInv, TypeOK, LocksType, Waiting
<1> QED BY <1>1, <1>2 DEF CInv, TypeOK, StoreInv

\* A hook that is called leaves the others of its set for later.
LEMMA CallHookInv ==
  ASSUME CInv, NEW t \in Threads, CallHook(t)
  PROVE  CInv'
<1>1. /\ todo[t] # << >> /\ todo[t][1].do = "hooks" /\ todo[t][1] \in Effects
      /\ Head(todo[t]) = todo[t][1]
      /\ UNCHANGED <<store, lock, counter>>
  BY HeadThenTail DEF CallHook, At, CInv, TypeOK
<1>2. PICK k \in todo[t][1].keys : Then(t, <<Hook(k)>> \o Hooks(todo[t][1].keys \ {k}))
  BY <1>1 DEF CallHook
<1> DEFINE S == todo[t][1].keys \ {k}
           h == Hooks(S)
           new == <<Hook(k)>> \o h
<1>3. todo[t][1].keys \in SUBSET Keys
  BY <1>1, EffectFields
<1>4. h \in Seq(Effects) /\ User(h) /\ Frees(h)
  BY <1>3, HooksUser
<1>5. Hook(k) \in Effects /\ Hook(k).do = "hook"
  BY <1>3, EffectTypes DEF Hook
<1> DEFINE f == <<Hook(k)>>
<1>6. f \in Seq(Effects) /\ f # << >> /\ f[1] = Hook(k) /\ \A i \in DOMAIN f : f[i] = Hook(k)
  BY <1>5
<1> HIDE DEF f, h
<1>7. Frees(f)
  BY <1>5, <1>6, FreesIf
<1>8. f \o h \in Seq(Effects) /\ f \o h # << >> /\ (f \o h)[1] = Hook(k)
  BY <1>4, <1>6, FirstOfConcat
<1>9. InTurn(f \o h)
  <2>1. InTurn(f)
    BY <1>5, <1>6 DEF InTurn
  <2>2. InTurn(h)
    BY <1>4 DEF User, InTurn
  <2> QED BY <1>4, <1>6, <2>1, <2>2, ConcatInTurn DEF User
<1>10. Frees(f \o h)
  BY <1>4, <1>6, <1>7, FreesConcat
<1>11. Then(t, f \o h)
  BY <1>2 DEF f, h
<1>12. todo' \in [Threads -> Seq(Effects)] /\ LockInv'
  BY <1>1, <1>5, <1>8, <1>9, <1>10, <1>11, PlainStep DEF CInv, TypeOK, LocksType, Waiting
<1> QED BY <1>1, <1>12 DEF CInv, TypeOK, StoreInv

\* A clear that is through leaves resets and hooks.
LEMMA DropInv ==
  ASSUME CInv, NEW t \in Threads, Drop(t)
  PROVE  CInv'
<1>1. /\ todo[t] # << >> /\ todo[t][1].do = "clear" /\ todo[t][1] \in Effects
      /\ Head(todo[t]) = todo[t][1] /\ todo[t][1].next = ShardCount
      /\ Then(t, ResetAll \o todo[t][1].entries)
      /\ UNCHANGED <<store, lock, counter>>
  BY HeadThenTail DEF Drop, At, CInv, TypeOK
<1>2. PICK e : e = ResetAll \o todo[t][1].entries
  OBVIOUS
<1>3. /\ e \in Seq(Effects) /\ InTurn(e) /\ Frees(e)
      /\ \A i \in DOMAIN e : e[i].do \in {"reset", "hooks"}
  BY <1>1, <1>2, ClearFields, DropWork
<1>4. ~ Waiting(todo[t][1])
  <2>1. 1 \in DOMAIN todo[t] /\ InTurn(todo[t])
    BY <1>1, HeadThenTail, LenProperties DEF CInv, TypeOK, LockInv
  <2> QED BY <1>1, <2>1 DEF InTurn, Waiting
<1>5. e # << >> => ~ Waiting(e[1])
  <2> SUFFICES ASSUME e # << >> PROVE ~ Waiting(e[1])
    OBVIOUS
  <2>1. 1 \in DOMAIN e
    BY <1>3, HeadThenTail, LenProperties
  <2> QED BY <1>3, <2>1 DEF Waiting
<1>6. todo' \in [Threads -> Seq(Effects)] /\ LockInv'
  BY <1>1, <1>2, <1>3, <1>4, <1>5, PlainStep DEF CInv, TypeOK, LocksType
<1> QED BY <1>1, <1>6 DEF CInv, TypeOK, StoreInv

\* An update is done and keeps its counter below Width.
LEMMA UpdateInv ==
  ASSUME CInv, NEW t \in Threads, Update(t)
  PROVE  CInv'
<1>1. /\ todo[t] # << >> /\ todo[t][1].do \in {"add", "reset"} /\ todo[t][1] \in Effects
      /\ Head(todo[t]) = todo[t][1]
      /\ counter' = [counter EXCEPT ![todo[t][1].counter] = Applied(todo[t][1], @)]
      /\ Then(t, << >>)
      /\ UNCHANGED <<store, lock>>
  BY HeadThenTail DEF Update, At, CInv, TypeOK
<1>2. todo' \in [Threads -> Seq(Effects)] /\ LockInv'
  BY <1>1, NothingLeft, PlainStep DEF CInv, TypeOK, LocksType, Waiting
<1>3. counter' \in [Counters -> 0 .. Width - 1]
  <2>1. todo[t][1].counter \in Counters /\ (todo[t][1].do = "add" => todo[t][1].by \in Int)
    BY <1>1, EffectFields DEF Counters
  <2>2. \A v \in 0 .. Width - 1 : Applied(todo[t][1], v) \in 0 .. Width - 1
    BY <1>1, <2>1 DEF Applied
  <2> QED BY <1>1, <2>1, <2>2 DEF CInv, TypeOK
<1> QED BY <1>1, <1>2, <1>3 DEF CInv, TypeOK, StoreInv

\* A call is made from user code, or by a thread that has nothing else to do.
LEMMA CallInv ==
  ASSUME CInv, NEW t \in Threads, NEW call \in Calls, Call(t, call)
  PROVE  CInv'
<1> DEFINE e == todo[t]
           c == <<call>>
<1>1. /\ e \in Seq(Effects) /\ InTurn(e)
      /\ e = << >> \/ e[1].do \in {"hook", "guard"}
      /\ todo' = [todo EXCEPT ![t] = c \o e]
      /\ UNCHANGED <<store, lock, counter>>
  BY HeadThenTail DEF Call, At, CInv, TypeOK, LockInv
<1>2. call \in Effects
  BY EffectTypes
<1>3. /\ call.do \in {"insert", "remove", "get", "clear"}
      /\ call.do # "get" => call.waits = FALSE
      /\ call.do = "clear" => Len(call.entries) = 0 /\ call.next = 0
  <2>1. \/ call \in [do : {"insert"}, key : Keys, size : Sizes, policy : Policies, waits : {FALSE}]
        \/ call \in [do : {"remove"}, key : Keys, waits : {FALSE}]
        \/ call \in [do : {"get"}, key : Keys, keep : BOOLEAN]
        \/ call \in [do : {"clear"}, next : {0}, entries : {<< >>}, waits : {FALSE}]
    BY DEF Calls
  <2>2. CASE call \in [do : {"clear"}, next : {0}, entries : {<< >>}, waits : {FALSE}]
    <3>1. call.entries = << >> /\ call.next = 0 /\ call.do = "clear" /\ call.waits = FALSE
      BY <2>2
    <3> QED BY <3>1, EmptySeq
  <2> QED BY <2>1, <2>2
<1>4. c \in Seq(Effects) /\ c # << >> /\ c[1] = call /\ \A i \in DOMAIN c : i = 1
  BY <1>2
<1>5. InTurn(c) /\ Frees(c)
  <2> HIDE DEF c
  <2>1. InTurn(c)
    BY <1>3, <1>4 DEF InTurn
  <2>2. Frees(c)
    BY <1>3, <1>4, FreesIf
  <2> QED BY <2>1, <2>2
<1> HIDE DEF c
<1>6. c \o e \in Seq(Effects) /\ c \o e # << >> /\ (c \o e)[1] = call
  BY <1>1, <1>4, FirstOfConcat
<1>7. InTurn(c \o e)
  <2>1. \A i \in DOMAIN e : e[i].do \in {"hook", "hooks", "guard"}
    <3> SUFFICES ASSUME NEW i \in DOMAIN e PROVE e[i].do \in {"hook", "hooks", "guard"}
      OBVIOUS
    <3>1. DOMAIN e = 1 .. Len(e) /\ Len(e) \in Nat /\ (Len(e) = 0 => e = << >>)
      BY <1>1, LenProperties, EmptySeq
    <3>2. 1 \in DOMAIN e /\ e # << >> /\ (i = 1 \/ 1 < i)
      BY <3>1, EmptySeq
    <3> QED BY <1>1, <3>2 DEF InTurn
  <2> QED BY <1>1, <1>4, <1>5, <2>1, ConcatInTurn
<1>8. /\ todo' \in [Threads -> Seq(Effects)] /\ todo'[t] = c \o e
      /\ \A u \in Threads \ {t} : todo'[u] = todo[u]
  <2> HIDE DEF e
  <2> QED BY <1>1, <1>6 DEF CInv, TypeOK
<1>9. ASSUME NEW x \in Shards
      PROVE  /\ Owed(t, x)' = Owed(t, x)
             /\ ~ Waits(t, x) /\ ~ Waits(t, x)'
  <2>1. Cardinality(Owing(c \o e, x)) = Cardinality(Owing(c, x)) + Cardinality(Owing(e, x))
    BY <1>1, <1>4, OwingSum
  <2>2. Cardinality(Owing(c, x)) = 0 /\ Cardinality(Owing(e, x)) \in Nat
    BY <1>1, <1>5, OwingType DEF Frees
  <2>3. Owed(t, x)' = Cardinality(Owing(c \o e, x)) /\ Owed(t, x) = Cardinality(Owing(e, x))
    BY <1>8 DEF Owed
  <2>4. ~ Waits(t, x)
    BY <1>1, WaitsIsHead DEF Waiting
  <2>5. ~ Waits(t, x)'
    <3>1. Head(todo'[t]) = call
      BY <1>6, <1>8, HeadThenTail
    <3> QED BY <1>3, <3>1 DEF Waits, At
  <2> QED BY <2>1, <2>2, <2>3, <2>4, <2>5
<1>10. ASSUME NEW x \in Shards
       PROVE  /\ \A u \in Threads \ {t} :
                   /\ lock'[x].readers[u] = lock[x].readers[u]
                   /\ lock'[x].writer = u <=> lock[x].writer = u
                   /\ Writes(u, x) => lock'[x].readers[t] = 0
              /\ Waits(t, x)' => lock'[x].writer = t
              /\ Writes(t, x)' => \A u \in Threads : lock'[x].readers[u] = 0
              /\ lock'[x].readers[t] + (IF Writes(t, x)' THEN 1 ELSE 0) = Owed(t, x)'
  <2>1. Writes(t, x)' <=> Writes(t, x)
    BY <1>1, <1>9 DEF Writes
  <2>2. /\ \A u \in Threads : Writes(u, x) => \A r \in Threads : lock[x].readers[r] = 0
        /\ lock[x].readers[t] + (IF Writes(t, x) THEN 1 ELSE 0) = Owed(t, x)
    BY DEF CInv, LockInv, Owed
  <2> QED BY <1>1, <1>9, <2>1, <2>2
<1>11. LockInv'
  BY <1>7, <1>8, <1>10, LockStep, ZenonT(40) DEF CInv, TypeOK
<1> QED BY <1>1, <1>8, <1>11 DEF CInv, TypeOK, StoreInv

\* A thread that has waited for a shard, and is granted it, is its writer;
\* nobody reads or writes it, and the thread owes no lock on it yet.
LEMMA Granting ==
  ASSUME CInv, NEW t \in Threads, todo[t] # << >>,
         todo[t][1].do \in {"insert", "remove", "clear"}, todo[t][1].waits
  PROVE  /\ Target(t) \in Shards /\ Waits(t, Target(t))
         /\ todo[t] \in Seq(Effects) /\ InTurn(todo[t])
         /\ Head(todo[t]) = todo[t][1] /\ todo[t][1] \in Effects
         /\ lock[Target(t)].writer = t
         /\ todo[t][1].do = "clear" => Target(t) = todo[t][1].next
         /\ todo[t][1].do # "clear" => Target(t) = ShardOf(todo[t][1].key)
         /\ \A x \in Shards :
              /\ Waits(t, x) <=> x = Target(t)
              /\ Cardinality(Owing(<<Head(todo[t])>>, x)) = 0
         /\ Unread(Target(t)) => Owed(t, Target(t)) = 0
<1>1. /\ todo[t] \in Seq(Effects) /\ InTurn(todo[t]) /\ 1 \in DOMAIN todo[t]
      /\ Head(todo[t]) = todo[t][1] /\ todo[t][1] \in Effects
      /\ <<Head(todo[t])>> \in Seq(Effects)
  BY HeadThenTail, LenProperties DEF CInv, TypeOK, LockInv
<1>2. /\ todo[t][1].do = "clear" => Target(t) = todo[t][1].next
      /\ todo[t][1].do # "clear" => Target(t) = ShardOf(todo[t][1].key)
  BY <1>1 DEF Target, At
<1>3. Target(t) \in Shards
  <2>1. CASE todo[t][1].do = "clear"
    <3>1. todo[t][1].next < ShardCount /\ todo[t][1].next \in 0 .. ShardCount
      BY <1>1, <2>1, EffectFields DEF InTurn
    <3> QED BY <1>2, <2>1, <3>1 DEF Shards
  <2>2. CASE todo[t][1].do # "clear"
    BY <1>1, <1>2, <2>2, EffectFields, ShardOfType
  <2> QED BY <2>1, <2>2
<1>4. \A x \in Shards : Waits(t, x) <=> x = Target(t)
  BY <1>1 DEF Waits, At
<1>5. lock[Target(t)].writer = t
  BY <1>3, <1>4 DEF CInv, LockInv
<1>6. \A x \in Shards : Cardinality(Owing(<<Head(todo[t])>>, x)) = 0
  <2>1. \A x \in Shards : Unlock(x).do = "unlock" /\ Guard(x).do = "guard"
    BY DEF Unlock, Guard
  <2> QED BY <1>1, <2>1, OwingOne
<1>7. ASSUME Unread(Target(t)) PROVE Owed(t, Target(t)) = 0
  <2>1. lock[Target(t)].readers[t] = 0 /\ ~ Writes(t, Target(t))
    BY <1>3, <1>4, <1>7 DEF Unread, Writes
  <2> QED BY <1>3, <2>1 DEF CInv, LockInv, Owed
<1> QED BY <1>1, <1>2, <1>3, <1>4, <1>5, <1>6, <1>7

\* The step of a writer that keeps its lock: it owes one lock more, on its shard.
LEMMA WriteStep ==
  ASSUME CInv, NEW t \in Threads, todo[t] # << >>,
         todo[t][1].do \in {"insert", "remove", "clear"}, Granted(t),
         NEW new \in Seq(Effects), new # << >>, ~ Waiting(new[1]), InTurn(new),
         \A x \in Shards : Cardinality(Owing(new, x)) = IF x = Target(t) THEN 1 ELSE 0,
         Then(t, new), UNCHANGED lock
  PROVE  todo' \in [Threads -> Seq(Effects)] /\ LockInv'
<1> DEFINE s == Target(t)
           h == <<Head(todo[t])>>
<1>1. /\ todo[t] \in Seq(Effects) /\ InTurn(todo[t])
      /\ todo[t][1].waits /\ Unread(s)
  BY HeadThenTail DEF CInv, TypeOK, LockInv, Granted
<1>2. /\ s \in Shards /\ lock[s].writer = t
      /\ \A x \in Shards : (Waits(t, x) <=> x = s) /\ Cardinality(Owing(h, x)) = 0
      /\ Owed(t, s) = 0
  BY <1>1, Granting
<1>3. /\ todo' \in [Threads -> Seq(Effects)]
      /\ todo'[t] = new \o Tail(todo[t])
      /\ InTurn(todo'[t])
      /\ \A x \in Shards : Owed(t, x)' = Cardinality(Owing(new, x)) + Owed(t, x)
                                           - Cardinality(Owing(h, x))
      /\ \A u \in Threads \ {t} : todo'[u] = todo[u]
  BY <1>1, ThenTodo DEF CInv, TypeOK
<1> HIDE DEF s, h
<1>4. ASSUME NEW x \in Shards
      PROVE  /\ Owed(t, x)' = (IF x = s THEN 1 ELSE 0) + Owed(t, x)
             /\ ~ Waits(t, x)'
             /\ lock'[x] = lock[x]
  <2>1. Owed(t, x) \in Nat
    BY <1>1, OwingType DEF Owed
  <2>2. Cardinality(Owing(new, x)) = IF x = s THEN 1 ELSE 0
    BY DEF s
  <2>3. Owed(t, x)' = (IF x = s THEN 1 ELSE 0) + Owed(t, x)
    BY <1>2, <1>3, <2>1, <2>2
  <2>4. ~ Waits(t, x)'
    BY <1>1, <1>3, ThenRuns
  <2> QED BY <2>3, <2>4
<1>5. ASSUME NEW x \in Shards
      PROVE  /\ \A u \in Threads \ {t} :
                  /\ lock'[x].readers[u] = lock[x].readers[u]
                  /\ lock'[x].writer = u <=> lock[x].writer = u
                  /\ Writes(u, x) => lock'[x].readers[t] = 0
             /\ Waits(t, x)' => lock'[x].writer = t
             /\ Writes(t, x)' => \A u \in Threads : lock'[x].readers[u] = 0
             /\ lock'[x].readers[t] + (IF Writes(t, x)' THEN 1 ELSE 0) = Owed(t, x)'
  <2>1. /\ \A u \in Threads : Writes(u, x) => \A r \in Threads : lock[x].readers[r] = 0
        /\ lock[x].readers[t] + (IF Writes(t, x) THEN 1 ELSE 0) = Owed(t, x)
    BY DEF CInv, LockInv, Owed
  <2>2. CASE x = s
    <3>1. Writes(t, x)' /\ \A u \in Threads : lock[x].readers[u] = 0
      BY <1>1, <1>2, <1>4, <2>2 DEF Writes, Unread
    <3> QED BY <1>2, <1>4, <2>1, <2>2, <3>1
  <2>3. CASE x # s
    <3>1. Writes(t, x)' <=> Writes(t, x)
      BY <1>2, <1>4, <2>3 DEF Writes
    <3>2. Owed(t, x)' = Owed(t, x)
      <4>1. Owed(t, x) \in Nat
        BY <1>1, OwingType DEF Owed
      <4> QED BY <1>4, <2>3, <4>1
    <3> QED BY <1>4, <2>1, <3>1, <3>2
  <2> QED BY <2>2, <2>3
<1>6. LockInv'
  BY <1>3, <1>5, LockStep DEF CInv, TypeOK
<1> QED BY <1>3, <1>6

\* A map that shard s may hold.
MapOK(s, m) ==
  /\ DOMAIN m \subseteq {k \in Keys : ShardOf(k) = s}
  /\ \A k \in DOMAIN m : m[k] \in [size : Sizes, policy : Policies]
  /\ Countable(m)

\* A part of a shard's map is a map of that shard.
LEMMA SubMap ==
  ASSUME NEW s, NEW m, MapOK(s, m), NEW V
  PROVE  /\ MapOK(s, Without(m, V))
         /\ V \subseteq DOMAIN m => MapOK(s, Restrict(m, V)) /\ DOMAIN Restrict(m, V) = V
<1>1. ASSUME NEW D, D \subseteq DOMAIN m PROVE MapOK(s, Restrict(m, D))
  <2> DEFINE r == Restrict(m, D)
  <2>1. DOMAIN r = D /\ \A k \in D : r[k] = m[k]
    BY DEF Restrict
  <2> HIDE DEF r
  <2>2. BytesOf(r) \in SUBSET BytesOf(m) /\ DOMAIN r \in SUBSET DOMAIN m
    BY <1>1, <2>1 DEF BytesOf
  <2>3. Countable(r)
    BY <2>2, FS_Subset DEF Countable, MapOK
  <2> QED BY <1>1, <2>1, <2>3 DEF MapOK, r
<1>2. MapOK(s, Without(m, V))
  BY <1>1 DEF Without
<1>3. V \subseteq DOMAIN m => MapOK(s, Restrict(m, V)) /\ DOMAIN Restrict(m, V) = V
  BY <1>1 DEF Restrict
<1> QED BY <1>2, <1>3

\* Replacing the map of one shard keeps the types, if the new map is one that the
\* shard may hold.
LEMMA StoreStep ==
  ASSUME CInv, NEW s \in Shards, NEW m, MapOK(s, m), store' = [store EXCEPT ![s] = m]
  PROVE  /\ StoreInv'
         /\ \A x \in Shards :
              /\ DOMAIN store'[x] \subseteq {k \in Keys : ShardOf(k) = x}
              /\ \A k \in DOMAIN store'[x] :
                   store'[x][k] \in [size : Sizes, policy : Policies]
<1>1. \A x \in Shards : MapOK(x, store[x])
  BY DEF CInv, TypeOK, StoreInv, MapOK
<1>2. DOMAIN store' = Shards /\ \A x \in Shards : store'[x] = IF x = s THEN m ELSE store[x]
  BY DEF CInv, StoreInv
<1>3. \A x \in Shards : MapOK(x, store'[x])
  BY <1>1, <1>2
<1> QED BY <1>2, <1>3 DEF StoreInv, MapOK

\* The calls that a writer makes once the shard is free.
LEMMA RemoveInv ==
  ASSUME CInv, NEW t \in Threads, Remove(t)
  PROVE  CInv'
<1> DEFINE k == todo[t][1].key
           s == ShardOf(k)
<1>1. /\ todo[t] # << >> /\ todo[t][1].do = "remove" /\ todo[t][1] \in Effects
      /\ Head(todo[t]) = todo[t][1]
      /\ Granted(t) /\ todo[t][1].waits
      /\ UNCHANGED <<lock, counter>>
  BY HeadThenTail DEF Remove, At, Granted, CInv, TypeOK
<1>2. /\ k \in Keys /\ s \in Shards /\ Target(t) = s
  BY <1>1, EffectFields, ShardOfType, Granting
<1>3. MapOK(s, store[s])
  BY <1>2 DEF CInv, TypeOK, StoreInv, MapOK
<1>4. CASE k \in DOMAIN store[s]
  <2>1. PICK n \in Nat : n = store[s][k].size
    BY <1>3, <1>4 DEF MapOK
  <2> DEFINE new == RemoveEffects(k, n)
  <2>2. Then(t, new) /\ store' = [store EXCEPT ![s] = Without(store[s], {k})]
    BY <1>1, <1>4, <2>1 DEF Remove
  <2>3. new = RemoveEffects(k, n)
    OBVIOUS
  <2> HIDE DEF new
  <2>4. /\ new \in Seq(Effects) /\ new # << >> /\ new[1].do = "add" /\ InTurn(new)
        /\ \A x \in Shards : Cardinality(Owing(new, x)) = IF x = ShardOf(k) THEN 1 ELSE 0
    <3> HIDE DEF k, s
    <3>1. k \in Keys
      BY <1>2
    <3> QED BY <2>3, <3>1, RemoveWork
  <2>5. todo' \in [Threads -> Seq(Effects)] /\ LockInv'
    BY <1>1, <1>2, <2>2, <2>4, WriteStep DEF Waiting
  <2>6. MapOK(s, Without(store[s], {k}))
    BY <1>3, SubMap
  <2>7. /\ StoreInv'
        /\ \A x \in Shards :
             /\ DOMAIN store'[x] \subseteq {j \in Keys : ShardOf(j) = x}
             /\ \A j \in DOMAIN store'[x] :
                  store'[x][j] \in [size : Sizes, policy : Policies]
    BY <1>2, <2>2, <2>6, StoreStep
  <2> QED BY <1>1, <2>5, <2>7 DEF CInv, TypeOK
<1>5. CASE k \notin DOMAIN store[s]
  <2> DEFINE new == <<Unlock(s)>>
  <2>1. Then(t, new) /\ UNCHANGED store
    BY <1>1, <1>5 DEF Remove
  <2>2. /\ new \in Seq(Effects) /\ new # << >> /\ new[1].do = "unlock"
        /\ \A x \in Shards : Cardinality(Owing(new, x)) = IF x = s THEN 1 ELSE 0
    <3>1. new # << >> /\ new[1].do = "unlock"
      BY DEF Unlock
    <3> QED BY <1>2, <3>1, OneLock
  <2>3. InTurn(new)
    BY DEF InTurn, Unlock
  <2> HIDE DEF new
  <2>4. todo' \in [Threads -> Seq(Effects)] /\ LockInv'
    BY <1>1, <1>2, <2>1, <2>2, <2>3, WriteStep DEF Waiting
  <2> QED BY <1>1, <2>1, <2>4 DEF CInv, TypeOK, StoreInv
<1> QED BY <1>4, <1>5

\* A clear empties its shard and keeps the hooks for the next one.
LEMMA DrainInv ==
  ASSUME CInv, NEW t \in Threads, Drain(t)
  PROVE  CInv'
<1> DEFINE call == todo[t][1]
           s == call.next
           m == -TotalSize(store[s])
           n == -Cardinality(DOMAIN store[s])
           new == <<Add("current_size", m), Add("entry_count", n),
                    Unlock(s), Drained(call, s)>>
<1>1. /\ todo[t] # << >> /\ call.do = "clear" /\ call \in Effects
      /\ Head(todo[t]) = call
      /\ Granted(t) /\ call.waits
      /\ Then(t, new) /\ store' = [store EXCEPT ![s] = << >>]
      /\ UNCHANGED <<lock, counter>>
  BY HeadThenTail DEF Drain, At, Granted, CInv, TypeOK
<1> HIDE DEF new
<1>2. /\ s \in Shards /\ Target(t) = s
  <2>1. todo[t] # << >> /\ todo[t][1].do = "clear" /\ todo[t][1].waits
    BY <1>1
  <2>2. Target(t) \in Shards /\ Target(t) = todo[t][1].next
    BY <2>1, Granting
  <2> QED BY <2>2
<1>3. MapOK(s, store[s])
  BY <1>2 DEF CInv, TypeOK, StoreInv, MapOK
<1>4. m \in Int /\ n \in Int /\ DOMAIN store[s] \in SUBSET Keys
  <2>1. TotalSize(store[s]) \in Nat /\ Cardinality(DOMAIN store[s]) \in Nat
    BY <1>3, TotalType, FS_CardinalityType DEF MapOK, Countable
  <2> QED BY <1>3, <2>1 DEF MapOK
<1>5. Len(call.entries) <= s
  BY <1>1, HeadThenTail, LenProperties DEF CInv, TypeOK, LockInv, InTurn
<1> HIDE DEF m, n
<1>6. new = <<Add("current_size", m), Add("entry_count", n), Unlock(s), Drained(call, s)>>
  BY DEF new
<1>7. /\ new \in Seq(Effects) /\ new # << >> /\ new[1].do = "add" /\ InTurn(new)
      /\ \A x \in Shards : Cardinality(Owing(new, x)) = IF x = s THEN 1 ELSE 0
  <2> HIDE DEF call, s
  <2>1. call \in Effects /\ call.do = "clear" /\ s \in Shards /\ s = call.next
    BY <1>1, <1>2 DEF s
  <2>2. /\ Len(call.entries) <= s /\ DOMAIN store[s] \in SUBSET Keys
        /\ m \in Int /\ n \in Int
    BY <1>4, <1>5
  <2> QED BY <1>6, <2>1, <2>2, DrainWork, SMTT(40)
<1>8. todo' \in [Threads -> Seq(Effects)] /\ LockInv'
  BY <1>1, <1>2, <1>7, WriteStep DEF Waiting
<1>9. MapOK(s, << >>)
  <2>1. DOMAIN << >> = {}
    OBVIOUS
  <2> QED BY <2>1, TotalEmpty DEF MapOK
<1>10. /\ StoreInv'
      /\ \A x \in Shards :
           /\ DOMAIN store'[x] \subseteq {j \in Keys : ShardOf(j) = x}
           /\ \A j \in DOMAIN store'[x] :
                store'[x][j] \in [size : Sizes, policy : Policies]
  BY <1>1, <1>2, <1>9, StoreStep
<1> QED BY <1>1, <1>8, <1>10 DEF CInv, TypeOK

\* An insert stores its entry, drops its victims and gives the lock back.
LEMMA InsertInv ==
  ASSUME CInv, NEW t \in Threads, Insert(t)
  PROVE  CInv'
<1> DEFINE call == todo[t][1]
           k == call.key
           s == ShardOf(k)
           others == Without(store[s], {k})
           old == IF k \in DOMAIN store[s] THEN <<store[s][k]>> ELSE << >>
           entry == [size |-> call.size, policy |-> call.policy]
           h == <<Head(todo[t])>>
<1>1. /\ todo[t] # << >> /\ call.do = "insert" /\ call \in Effects
      /\ Head(todo[t]) = call
      /\ Granted(t) /\ call.waits /\ todo[t] \in Seq(Effects) /\ InTurn(todo[t])
  BY HeadThenTail DEF Insert, At, Granted, CInv, TypeOK, LockInv
<1>2. /\ lock' = [lock EXCEPT ![s].writer = NoThread]
      /\ UNCHANGED counter
  BY <1>1 DEF Insert
<1>3. PICK V \in Contract(s)!Victims(others, call.size) :
        /\ store' = [store EXCEPT ![s] = With(Without(others, V), k, entry)]
        /\ Then(t, InsertEffects(old, call.size, Restrict(others, V)))
  BY <1>1 DEF Insert
<1>4. V \subseteq DOMAIN others
  BY <1>3 DEF Contract!Victims
<1>5. /\ k \in Keys /\ call.size \in Sizes /\ call.policy \in Policies
      /\ s \in Shards /\ Target(t) = s
  <2>1. k \in Keys /\ call.size \in Sizes /\ call.policy \in Policies
    BY <1>1, EffectFields
  <2>2. s \in Shards
    BY <2>1, ShardOfType
  <2>3. Target(t) = s
    BY <1>1, Granting
  <2> QED BY <2>1, <2>2, <2>3
<1>6. /\ lock[s].writer = t /\ Unread(s) /\ Owed(t, s) = 0
      /\ \A x \in Shards : (Waits(t, x) <=> x = s) /\ Cardinality(Owing(h, x)) = 0
  <2>1. Unread(s)
    BY <1>1, <1>5 DEF Granted
  <2> QED BY <1>1, <1>5, <2>1, Granting
<1>7. MapOK(s, store[s])
  BY <1>5 DEF CInv, TypeOK, StoreInv, MapOK
<1> HIDE DEF call, h
<1>8. MapOK(s, others) /\ k \notin DOMAIN others
  <2>1. MapOK(s, others)
    BY <1>7, SubMap
  <2> QED BY <2>1 DEF Without, Restrict
<1> DEFINE victims == Restrict(others, V)
           rest == Without(others, V)
<1>9. MapOK(s, victims) /\ MapOK(s, rest) /\ k \notin DOMAIN rest
  <2>1. MapOK(s, victims) /\ MapOK(s, rest)
    BY <1>4, <1>8, SubMap
  <2> QED BY <1>8, <2>1 DEF Without, Restrict
<1>10. old # << >> => old[1].size \in Nat
  <2>1. CASE k \in DOMAIN store[s]
    BY <1>7, <2>1 DEF MapOK
  <2>2. CASE k \notin DOMAIN store[s]
    BY <2>2
  <2> QED BY <2>1, <2>2
<1> HIDE DEF victims, rest, old, others
<1>11. PICK new : new = InsertEffects(old, call.size, victims)
  OBVIOUS
<1>12. new \in Seq(Effects) /\ new # << >> /\ new[1].do = "add" /\ InTurn(new) /\ Frees(new)
  <2>1. Countable(victims) /\ DOMAIN victims \in SUBSET Keys /\ call.size \in Nat
    BY <1>5, <1>9 DEF MapOK
  <2> QED BY <1>10, <1>11, <2>1, InsertWork
<1>13. Then(t, new)
  BY <1>3, <1>11 DEF victims
<1>14. /\ todo' \in [Threads -> Seq(Effects)]
       /\ todo'[t] = new \o Tail(todo[t])
       /\ InTurn(todo'[t])
       /\ \A x \in Shards : Owed(t, x)' = Cardinality(Owing(new, x)) + Owed(t, x)
                                            - Cardinality(Owing(h, x))
       /\ \A u \in Threads \ {t} : todo'[u] = todo[u]
  BY <1>1, <1>12, <1>13, ThenTodo DEF CInv, TypeOK, call, h
<1>15. ASSUME NEW x \in Shards
       PROVE  Owed(t, x)' = Owed(t, x) /\ ~ Waits(t, x)'
  <2>1. Owed(t, x) \in Nat
    BY <1>1, OwingType DEF Owed
  <2>2. Owed(t, x)' = Owed(t, x)
    BY <1>6, <1>12, <1>14, <2>1 DEF Frees
  <2>3. ~ Waits(t, x)'
    BY <1>1, <1>12, <1>14, ThenRuns DEF Waiting
  <2> QED BY <2>2, <2>3
<1>16. /\ lock' \in [Shards -> [writer : Threads \cup {NoThread}, readers : [Threads -> Nat]]]
       /\ \A x \in Shards : /\ lock'[x].readers = lock[x].readers
                            /\ lock'[x].writer = IF x = s THEN NoThread ELSE lock[x].writer
  <2> HIDE DEF s
  <2>1. lock \in [Shards -> [writer : Threads \cup {NoThread}, readers : [Threads -> Nat]]]
    BY DEF CInv, TypeOK
  <2>2. lock' = [lock EXCEPT ![s].writer = NoThread] /\ s \in Shards
    BY <1>2, <1>5
  <2> QED BY <2>1, <2>2
<1>17. ASSUME NEW x \in Shards
       PROVE  /\ \A u \in Threads \ {t} :
                   /\ lock'[x].readers[u] = lock[x].readers[u]
                   /\ lock'[x].writer = u <=> lock[x].writer = u
                   /\ Writes(u, x) => lock'[x].readers[t] = 0
              /\ Waits(t, x)' => lock'[x].writer = t
              /\ Writes(t, x)' => \A u \in Threads : lock'[x].readers[u] = 0
              /\ lock'[x].readers[t] + (IF Writes(t, x)' THEN 1 ELSE 0) = Owed(t, x)'
  <2>1. /\ \A u \in Threads : Writes(u, x) => \A r \in Threads : lock[x].readers[r] = 0
        /\ lock[x].readers[t] + (IF Writes(t, x) THEN 1 ELSE 0) = Owed(t, x)
    BY DEF CInv, LockInv, Owed
  <2>2. CASE x = s
    <3>1. ~ Writes(t, x)' /\ ~ Writes(t, x)
      BY <1>6, <1>16, <2>2 DEF Writes
    <3> QED BY <1>6, <1>15, <1>16, <2>1, <2>2, <3>1
  <2>3. CASE x # s
    <3>1. Writes(t, x)' <=> Writes(t, x)
      BY <1>6, <1>15, <1>16, <2>3 DEF Writes
    <3> QED BY <1>15, <1>16, <2>1, <2>3, <3>1
  <2> QED BY <2>2, <2>3
<1>18. LockInv'
  BY <1>14, <1>17, LockStep DEF CInv, TypeOK
<1>19. MapOK(s, With(rest, k, entry))
  <2>1. entry \in [size : Sizes, policy : Policies] /\ entry.size \in Nat
    BY <1>5
  <2> HIDE DEF entry
  <2>2. Countable(With(rest, k, entry))
    BY <1>9, <2>1, TotalWith DEF MapOK
  <2>3. /\ DOMAIN With(rest, k, entry) = DOMAIN rest \cup {k}
        /\ \A j \in DOMAIN With(rest, k, entry) :
             With(rest, k, entry)[j] \in [size : Sizes, policy : Policies]
    BY <1>9, <2>1 DEF With, MapOK
  <2> QED BY <1>5, <1>9, <2>2, <2>3 DEF MapOK
<1>20. /\ StoreInv'
       /\ \A x \in Shards :
            /\ DOMAIN store'[x] \subseteq {j \in Keys : ShardOf(j) = x}
            /\ \A j \in DOMAIN store'[x] :
                 store'[x][j] \in [size : Sizes, policy : Policies]
  <2>1. store' = [store EXCEPT ![s] = With(rest, k, entry)]
    BY <1>3 DEF rest
  <2> HIDE DEF s, k, entry
  <2> QED BY <1>5, <1>19, <2>1, StoreStep
<1> QED BY <1>2, <1>14, <1>16, <1>18, <1>20 DEF CInv, TypeOK

\* A lookup reads its shard, and owes one lock more.
LEMMA GetInv ==
  ASSUME CInv, NEW t \in Threads, Get(t)
  PROVE  CInv'
<1> DEFINE k == todo[t][1].key
           s == ShardOf(k)
           h == <<Head(todo[t])>>
<1>1. /\ todo[t] # << >> /\ todo[t][1].do = "get" /\ todo[t][1] \in Effects
      /\ Head(todo[t]) = todo[t][1]
      /\ todo[t] \in Seq(Effects) /\ InTurn(todo[t]) /\ h \in Seq(Effects)
      /\ UNCHANGED <<store, counter>>
  BY HeadThenTail DEF Get, At, CInv, TypeOK, LockInv
<1>2. /\ Free(s)
      /\ lock' = [lock EXCEPT ![s].readers[t] = @ + 1]
      /\ \E c \in Counters, x \in {Unlock(s), Guard(s)} : Then(t, Count(c, 1) \o <<x>>)
  BY <1>1 DEF Get, Counters, Metrics
<1>3. PICK c \in Counters, x \in {Unlock(s), Guard(s)} : Then(t, Count(c, 1) \o <<x>>)
  BY <1>2
<1>4. s \in Shards
  BY <1>1, EffectFields, ShardOfType
<1> HIDE DEF s, h
<1>5. PICK new : new = Count(c, 1) \o <<x>>
  OBVIOUS
<1>6. /\ new \in Seq(Effects) /\ new # << >> /\ InTurn(new)
      /\ new[1].do \in {"add", "unlock", "guard"}
      /\ \A y \in Shards : Cardinality(Owing(new, y)) = IF y = s THEN 1 ELSE 0
  <2> HIDE DEF k
  <2>1. /\ new \in Seq(Effects) /\ new # << >> /\ InTurn(new)
        /\ new[1].do \in {"add", "unlock", "guard"}
    BY <1>4, <1>5, GetWork
  <2>2. \A y \in Shards : /\ y = s => Cardinality(Owing(new, y)) = 1
                          /\ y # s => Cardinality(Owing(new, y)) = 0
    BY <1>4, <1>5, GetWork, ZenonT(40)
  <2> QED BY <2>1, <2>2
<1>7. \A y \in Shards : Cardinality(Owing(h, y)) = 0
  <2>1. \A y \in Shards : Unlock(y).do = "unlock" /\ Guard(y).do = "guard"
    BY DEF Unlock, Guard
  <2> QED BY <1>1, <2>1, OwingOne DEF h
<1>8. /\ todo' \in [Threads -> Seq(Effects)]
      /\ todo'[t] = new \o Tail(todo[t])
      /\ InTurn(todo'[t])
      /\ \A y \in Shards : Owed(t, y)' = Cardinality(Owing(new, y)) + Owed(t, y)
                                           - Cardinality(Owing(h, y))
      /\ \A u \in Threads \ {t} : todo'[u] = todo[u]
  BY <1>1, <1>3, <1>5, <1>6, ThenTodo DEF CInv, TypeOK, h
<1>9. ASSUME NEW y \in Shards
      PROVE  /\ Owed(t, y)' = Owed(t, y) + IF y = s THEN 1 ELSE 0
             /\ ~ Waits(t, y) /\ ~ Waits(t, y)'
  <2>1. Owed(t, y) \in Nat
    BY <1>1, OwingType DEF Owed
  <2>2. Cardinality(Owing(new, y)) = IF y = s THEN 1 ELSE 0
    BY <1>6
  <2>3. Owed(t, y)' = Owed(t, y) + IF y = s THEN 1 ELSE 0
    BY <1>7, <1>8, <2>1, <2>2
  <2>4. ~ Waits(t, y)
    BY <1>1, WaitsIsHead DEF Waiting
  <2>5. ~ Waits(t, y)'
    BY <1>1, <1>6, <1>8, ThenRuns DEF Waiting
  <2> QED BY <2>3, <2>4, <2>5
<1>10. /\ lock' \in [Shards -> [writer : Threads \cup {NoThread}, readers : [Threads -> Nat]]]
       /\ \A y \in Shards :
            /\ lock'[y].writer = lock[y].writer
            /\ \A u \in Threads :
                 lock'[y].readers[u] = lock[y].readers[u] + IF y = s /\ u = t THEN 1 ELSE 0
  <2>1. lock \in [Shards -> [writer : Threads \cup {NoThread}, readers : [Threads -> Nat]]]
    BY DEF CInv, TypeOK
  <2> DEFINE r == [lock[s].readers EXCEPT ![t] = @ + 1]
             l == [lock[s] EXCEPT !.readers = r]
  <2>2. /\ r \in [Threads -> Nat]
        /\ \A u \in Threads : r[u] = lock[s].readers[u] + IF u = t THEN 1 ELSE 0
    BY <1>4, <2>1
  <2>3. lock' = [lock EXCEPT ![s] = l]
    BY <1>2, <1>4
  <2> HIDE DEF r
  <2>4. /\ l \in [writer : Threads \cup {NoThread}, readers : [Threads -> Nat]]
        /\ l.writer = lock[s].writer /\ l.readers = r
    BY <1>4, <2>1, <2>2
  <2> HIDE DEF l
  <2>5. /\ lock' \in [Shards -> [writer : Threads \cup {NoThread}, readers : [Threads -> Nat]]]
        /\ \A y \in Shards : lock'[y] = IF y = s THEN l ELSE lock[y]
    BY <1>4, <2>1, <2>3, <2>4
  <2>6. \A y \in Shards, u \in Threads : lock[y].readers[u] \in Nat
    BY <2>1
  <2> QED BY <2>2, <2>4, <2>5, <2>6
<1>11. ASSUME NEW y \in Shards
       PROVE  /\ \A u \in Threads \ {t} :
                   /\ lock'[y].readers[u] = lock[y].readers[u]
                   /\ lock'[y].writer = u <=> lock[y].writer = u
                   /\ Writes(u, y) => lock'[y].readers[t] = 0
              /\ Waits(t, y)' => lock'[y].writer = t
              /\ Writes(t, y)' => \A u \in Threads : lock'[y].readers[u] = 0
              /\ lock'[y].readers[t] + (IF Writes(t, y)' THEN 1 ELSE 0) = Owed(t, y)'
  <2>1. /\ \A u \in Threads : Writes(u, y) => \A r \in Threads : lock[y].readers[r] = 0
        /\ lock[y].readers[t] + (IF Writes(t, y) THEN 1 ELSE 0) = Owed(t, y)
    BY DEF CInv, LockInv, Owed
  <2>2. Writes(t, y)' <=> Writes(t, y)
    BY <1>9, <1>10 DEF Writes
  <2>3. \A u \in Threads : lock[y].readers[u] \in Nat
    BY DEF CInv, TypeOK
  <2>4. CASE y = s
    <3>1. lock[y].writer \notin Threads
      BY <1>2, <2>4, ThreadsAssumption DEF Free
    <3>2. \A u \in Threads : ~ Writes(u, y)
      BY <3>1 DEF Writes
    <3>3. lock'[y].readers[t] = Owed(t, y)'
      BY <1>9, <1>10, <2>1, <2>3, <2>4, <3>2
    <3> QED BY <1>9, <1>10, <2>2, <2>3, <2>4, <3>2, <3>3
  <2>5. CASE y # s
    <3>1. \A u \in Threads : lock'[y].readers[u] = lock[y].readers[u]
      BY <1>10, <2>3, <2>5
    <3>2. Owed(t, y)' = Owed(t, y)
      <4>1. Owed(t, y) \in Nat
        BY <1>1, OwingType DEF Owed
      <4> QED BY <1>9, <2>5, <4>1
    <3> QED BY <1>9, <1>10, <2>1, <2>2, <3>1, <3>2
  <2> QED BY <2>4, <2>5
<1>12. LockInv'
  BY <1>8, <1>11, LockStep DEF CInv, TypeOK
<1> QED BY <1>1, <1>8, <1>10, <1>12 DEF CInv, TypeOK, StoreInv

\* A writer that waits keeps readers out and changes no holder.
LEMMA WaitInv ==
  ASSUME CInv, NEW t \in Threads, Wait(t)
  PROVE  CInv'
<1> DEFINE e == todo[t][1]
           s == Target(t)
           w == [e EXCEPT !.waits = TRUE]
           new == [todo[t] EXCEPT ![1] = w]
<1>1. /\ todo[t] # << >> /\ e.do \in {"insert", "remove", "clear"} /\ e \in Effects
      /\ Head(todo[t]) = e /\ ~ e.waits
      /\ todo[t] \in Seq(Effects) /\ InTurn(todo[t]) /\ Len(todo[t]) \in Nat \ {0}
      /\ DOMAIN todo[t] = 1 .. Len(todo[t])
      /\ s < ShardCount /\ Free(s)
      /\ lock' = [lock EXCEPT ![s].writer = t]
      /\ todo' = [todo EXCEPT ![t] = new]
      /\ UNCHANGED <<store, counter>>
  BY HeadThenTail, LenProperties DEF Wait, At, CInv, TypeOK, LockInv
<1>2. /\ s \in Shards
      /\ e.do = "clear" => s = e.next
      /\ e.do # "clear" => s = ShardOf(e.key)
  <2>1. CASE e.do = "clear"
    <3>1. s = e.next /\ e.next \in 0 .. ShardCount
      BY <1>1, <2>1, EffectFields DEF Target, At
    <3> QED BY <1>1, <2>1, <3>1 DEF Shards
  <2>2. CASE e.do # "clear"
    <3>1. s = ShardOf(e.key)
      BY <1>1, <2>2 DEF Target, At
    <3> QED BY <1>1, <2>2, <3>1, EffectFields, ShardOfType
  <2> QED BY <2>1, <2>2
<1> HIDE DEF s
<1>3. /\ w \in Effects /\ w.do = e.do /\ w.waits = TRUE
      /\ e.do = "clear" => w.next = e.next /\ w.entries = e.entries
      /\ e.do # "clear" => w.key = e.key
  <2>1. CASE e.do = "clear"
    <3> DEFINE E == UNION {[1 .. i -> [do : {"hooks"}, keys : SUBSET Keys]]
                             : i \in 0 .. ShardCount}
               C == [do : {"clear"}, next : 0 .. ShardCount, waits : BOOLEAN, entries : E]
    <3>1. e \in C
      <4>1. << >> \in E
        BY EmptySeq, LenProperties
      <4> HIDE DEF E
      <4>2. \/ e \in [do : {"clear"}, next : {0}, entries : {<< >>}, waits : {FALSE}]
            \/ e \in C
        <5>1. e \in Calls \/ e \in C
          BY <1>1, <2>1 DEF Effects, E
        <5> QED BY <2>1, <5>1 DEF Calls
      <4>3. CASE e \in [do : {"clear"}, next : {0}, entries : {<< >>}, waits : {FALSE}]
        <5> HIDE DEF e
        <5>1. /\ DOMAIN e = {"do", "next", "entries", "waits"}
              /\ e.do = "clear" /\ e.next = 0 /\ e.entries = << >> /\ e.waits = FALSE
              /\ e = [f \in {"do", "next", "entries", "waits"} |-> e[f]]
          BY <4>3
        <5>2. 0 \in 0 .. ShardCount
          OBVIOUS
        <5> QED BY <4>1, <5>1, <5>2
      <4> QED BY <4>2, <4>3
    <3> HIDE DEF E, e
    <3>2. w \in C /\ w.waits = TRUE /\ w.do = e.do /\ w.next = e.next /\ w.entries = e.entries
      BY <3>1
    <3>3. w \in Effects
      BY <3>2 DEF Effects, E
    <3> QED BY <2>1, <3>2, <3>3
  <2>2. CASE e.do = "insert"
    <3>1. e \in [do : {"insert"}, key : Keys, size : Sizes, policy : Policies, waits : {FALSE}]
      BY <1>1, <2>2 DEF Effects, Calls
    <3>2. w \in [do : {"insert"}, key : Keys, size : Sizes, policy : Policies, waits : {TRUE}]
      <4> HIDE DEF e
      <4> QED BY <3>1
    <3> QED BY <2>2, <3>1, <3>2 DEF Effects
  <2>3. CASE e.do = "remove"
    <3>1. e \in [do : {"remove"}, key : Keys, waits : {FALSE}]
      BY <1>1, <2>3 DEF Effects, Calls
    <3>2. w \in [do : {"remove"}, key : Keys, waits : {TRUE}]
      <4> HIDE DEF e
      <4> QED BY <3>1
    <3> QED BY <2>3, <3>1, <3>2 DEF Effects
  <2> QED BY <1>1, <2>1, <2>2, <2>3
<1> HIDE DEF w
<1>4. /\ new \in Seq(Effects) /\ DOMAIN new = DOMAIN todo[t] /\ new[1] = w
      /\ \A i \in DOMAIN new : i # 1 => new[i] = todo[t][i]
      /\ new # << >>
  <2>1. new \in Seq(Effects) /\ Len(new) = Len(todo[t])
    BY <1>1, <1>3, ExceptSeq
  <2>2. DOMAIN new = DOMAIN todo[t] /\ new # << >>
    BY <1>1, <2>1, EmptySeq, LenProperties
  <2> QED BY <1>1, <2>1, <2>2
<1> HIDE DEF new
<1>5. InTurn(new)
  <2> SUFFICES ASSUME NEW i \in DOMAIN new
               PROVE  /\ new[i].do \notin {"add", "reset", "unlock"} =>
                           \A j \in DOMAIN new : i < j => new[j].do \in {"hook", "hooks", "guard"}
                      /\ new[i].do \in {"insert", "remove", "clear"} /\ new[i].waits =>
                           i = 1 /\ (new[i].do = "clear" => new[i].next < ShardCount)
                      /\ new[i].do = "clear" => Len(new[i].entries) <= new[i].next
    BY DEF InTurn
  <2>1. new[i].do = todo[t][i].do /\ \A j \in DOMAIN new : i < j => new[j] = todo[t][j]
    BY <1>1, <1>3, <1>4
  <2>2. CASE i = 1
    <3>1. new[i].do = "clear" => new[i].next < ShardCount /\ Len(new[i].entries) <= new[i].next
      <4>1. new[i] = w /\ 1 \in DOMAIN todo[t]
        BY <1>1, <1>4, <2>2
      <4>2. e.do = "clear" => Len(e.entries) <= e.next
        BY <1>1, <4>1 DEF InTurn
      <4> HIDE DEF e
      <4> QED BY <1>1, <1>2, <1>3, <4>1, <4>2
    <3> QED BY <1>1, <1>4, <2>1, <2>2, <3>1 DEF InTurn
  <2>3. CASE i # 1
    BY <1>1, <1>4, <2>1, <2>3 DEF InTurn
  <2> QED BY <2>2, <2>3
<1>6. /\ todo' \in [Threads -> Seq(Effects)] /\ todo'[t] = new
      /\ \A u \in Threads \ {t} : todo'[u] = todo[u]
  BY <1>1, <1>4 DEF CInv, TypeOK
<1>7. ASSUME NEW x \in Shards
      PROVE  /\ Owed(t, x)' = Owed(t, x)
             /\ ~ Waits(t, x)
             /\ Waits(t, x)' <=> x = s
  <2>1. Unlock(x).do = "unlock" /\ Guard(x).do = "guard"
    BY DEF Unlock, Guard
  <2>2. Owing(new, x) = Owing(todo[t], x)
    BY <1>1, <1>3, <1>4, <2>1 DEF Owing
  <2>3. ~ Waits(t, x)
    BY <1>1, WaitsIsHead DEF Waiting
  <2>4. Head(todo'[t]) = w
    BY <1>4, <1>6, HeadThenTail
  <2>5. Waits(t, x)' <=> x = s
    BY <1>1, <1>2, <1>3, <1>4, <1>6, <2>4 DEF Waits, At, Target
  <2> QED BY <1>6, <2>2, <2>3, <2>5 DEF Owed
<1>8. /\ lock' \in [Shards -> [writer : Threads \cup {NoThread}, readers : [Threads -> Nat]]]
      /\ \A x \in Shards : /\ lock'[x].readers = lock[x].readers
                           /\ lock'[x].writer = IF x = s THEN t ELSE lock[x].writer
  <2>1. lock \in [Shards -> [writer : Threads \cup {NoThread}, readers : [Threads -> Nat]]]
    BY DEF CInv, TypeOK
  <2> QED BY <1>1, <1>2, <2>1
<1>9. lock[s].writer \notin Threads
  BY <1>1, ThreadsAssumption DEF Free
<1>10. ASSUME NEW x \in Shards
       PROVE  /\ \A u \in Threads \ {t} :
                   /\ lock'[x].readers[u] = lock[x].readers[u]
                   /\ lock'[x].writer = u <=> lock[x].writer = u
                   /\ Writes(u, x) => lock'[x].readers[t] = 0
              /\ Waits(t, x)' => lock'[x].writer = t
              /\ Writes(t, x)' => \A u \in Threads : lock'[x].readers[u] = 0
              /\ lock'[x].readers[t] + (IF Writes(t, x)' THEN 1 ELSE 0) = Owed(t, x)'
  <2>1. /\ \A u \in Threads : Writes(u, x) => \A r \in Threads : lock[x].readers[r] = 0
        /\ lock[x].readers[t] + (IF Writes(t, x) THEN 1 ELSE 0) = Owed(t, x)
    BY DEF CInv, LockInv, Owed
  <2>2. Writes(t, x)' <=> Writes(t, x)
    BY <1>7, <1>8, <1>9 DEF Writes
  <2> QED BY <1>7, <1>8, <1>9, <2>1, <2>2
<1>11. LockInv'
  BY <1>5, <1>6, <1>10, LockStep DEF CInv, TypeOK
<1> QED BY <1>1, <1>6, <1>8, <1>11 DEF CInv, TypeOK, StoreInv

\* A thread does or unwinds the effects in front, and releases what they owe:
\* if it writes a shard, it owes just that lock on it; if not, it owes as many
\* locks as it reads.
LEMMA ReleaseStep ==
  ASSUME CInv, NEW t \in Threads, todo[t] # << >>, ~ Waiting(todo[t][1]),
         NEW front \in Seq(Effects), NEW rest \in Seq(Effects), todo[t] = front \o rest,
         InTurn(rest), rest # << >> => ~ Waiting(rest[1]),
         todo' = [todo EXCEPT ![t] = rest],
         lock' = Released(lock, t, front),
         UNCHANGED <<store, counter>>
  PROVE  CInv'
<1> DEFINE m(x) == Cardinality(Owing(front, x))
           left(x) == Cardinality(Owing(rest, x))
<1>1. /\ todo \in [Threads -> Seq(Effects)]
      /\ lock \in [Shards -> [writer : Threads \cup {NoThread}, readers : [Threads -> Nat]]]
  BY DEF CInv, TypeOK
<1>2. /\ todo' \in [Threads -> Seq(Effects)] /\ todo'[t] = rest
      /\ \A u \in Threads \ {t} : todo'[u] = todo[u]
  BY <1>1
<1>3. ASSUME NEW x \in Shards
      PROVE  /\ m(x) \in Nat /\ left(x) \in Nat /\ Owed(t, x) = m(x) + left(x)
             /\ m(x) = 0 <=> Owing(front, x) = {}
             /\ Owed(t, x)' = left(x)
             /\ ~ Waits(t, x) /\ ~ Waits(t, x)'
  <2>1. m(x) \in Nat /\ left(x) \in Nat /\ (m(x) = 0 <=> Owing(front, x) = {})
    BY OwingType, FS_EmptySet
  <2>2. Cardinality(Owing(front \o rest, x)) = m(x) + left(x)
    BY OwingSum
  <2>3. Owed(t, x) = m(x) + left(x)
    BY <2>2 DEF Owed
  <2>4. Owed(t, x)' = left(x)
    BY <1>2 DEF Owed
  <2>5. ~ Waits(t, x)
    BY <1>1, WaitsIsHead
  <2>6. Waits(t, x)' => todo'[t] # << >> /\ Waiting(todo'[t][1])
    BY <1>2, HeadThenTail DEF Waits, At, Waiting
  <2> QED BY <1>2, <2>1, <2>3, <2>4, <2>5, <2>6
<1> HIDE DEF m, left
<1>4. ASSUME NEW x \in Shards
      PROVE  lock'[x] = IF m(x) = 0 THEN lock[x]
                        ELSE IF lock[x].writer = t /\ lock[x].readers[t] = 0
                             THEN [lock[x] EXCEPT !.writer = NoThread]
                             ELSE [lock[x] EXCEPT !.readers[t] = @ - m(x)]
  BY <1>3 DEF Released, m
<1>5. ASSUME NEW x \in Shards
      PROVE  /\ lock'[x] \in [writer : Threads \cup {NoThread}, readers : [Threads -> Nat]]
             /\ \A u \in Threads \ {t} :
                  /\ lock'[x].readers[u] = lock[x].readers[u]
                  /\ lock'[x].writer = u <=> lock[x].writer = u
                  /\ Writes(u, x) => lock'[x].readers[t] = 0
             /\ Waits(t, x)' => lock'[x].writer = t
             /\ Writes(t, x)' => \A u \in Threads : lock'[x].readers[u] = 0
             /\ lock'[x].readers[t] + (IF Writes(t, x)' THEN 1 ELSE 0) = Owed(t, x)'
  <2>1. /\ \A u \in Threads : Writes(u, x) => \A r \in Threads : lock[x].readers[r] = 0
        /\ lock[x].readers[t] + (IF Writes(t, x) THEN 1 ELSE 0) = Owed(t, x)
    BY DEF CInv, LockInv, Owed
  <2>2. /\ lock[x] \in [writer : Threads \cup {NoThread}, readers : [Threads -> Nat]]
        /\ lock[x].readers \in [Threads -> Nat] /\ lock[x].readers[t] \in Nat
    BY <1>1
  <2>3. (Writes(t, x) <=> lock[x].writer = t) /\ (Writes(t, x)' <=> lock'[x].writer = t)
    BY <1>3 DEF Writes
  <2>4. CASE m(x) = 0
    <3>1. lock'[x] = lock[x]
      BY <1>4, <2>4
    <3>2. Owed(t, x)' = Owed(t, x)
      <4>1. m(x) \in Nat /\ left(x) \in Nat /\ Owed(t, x) = m(x) + left(x) /\ Owed(t, x)' = left(x)
        BY <1>3
      <4> QED BY <2>4, <4>1
    <3> QED BY <1>3, <3>2, <2>1, <2>2, <2>3, <3>1
  <2>5. CASE m(x) # 0 /\ lock[x].writer = t /\ lock[x].readers[t] = 0
    <3>1. lock'[x] = [lock[x] EXCEPT !.writer = NoThread]
      BY <1>4, <2>5
    <3>2. /\ lock'[x] \in [writer : Threads \cup {NoThread}, readers : [Threads -> Nat]]
          /\ lock'[x].writer = NoThread /\ lock'[x].readers = lock[x].readers
      BY <2>2, <3>1
    <3>3. left(x) = 0
      BY <1>3, <2>1, <2>3, <2>5
    <3>4. ~ Writes(t, x)' /\ \A u \in Threads \ {t} : lock'[x].writer # u /\ lock[x].writer # u
      BY <2>3, <2>5, <3>2, ThreadsAssumption
    <3>5. \A u \in Threads \ {t} : ~ Writes(u, x)
      BY <3>4 DEF Writes
    <3> QED BY <1>3, <2>5, <3>2, <3>3, <3>4, <3>5
  <2>6. CASE m(x) # 0 /\ ~ (lock[x].writer = t /\ lock[x].readers[t] = 0)
    <3>1. ~ Writes(t, x) /\ lock[x].readers[t] = m(x) + left(x)
      <4>1. ~ Writes(t, x)
        BY <2>1, <2>3, <2>6
      <4>2. Owed(t, x) = m(x) + left(x)
        BY <1>3
      <4> QED BY <2>1, <2>2, <4>1, <4>2
    <3>2. \A u \in Threads : ~ Writes(u, x)
      BY <1>3, <2>1, <2>2, <2>6, <3>1
    <3> DEFINE r == [lock[x].readers EXCEPT ![t] = @ - m(x)]
    <3>3. /\ r \in [Threads -> Nat] /\ r[t] = left(x)
          /\ \A u \in Threads \ {t} : r[u] = lock[x].readers[u]
      BY <1>3, <2>2, <3>1, SMTT(40)
    <3>4. lock'[x] = [lock[x] EXCEPT !.readers = r]
      BY <1>4, <2>6
    <3> HIDE DEF r
    <3>5. /\ lock'[x] \in [writer : Threads \cup {NoThread}, readers : [Threads -> Nat]]
          /\ lock'[x].writer = lock[x].writer /\ lock'[x].readers = r
      BY <2>2, <3>3, <3>4
    <3>6. ~ Writes(t, x)'
      BY <2>3, <3>1, <3>5
    <3> QED BY <1>3, <3>2, <3>3, <3>5, <3>6
  <2> QED BY <2>4, <2>5, <2>6
<1>6. lock' \in [Shards -> [writer : Threads \cup {NoThread}, readers : [Threads -> Nat]]]
  <2>1. lock' = [x \in Shards |-> lock'[x]]
    BY DEF Released
  <2> QED BY <1>5, <2>1
<1>7. LockInv'
  <2>1. InTurn(todo'[t]) /\ LockInv
    BY <1>2 DEF CInv
  <2>2. \A x \in Shards :
          /\ \A u \in Threads \ {t} :
               /\ lock'[x].readers[u] = lock[x].readers[u]
               /\ lock'[x].writer = u <=> lock[x].writer = u
               /\ Writes(u, x) => lock'[x].readers[t] = 0
          /\ Waits(t, x)' => lock'[x].writer = t
          /\ Writes(t, x)' => \A u \in Threads : lock'[x].readers[u] = 0
          /\ lock'[x].readers[t] + (IF Writes(t, x)' THEN 1 ELSE 0) = Owed(t, x)'
    BY <1>5
  <2> QED BY <1>1, <1>2, <2>1, <2>2, LockStep
<1> QED BY <1>2, <1>6, <1>7 DEF CInv, TypeOK, StoreInv

\* Doing one release.
LEMMA OneReleaseInv ==
  ASSUME CInv, NEW t \in Threads, todo[t] # << >>, todo[t][1].do \in {"unlock", "guard"},
         lock' = Released(lock, t, <<Head(todo[t])>>), Then(t, << >>),
         UNCHANGED <<store, counter>>
  PROVE  CInv'
<1> DEFINE h == <<Head(todo[t])>>
           r == Tail(todo[t])
<1>1. /\ todo[t] \in Seq(Effects) /\ InTurn(todo[t]) /\ h \in Seq(Effects) /\ r \in Seq(Effects)
      /\ todo[t] = h \o r
  BY HeadThenTail DEF CInv, TypeOK, LockInv
<1>2. InTurn(r)
  BY <1>1, TailInTurn
<1>3. r # << >> => ~ Waiting(r[1])
  <2> SUFFICES ASSUME r # << >> PROVE ~ Waiting(r[1])
    OBVIOUS
  <2>1. r[1] = todo[t][2] /\ 2 \in DOMAIN todo[t]
    BY <1>1, HeadThenTail, LenProperties, EmptySeq
  <2> QED BY <1>1, <2>1 DEF InTurn, Waiting
<1>4. todo' = [todo EXCEPT ![t] = r]
  BY <1>1, ConcatEmptySeq DEF Then
<1>5. ~ Waiting(todo[t][1])
  BY DEF Waiting
<1> HIDE DEF h, r
<1>6. lock' = Released(lock, t, h)
  BY DEF h
<1> QED BY <1>1, <1>2, <1>3, <1>4, <1>5, <1>6, ReleaseStep

\* A panic drops frames, and gives back the locks that those frames owe.
LEMMA HookPanicInv ==
  ASSUME CInv, NEW t \in Threads, HookPanic(t)
  PROVE  CInv'
<1> DEFINE n == Len(todo[t])
<1>1. /\ todo[t] # << >> /\ todo[t][1].do = "hook"
      /\ todo[t] \in Seq(Effects) /\ InTurn(todo[t]) /\ n \in Nat \ {0}
      /\ DOMAIN todo[t] = 1 .. n
      /\ UNCHANGED <<store, counter>>
  BY HeadThenTail, LenProperties DEF HookPanic, At, CInv, TypeOK, LockInv
<1>2. PICK end \in (UserCode(t) \ {1}) \cup {n + 1} :
        /\ lock' = Released(lock, t, SubSeq(todo[t], 1, end - 1))
        /\ todo' = [todo EXCEPT ![t] = SubSeq(todo[t], end, n)]
  BY DEF HookPanic, CInv, TypeOK
<1>3. end \in 2 .. n + 1
  BY <1>1 DEF UserCode
<1> DEFINE front == SubSeq(todo[t], 1, end - 1)
           rest == SubSeq(todo[t], end, n)
<1>4. /\ rest \in Seq(Effects) /\ InTurn(rest)
      /\ \A i \in DOMAIN rest : i + end - 1 \in DOMAIN todo[t] /\ rest[i] = todo[t][i + end - 1]
  BY <1>1, <1>3, SuffixInTurn
<1>5. front \in Seq(Effects)
  <2>1. \A i \in 1 .. end - 1 : todo[t][i] \in Effects
    BY <1>1, <1>3, ElementOfSeq
  <2> QED BY <1>3, <2>1, SubSeqProperties
<1>6. todo[t] = front \o rest
  <2>1. PICK k \in 0 .. n : k = end - 1
    BY <1>1, <1>3
  <2>2. SubSeq(todo[t], 1, k) \o SubSeq(todo[t], k + 1, n) = SubSeq(todo[t], 1, n)
    <3>1. PICK i \in 1 .. n + 1 : i = 1
      BY <1>1
    <3>2. k \in i - 1 .. n /\ n \in k .. n
      BY <1>1, <2>1, <3>1
    <3>3. SubSeq(todo[t], i, k) \o SubSeq(todo[t], k + 1, n) = SubSeq(todo[t], i, n)
      BY <1>1, <3>2, ConcatAdjacentSubSeq
    <3> QED BY <3>1, <3>3
  <2>3. k + 1 = end
    BY <1>3, <2>1
  <2> QED BY <1>1, <2>1, <2>2, <2>3, SubSeqFull
<1>7. rest # << >> => ~ Waiting(rest[1])
  <2> SUFFICES ASSUME rest # << >> PROVE ~ Waiting(rest[1])
    OBVIOUS
  <2> HIDE DEF rest
  <2>1. 1 \in DOMAIN rest
    BY <1>4, LenProperties, EmptySeq
  <2>2. 1 + end - 1 \in DOMAIN todo[t] /\ rest[1] = todo[t][1 + end - 1] /\ 1 + end - 1 # 1
    BY <1>3, <1>4, <2>1
  <2> QED BY <1>1, <2>2 DEF InTurn, Waiting
<1>8. ~ Waiting(todo[t][1])
  BY <1>1 DEF Waiting
<1> HIDE DEF front, rest
<1>9. todo' = [todo EXCEPT ![t] = rest] /\ lock' = Released(lock, t, front)
  BY <1>2 DEF front, rest
<1> QED BY <1>1, <1>4, <1>5, <1>6, <1>7, <1>8, <1>9, ReleaseStep
-----------------------------------------------------------------------------
(* The theorems.                                                            *)

\* CInv holds at the start and is preserved by every step.
LEMMA CacheInit == Init => CInv
<1> SUFFICES ASSUME Init PROVE CInv
  OBVIOUS
<1>1. /\ DOMAIN store = Shards /\ \A s \in Shards : store[s] = << >> /\ DOMAIN store[s] = {}
      /\ \A t \in Threads : todo[t] = << >>
      /\ \A s \in Shards : /\ lock[s].writer = NoThread
                           /\ \A t \in Threads : lock[s].readers[t] = 0
  BY DEF Init
<1>2. StoreInv
  BY <1>1, TotalEmpty DEF StoreInv
<1>3. TypeOK
  <2>1. todo \in [Threads -> Seq(Effects)]
    BY NothingLeft DEF Init
  <2>2. counter \in [Counters -> 0 .. Width - 1]
    BY DEF Init
  <2>3. lock \in [Shards -> [writer : Threads \cup {NoThread}, readers : [Threads -> Nat]]]
    BY DEF Init
  <2> QED BY <1>1, <2>1, <2>2, <2>3 DEF TypeOK
<1>4. LockInv
  <2>1. \A t \in Threads : InTurn(todo[t])
    BY <1>1, NothingLeft
  <2>2. ASSUME NEW s \in Shards, NEW t \in Threads
        PROVE  /\ ~ Waits(t, s) /\ ~ Writes(t, s)
               /\ Cardinality(Owing(todo[t], s)) = 0
    <3>1. ~ Waits(t, s) /\ ~ Writes(t, s)
      BY <1>1, ThreadsAssumption DEF Waits, At, Writes
    <3>2. Owing(todo[t], s) = {}
      BY <1>1 DEF Owing
    <3> QED BY <3>1, <3>2, FS_EmptySet
  <2> QED BY <1>1, <2>1, <2>2 DEF LockInv
<1> QED BY <1>2, <1>3, <1>4 DEF CInv

\* Every step keeps CInv.
LEMMA CacheNext == CInv /\ [Next]_vars => CInv'
<1> SUFFICES ASSUME CInv, [Next]_vars PROVE CInv'
  OBVIOUS
<1>1. CASE UNCHANGED vars
  BY <1>1 DEF vars, CInv, TypeOK, StoreInv, LockInv, InTurn, Waits, Writes, At, Target
<1>2. ASSUME NEW t \in Threads,
             \/ \E call \in Calls : Call(t, call)
             \/ Acquire(t)
             \/ Continue(t)
             \/ UserReturn(t)
             \/ HookPanic(t)
      PROVE  CInv'
  <2>1. CASE \E call \in Calls : Call(t, call)
    BY <2>1, CallInv
  <2>2. CASE Wait(t)
    BY <2>2, WaitInv
  <2>3. CASE Insert(t)
    BY <2>3, InsertInv
  <2>4. CASE Remove(t)
    BY <2>4, RemoveInv
  <2>5. CASE Get(t)
    BY <2>5, GetInv
  <2>6. CASE Drain(t)
    BY <2>6, DrainInv
  <2>7. CASE Drop(t)
    BY <2>7, DropInv
  <2>8. CASE Update(t)
    BY <2>8, UpdateInv
  <2>9. CASE Release(t) \/ DropGuard(t)
    <3>1. /\ todo[t] # << >> /\ todo[t][1].do \in {"unlock", "guard"}
          /\ lock' = Released(lock, t, <<Head(todo[t])>>) /\ Then(t, << >>)
          /\ UNCHANGED <<store, counter>>
      BY <2>9, HeadThenTail DEF Release, DropGuard, At, CInv, TypeOK
    <3> QED BY <3>1, OneReleaseInv
  <2>10. CASE CallHook(t)
    BY <2>10, CallHookInv
  <2>11. CASE HookReturn(t)
    BY <2>11, HookReturnInv
  <2>12. CASE HookPanic(t)
    BY <2>12, HookPanicInv
  <2> QED BY <1>2, <2>1, <2>2, <2>3, <2>4, <2>5, <2>6, <2>7, <2>8, <2>9, <2>10, <2>11, <2>12
          DEF Acquire, Continue, UserReturn
<1> QED BY <1>1, <1>2 DEF Next

\* The types, the finite shards and LockInv hold of every reachable state.
LEMMA CacheInvariant == Spec => []CInv
BY CacheInit, CacheNext, PTL DEF Spec

\* Every state of the cache has its type; in particular a shard holds only keys
\* that hash to it, and the counters never leave their width (cache.rs:233-300,
\* 555-620).
THEOREM CacheTypes == Spec => []TypeOK
<1>1. CInv => TypeOK
  BY DEF CInv
<1> QED BY <1>1, CacheInvariant, PTL

\* Between a writer, the readers and those that wait, every lock is accounted
\* for by the effects its holder still has to do, and those come in turn.
THEOREM LocksInTurn == Spec => []LockInv
<1>1. CInv => LockInv
  BY DEF CInv
<1> QED BY <1>1, CacheInvariant, PTL

\* Every lock is held for an effect still to come, however many threads nest
\* calls in hooks and Guards, and whatever panics (cache.rs:250, 503, 590,
\* guard.rs:32-59).
THEOREM NoLockIsLeftBehind == Spec => []LocksAreOwed
<1>1. CInv => LocksAreOwed
  <2> SUFFICES ASSUME CInv, NEW s \in Shards, NEW t \in Threads,
                      NEW waiting, waiting = {i \in DOMAIN todo[t] :
                                                /\ todo[t][i].do \in {"insert", "remove", "clear"}
                                                /\ todo[t][i].waits}
               PROVE  lock[s].readers[t] + (IF lock[s].writer = t THEN 1 ELSE 0)
                        = Cardinality(Owing(todo[t], s))
                            + (IF waiting # {} /\ Target(t) = s THEN 1 ELSE 0)
    BY DEF LocksAreOwed
  <2>1. /\ Waits(t, s) => lock[s].writer = t
        /\ lock[s].readers[t] + (IF Writes(t, s) THEN 1 ELSE 0)
             = Cardinality(Owing(todo[t], s))
        /\ InTurn(todo[t]) /\ todo[t] \in Seq(Effects)
        /\ lock[s].readers[t] \in Nat
    BY DEF CInv, LockInv, TypeOK
  <2>2. Waits(t, s) <=> waiting # {} /\ Target(t) = s
    <3>1. ASSUME waiting # {}, Target(t) = s PROVE Waits(t, s)
      <4>1. 1 \in waiting /\ todo[t] # << >>
        BY <2>1, <3>1, EmptySeq DEF InTurn
      <4>2. Head(todo[t]) = todo[t][1]
        BY <2>1, <4>1, HeadThenTail
      <4> QED BY <3>1, <4>1, <4>2 DEF Waits, At
    <3>2. ASSUME Waits(t, s) PROVE 1 \in waiting /\ Target(t) = s
      <4>1. todo[t] # << >> /\ Waiting(todo[t][1]) /\ Target(t) = s
        BY <2>1, <3>2, WaitsIsHead
      <4>2. 1 \in DOMAIN todo[t]
        BY <2>1, <4>1, EmptySeq, LenProperties
      <4> QED BY <4>1, <4>2 DEF Waiting
    <3> QED BY <3>1, <3>2
  <2>3. CASE Waits(t, s)
    <3>1. ~ Writes(t, s) /\ lock[s].writer = t
      BY <2>1, <2>3 DEF Writes
    <3>2. lock[s].readers[t] = Cardinality(Owing(todo[t], s))
      BY <2>1, <3>1
    <3> QED BY <2>2, <2>3, <3>1, <3>2
  <2>4. CASE ~ Waits(t, s)
    <3>1. Writes(t, s) <=> lock[s].writer = t
      BY <2>4 DEF Writes
    <3>2. Cardinality(Owing(todo[t], s)) \in Nat
      BY <2>1, OwingType
    <3> QED BY <2>1, <2>2, <2>4, <3>1, <3>2
  <2> QED BY <2>3, <2>4
<1> QED BY <1>1, CacheInvariant, PTL

\* A hook runs when its call is over but for further hooks: without a lock, and
\* after the counters are updated (lifecycle.rs:45-46, cache.rs:249, 503).
THEOREM HooksComeLast == Spec => []HooksRunLast
<1>1. CInv => HooksRunLast
  BY DEF CInv, LockInv, InTurn, HooksRunLast
<1> QED BY <1>1, CacheInvariant, PTL

\* A step that changes shard s is a step of a thread that is granted s, and then
\* no client holds a Guard on s.
LEMMA ChangesAreGranted ==
  ASSUME CInv, NEW t \in Threads, Insert(t) \/ Remove(t) \/ Drain(t),
         NEW s \in Shards, store'[s] # store[s]
  PROVE  Waits(t, s) /\ Unread(s)
<1>1. /\ todo[t] # << >> /\ todo[t][1].do \in {"insert", "remove", "clear"}
      /\ Granted(t) /\ todo[t][1].waits
  <2>1. todo[t] # << >> /\ Head(todo[t]).do \in {"insert", "remove", "clear"} /\ Granted(t)
    <3>1. CASE Insert(t)
      BY <3>1 DEF Insert, At
    <3>2. CASE Remove(t)
      BY <3>2 DEF Remove, At
    <3>3. CASE Drain(t)
      BY <3>3 DEF Drain, At
    <3> QED BY <3>1, <3>2, <3>3
  <2>2. todo[t] \in Seq(Effects)
    BY DEF CInv, TypeOK
  <2>3. Head(todo[t]) = todo[t][1]
    BY <2>1, <2>2, HeadThenTail
  <2> QED BY <2>1, <2>3 DEF Granted
<1>2. /\ Waits(t, Target(t)) /\ Target(t) \in Shards /\ Unread(Target(t))
      /\ Head(todo[t]) = todo[t][1]
      /\ todo[t][1].do = "clear" => Target(t) = todo[t][1].next
      /\ todo[t][1].do # "clear" => Target(t) = ShardOf(todo[t][1].key)
  <2>1. Unread(Target(t))
    BY <1>1 DEF Granted
  <2> QED BY <1>1, <2>1, Granting
<1>3. \E m : store' = [store EXCEPT ![Target(t)] = m]
  <2>1. CASE Insert(t)
    BY <1>2, <2>1 DEF Insert, At
  <2>2. CASE Remove(t)
    <3>1. todo[t][1].do # "clear" /\ \/ UNCHANGED store
                                     \/ \E m : store' = [store EXCEPT ![ShardOf(todo[t][1].key)] = m]
      BY <1>2, <2>2 DEF Remove, At
    <3>2. UNCHANGED store => FALSE
      OBVIOUS
    <3> QED BY <1>2, <3>1, <3>2
  <2>3. CASE Drain(t)
    BY <1>2, <2>3 DEF Drain, At
  <2> QED BY <2>1, <2>2, <2>3
<1>4. s = Target(t)
  BY <1>2, <1>3 DEF CInv, StoreInv
<1> QED BY <1>2, <1>4

\* While a client holds a Guard no entry of its shard changes or leaves
\* (cache.rs:325-327, guard.rs:32-59).
THEOREM GuardsPinTheirShard == Spec => GuardPins
<1>1. CInv /\ [Next]_vars =>
        [\A s \in Shards :
           (\E t \in Threads : \E i \in DOMAIN todo[t] : todo[t][i] = Guard(s))
             => store'[s] = store[s]]_vars
  <2> SUFFICES ASSUME CInv, Next, NEW s \in Shards,
                      NEW r \in Threads, NEW i \in DOMAIN todo[r], todo[r][i] = Guard(s),
                      store'[s] # store[s]
               PROVE  FALSE
    BY DEF vars
  <2>1. PICK t \in Threads : Insert(t) \/ Remove(t) \/ Drain(t)
    BY DEF Next, Call, Acquire, Continue, UserReturn, Wait, Get, Drop, Update, Release,
           CallHook, HookReturn, DropGuard, HookPanic
  <2>2. Waits(t, s) /\ Unread(s)
    BY <2>1, ChangesAreGranted
  <2>3. Owed(r, s) # 0
    <3>1. i \in Owing(todo[r], s) /\ todo[r] \in Seq(Effects)
      BY DEF Owing, CInv, TypeOK
    <3>2. IsFiniteSet(Owing(todo[r], s))
      BY <3>1, OwingType
    <3> QED BY <3>1, <3>2, FS_EmptySet DEF Owed
  <2>4. Writes(r, s)
    BY <2>2, <2>3 DEF Unread, CInv, LockInv, Owed
  <2>5. lock[s].writer = t
    BY <2>2 DEF CInv, LockInv
  <2> QED BY <2>2, <2>4, <2>5 DEF Writes
<1> QED BY <1>1, CacheInvariant, PTL DEF Spec, GuardPins
=============================================================================
