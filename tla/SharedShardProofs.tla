------------------------- MODULE SharedShardProofs --------------------------
(* The safety of a shard whose readers share its lock, for any number of    *)
(* readers: whatever they interleave, the invariants of Shard hold,         *)
(* MarkedIsCounted with them, hits are lost by races only, and the shard    *)
(* implements the one where a hit is one step.                              *)
EXTENDS MCSharedShard, ShardProofs

USE SizesAssumption, CapacityAssumption, MaxFreqAssumption

\* No hit is NoHit.
LEMMA HitsNotIdle == \A h \in Hits : h # NoHit /\ h.pc # "none"
BY DEF Hits, NoHit

\* The fields of a reader's hit.
LEMMA HitFields ==
  ASSUME SharedInv, NEW r \in Readers, hit[r] # NoHit
  PROVE  /\ hit[r] \in Hits
         /\ hit[r].pc \in {"load", "store", "counted"}
         /\ hit[r].key \in Keys /\ hit[r].marked \in BOOLEAN
         /\ hit[r].freq \in 0 .. MaxFreq
         /\ ins = NoInsert
         /\ hit[r].key \in DOMAIN entries
         /\ hit[r].marked => entries[hit[r].key].clock_bit
         /\ hit[r].pc = "store" => hit[r].freq < MaxFreq
         /\ hit[r].pc = "counted" => entries[hit[r].key].frequency > 0
<1>1. hit[r] \in Hits
  BY DEF SharedInv, SharedTypeOK
<1>2. /\ hit[r].pc \in {"load", "store", "counted"}
      /\ hit[r].key \in Keys /\ hit[r].marked \in BOOLEAN
      /\ hit[r].freq \in 0 .. MaxFreq
  BY <1>1 DEF Hits
<1> QED BY <1>1, <1>2 DEF SharedInv, Unwritten

\* A step that changes the clock bit and the frequency of one entry, as a
\* reader does, keeps the invariant of Shard.
LEMMA MetadataInv ==
  ASSUME IndInv, ins = NoInsert, NEW k \in DOMAIN entries, NEW e \in Entry,
         e.size = entries[k].size, e.policy = entries[k].policy,
         entries' = [entries EXCEPT ![k] = e],
         UNCHANGED <<buckets, size_current, ins>>
  PROVE  IndInv'
<1>1. entries' \in EntryMaps
  BY InvFacts, MapsExcept
<1>2. SameShape(entries, entries')
  BY DEF SameShape
<1>3. Counted = entries /\ Counted' = entries'
  BY DEF Counted
<1>4. /\ Countable(entries') /\ Partition(buckets', Counted')
      /\ size_current' = TotalSize(Counted')
  BY <1>2, <1>3, InvFacts, SameShapeSame
<1>5. size_current' <= Capacity \/ Cardinality(DOMAIN entries') = 1
  BY <1>2 DEF IndInv, FitsOrAlone, SameShape
<1> QED BY <1>1, <1>4, <1>5, InvFacts, NextInv

\* A step that leaves the variables of Shard alone keeps its invariant.
LEMMA StutterInv ==
  ASSUME IndInv, UNCHANGED vars
  PROVE  IndInv'
BY StepInv

\* A method under the write lock leaves an entry as it is, or without its bit.
LEMMA WriteMarks ==
  ASSUME SharedInv, Write, NEW k \in DOMAIN entries', entries'[k].clock_bit
  PROVE  k \in DOMAIN entries /\ entries'[k] = entries[k]
<1>1. CASE entries' = entries
  BY <1>1
<1>2. ASSUME NEW S, entries' = Without(entries, S)
      PROVE  k \in DOMAIN entries /\ entries'[k] = entries[k]
  BY <1>2 DEF Without, Restrict
<1>3. CASE entries' = << >>
  BY <1>3
<1>4. CASE PassOver
  <2>1. HandKey \in DOMAIN entries /\ entries' = [entries EXCEPT ![HandKey] = Decay(@)]
    BY <1>4 DEF PassOver, HandFound
  <2>2. IndInv
    BY DEF SharedInv
  <2>3. entries[HandKey] \in Entry
    BY <2>1, <2>2, InvFacts, MapsEntry
  <2>4. ~ Decay(entries[HandKey]).clock_bit
    BY <2>3 DEF Decay, Entry
  <2> QED BY <2>1, <2>4
<1>5. CASE FinishInsert
  <2>1. ~ ins.entry.clock_bit
    BY <1>5 DEF SharedInv, FinishInsert, NoInsert
  <2>2. entries' = With(entries, ins.key, ins.entry)
    BY <1>5 DEF FinishInsert
  <2> QED BY <2>1, <2>2 DEF With
<1>6. CASE \E j \in Keys : Remove(j)
  BY <1>2, <1>6 DEF Remove
<1>7. CASE EvictCold \/ ForceEvict
  BY <1>2, <1>7 DEF EvictCold, ForceEvict, Evict
<1> QED
  BY <1>1, <1>3, <1>4, <1>5, <1>6, <1>7
     DEF Write, InsertStep, StartSweep, NextBucket, BeginInsert, Drain

\* A method under the write lock keeps the invariant.
LEMMA WriteInv ==
  ASSUME SharedInv, Write
  PROVE  SharedInv'
<1>1. hit' = hit /\ \A r \in Readers : hit[r] = NoHit
  BY DEF Write, Unread
<1>2. IndInv'
  <2>1. IndInv
    BY DEF SharedInv
  <2>2. Next
    BY DEF Write, Next
  <2> QED BY <2>1, <2>2, StepInv
<1>3. SharedTypeOK'
  BY <1>1, <1>2 DEF SharedInv, SharedTypeOK, IndInv
<1>4. MarkedIsCounted'
  <2> SUFFICES ASSUME NEW k \in DOMAIN entries',
                      entries'[k].clock_bit, entries'[k].frequency = 0
               PROVE  FALSE
    BY DEF MarkedIsCounted
  <2>1. k \in DOMAIN entries /\ entries'[k] = entries[k]
    BY WriteMarks
  <2>2. \E r \in HitsOn(k) : hit[r].marked
    BY <2>1 DEF SharedInv, MarkedIsCounted
  <2> QED BY <1>1, <2>2 DEF HitsOn
<1>5. ins' # NoInsert => ~ ins'.entry.clock_bit
  <2>1. ASSUME NEW k \in Keys, NEW size \in Sizes, NEW policy \in Policies,
               BeginInsert(k, size, policy)
        PROVE  ~ ins'.entry.clock_bit
    BY <2>1 DEF BeginInsert, NewInsert, NewEntry
  <2>2. CASE InsertStep
    <3>1. ASSUME ins' # NoInsert PROVE ins # NoInsert /\ ins'.entry = ins.entry
      <4>1. ins # NoInsert
        BY <2>2 DEF InsertStep, StartSweep, NextBucket, PassOver, EvictCold,
                    ForceEvict, FinishInsert, NoInsert
      <4>2. ins \in Inserts
        BY <4>1, InsertFacts DEF SharedInv
      <4> QED BY <2>2, <3>1, <4>1, <4>2
              DEF InsertStep, StartSweep, NextBucket, PassOver, EvictCold,
                  ForceEvict, FinishInsert, Evict, Inserts
    <3> QED BY <3>1 DEF SharedInv
  <2>3. CASE (\E k \in Keys : Remove(k)) \/ Drain
    BY <2>3 DEF SharedInv, Remove, Drain
  <2> QED BY <2>1, <2>2, <2>3 DEF Write
<1> QED BY <1>1, <1>2, <1>3, <1>4, <1>5 DEF SharedInv

\* Assembles the invariant of the next state after a step of reader r, which
\* changes at most the clock bit and the frequency of its entry.
LEMMA ReaderInv ==
  ASSUME SharedInv, NEW r \in Readers, IndInv', ins = NoInsert, ins' = ins,
         DOMAIN entries' = DOMAIN entries,
         \A k \in DOMAIN entries :
           /\ entries[k].frequency > 0 => entries'[k].frequency > 0
           /\ entries[k].clock_bit => entries'[k].clock_bit,
         hit' \in [Readers -> Hits \cup {NoHit}],
         \A q \in Readers \ {r} : hit'[q] = hit[q],
         hit'[r] # NoHit =>
           /\ hit'[r].key \in DOMAIN entries
           /\ hit'[r].marked => entries'[hit'[r].key].clock_bit
           /\ hit'[r].pc = "store" => hit'[r].freq < MaxFreq
           /\ hit'[r].pc = "counted" => entries'[hit'[r].key].frequency > 0,
         MarkedIsCounted'
  PROVE  SharedInv'
<1>1. SharedTypeOK'
  BY DEF SharedTypeOK, IndInv
<1>2. ASSUME NEW q \in Readers, hit'[q] # NoHit
      PROVE  /\ Unwritten'
             /\ hit'[q].key \in DOMAIN entries'
             /\ hit'[q].marked => entries'[hit'[q].key].clock_bit
             /\ hit'[q].pc = "store" => hit'[q].freq < MaxFreq
             /\ hit'[q].pc = "counted" => entries'[hit'[q].key].frequency > 0
  <2>1. Unwritten'
    BY DEF Unwritten
  <2>2. CASE q = r
    BY <1>2, <2>1, <2>2
  <2>3. CASE q # r
    <3>1. hit'[q] = hit[q] /\ hit[q] # NoHit
      BY <1>2, <2>3
    <3>2. /\ hit[q].key \in DOMAIN entries
          /\ hit[q].marked => entries[hit[q].key].clock_bit
          /\ hit[q].pc = "store" => hit[q].freq < MaxFreq
          /\ hit[q].pc = "counted" => entries[hit[q].key].frequency > 0
      BY <3>1, HitFields
    <3> QED BY <2>1, <3>1, <3>2
  <2> QED BY <2>2, <2>3
<1> QED BY <1>1, <1>2 DEF SharedInv

\* One lemma per action of a reader.
LEMMA LookupInv ==
  ASSUME SharedInv, NEW r \in Readers, NEW k \in Keys, Lookup(r, k)
  PROVE  SharedInv'
<1> DEFINE h == [pc |-> "load", key |-> k, marked |-> FALSE, freq |-> 0]
<1>1. /\ ins = NoInsert /\ hit[r] = NoHit /\ k \in DOMAIN entries
      /\ hit' = [hit EXCEPT ![r] = h] /\ UNCHANGED vars
  BY DEF Lookup, Unwritten
<1>2. hit \in [Readers -> Hits \cup {NoHit}] /\ IndInv
  BY DEF SharedInv, SharedTypeOK
<1>3. h \in Hits
  BY DEF Hits
<1>4. IndInv'
  BY <1>1, <1>2, StutterInv
<1>5. MarkedIsCounted'
  <2> SUFFICES ASSUME NEW j \in DOMAIN entries,
                      entries[j].clock_bit, entries[j].frequency = 0
               PROVE  \E q \in HitsOn(j)' : hit'[q].marked /\ hit'[q].pc # "counted"
    BY <1>1 DEF MarkedIsCounted, vars
  <2>1. PICK q \in HitsOn(j) : hit[q].marked /\ hit[q].pc # "counted"
    BY DEF SharedInv, MarkedIsCounted
  <2>2. q # r /\ hit'[q] = hit[q]
    BY <1>1, <1>2, <2>1 DEF HitsOn
  <2> QED BY <2>1, <2>2 DEF HitsOn
<1>6. hit' \in [Readers -> Hits \cup {NoHit}] /\ hit'[r] = h
  BY <1>1, <1>2, <1>3
<1> QED BY <1>1, <1>2, <1>4, <1>5, <1>6, ReaderInv DEF vars

\* A reader marks an entry.
LEMMA MarkInv ==
  ASSUME SharedInv, NEW r \in Readers, Mark(r)
  PROVE  SharedInv'
<1> DEFINE k == hit[r].key
           e == [entries[k] EXCEPT !.clock_bit = TRUE]
           h == [hit[r] EXCEPT !.marked = TRUE]
<1>1. /\ hit[r] # NoHit
      /\ entries' = [entries EXCEPT ![k] = e]
      /\ hit' = [hit EXCEPT ![r] = h]
      /\ UNCHANGED <<buckets, size_current, ins>>
  BY DEF Mark
<1>2. /\ hit \in [Readers -> Hits \cup {NoHit}] /\ IndInv
      /\ ins = NoInsert /\ k \in DOMAIN entries /\ hit[r] \in Hits
  BY <1>1, HitFields DEF SharedInv, SharedTypeOK
<1>3. entries[k] \in Entry
  BY <1>2, InvFacts, MapsEntry
<1>4. /\ e \in Entry /\ e.size = entries[k].size /\ e.policy = entries[k].policy
      /\ e.frequency = entries[k].frequency /\ e.clock_bit
  BY <1>3 DEF Entry
<1>5. h \in Hits /\ h.pc = hit[r].pc /\ h.key = k /\ h.freq = hit[r].freq /\ h.marked
  BY <1>2 DEF Hits
<1> HIDE DEF e, h
<1>6. IndInv'
  BY <1>1, <1>2, <1>4, MetadataInv
<1>7. /\ hit' \in [Readers -> Hits \cup {NoHit}] /\ hit'[r] = h /\ h # NoHit
      /\ \A q \in Readers \ {r} : hit'[q] = hit[q]
  BY <1>1, <1>2, <1>5, HitsNotIdle
<1>8. /\ DOMAIN entries' = DOMAIN entries
      /\ \A j \in DOMAIN entries : entries'[j].frequency = entries[j].frequency
      /\ entries'[k].clock_bit
      /\ \A j \in DOMAIN entries \ {k} : entries'[j] = entries[j]
  BY <1>1, <1>2, <1>4
<1>9. MarkedIsCounted'
  <2> SUFFICES ASSUME NEW j \in DOMAIN entries',
                      entries'[j].clock_bit, entries'[j].frequency = 0
               PROVE  \E q \in HitsOn(j)' : hit'[q].marked /\ hit'[q].pc # "counted"
    BY DEF MarkedIsCounted
  <2>1. CASE j = k
    <3>1. hit[r].pc # "counted"
      BY <1>1, <1>8, <2>1, HitFields
    <3> QED BY <1>5, <1>7, <2>1, <3>1 DEF HitsOn
  <2>2. CASE j # k
    <3>1. PICK q \in HitsOn(j) : hit[q].marked /\ hit[q].pc # "counted"
      BY <1>8, <2>2 DEF SharedInv, MarkedIsCounted
    <3>2. q \in Readers \ {r}
      BY <2>2, <3>1 DEF HitsOn
    <3> QED BY <1>7, <3>1, <3>2 DEF HitsOn
  <2> QED BY <2>1, <2>2
<1>10. /\ k \in DOMAIN entries
       /\ hit[r].pc = "store" => hit[r].freq < MaxFreq
       /\ hit[r].pc = "counted" => entries[k].frequency > 0
  BY <1>1, HitFields
<1> HIDE DEF k
<1> QED BY <1>1, <1>2, <1>5, <1>6, <1>7, <1>8, <1>9, <1>10, ReaderInv

\* A reader loads the frequency.
LEMMA LoadFrequencyInv ==
  ASSUME SharedInv, NEW r \in Readers, LoadFrequency(r)
  PROVE  SharedInv'
<1> DEFINE k == hit[r].key
           f == entries[k].frequency
           h == [hit[r] EXCEPT !.freq = f,
                               !.pc = IF f < MaxFreq THEN "store" ELSE "counted"]
<1>1. /\ hit[r].pc = "load" /\ UNCHANGED vars
      /\ hit' = [hit EXCEPT ![r] = h]
  BY DEF LoadFrequency
<1>2. hit[r] # NoHit
  BY <1>1 DEF NoHit
<1>3. /\ hit \in [Readers -> Hits \cup {NoHit}] /\ IndInv
      /\ ins = NoInsert /\ k \in DOMAIN entries /\ hit[r] \in Hits
  BY <1>2, HitFields DEF SharedInv, SharedTypeOK
<1>4. f \in 0 .. MaxFreq
  BY <1>3, InvFacts, MapsEntry
<1>5. /\ h \in Hits /\ h.key = k /\ h.marked = hit[r].marked
      /\ h.pc = "store" => h.freq < MaxFreq
      /\ h.pc = "counted" => f > 0
      /\ f = 0 => h.pc # "counted"
  <2>1. h.freq = f /\ h.pc = (IF f < MaxFreq THEN "store" ELSE "counted")
    BY <1>3 DEF Hits
  <2>2. h \in Hits /\ h.key = k /\ h.marked = hit[r].marked
    BY <1>3, <1>4 DEF Hits
  <2> HIDE DEF h
  <2> QED BY <1>4, <2>1, <2>2
<1> HIDE DEF h
<1>6. IndInv'
  BY <1>1, <1>3, StutterInv
<1>7. /\ hit' \in [Readers -> Hits \cup {NoHit}] /\ hit'[r] = h /\ h # NoHit
      /\ \A q \in Readers \ {r} : hit'[q] = hit[q]
  BY <1>1, <1>3, <1>5, HitsNotIdle
<1>8. MarkedIsCounted'
  <2> SUFFICES ASSUME NEW j \in DOMAIN entries,
                      entries[j].clock_bit, entries[j].frequency = 0
               PROVE  \E q \in HitsOn(j)' : hit'[q].marked /\ hit'[q].pc # "counted"
    BY <1>1 DEF MarkedIsCounted, vars
  <2>1. PICK q \in HitsOn(j) : hit[q].marked /\ hit[q].pc # "counted"
    BY DEF SharedInv, MarkedIsCounted
  <2>2. CASE q = r
    <3>1. j = k /\ f = 0
      BY <2>1, <2>2 DEF HitsOn
    <3> QED BY <1>5, <1>7, <2>1, <2>2, <3>1 DEF HitsOn
  <2>3. CASE q # r
    BY <1>7, <2>1, <2>3 DEF HitsOn
  <2> QED BY <2>2, <2>3
<1>9. /\ UNCHANGED <<entries, ins>>
      /\ h.pc = "counted" => entries[h.key].frequency > 0
      /\ h.marked => entries[h.key].clock_bit
  BY <1>1, <1>2, <1>5, HitFields DEF vars
<1> HIDE DEF f, k
<1> QED BY <1>3, <1>5, <1>6, <1>7, <1>8, <1>9, ReaderInv

\* A reader stores the frequency that it loaded, one higher.
LEMMA StoreFrequencyInv ==
  ASSUME SharedInv, NEW r \in Readers, StoreFrequency(r)
  PROVE  SharedInv'
<1> DEFINE k == hit[r].key
           e == [entries[k] EXCEPT !.frequency = hit[r].freq + 1]
           h == [hit[r] EXCEPT !.pc = "counted"]
<1>1. /\ hit[r].pc = "store"
      /\ entries' = [entries EXCEPT ![k] = e]
      /\ hit' = [hit EXCEPT ![r] = h]
      /\ UNCHANGED <<buckets, size_current, ins>>
  BY DEF StoreFrequency
<1>2. hit[r] # NoHit
  BY <1>1 DEF NoHit
<1>3. /\ hit \in [Readers -> Hits \cup {NoHit}] /\ IndInv
      /\ ins = NoInsert /\ k \in DOMAIN entries /\ hit[r] \in Hits
      /\ hit[r].freq \in 0 .. MaxFreq /\ hit[r].freq < MaxFreq
  BY <1>1, <1>2, HitFields DEF SharedInv, SharedTypeOK
<1>4. entries[k] \in Entry
  BY <1>3, InvFacts, MapsEntry
<1>5. hit[r].freq + 1 \in 0 .. MaxFreq /\ hit[r].freq + 1 > 0
  BY <1>3
<1>6. /\ e \in Entry /\ e.size = entries[k].size /\ e.policy = entries[k].policy
      /\ e.frequency > 0 /\ e.clock_bit = entries[k].clock_bit
  BY <1>4, <1>5 DEF Entry
<1>7. h \in Hits /\ h.pc = "counted" /\ h.key = k /\ h.marked = hit[r].marked
  BY <1>3 DEF Hits
<1> HIDE DEF e, h
<1>8. IndInv'
  BY <1>1, <1>3, <1>6, MetadataInv
<1>9. /\ hit' \in [Readers -> Hits \cup {NoHit}] /\ hit'[r] = h /\ h # NoHit
      /\ \A q \in Readers \ {r} : hit'[q] = hit[q]
  BY <1>1, <1>3, <1>7, HitsNotIdle
<1>10. /\ DOMAIN entries' = DOMAIN entries
       /\ entries'[k].frequency > 0
       /\ entries'[k].clock_bit = entries[k].clock_bit
       /\ \A j \in DOMAIN entries \ {k} : entries'[j] = entries[j]
  BY <1>1, <1>3, <1>6
<1>11. MarkedIsCounted'
  <2> SUFFICES ASSUME NEW j \in DOMAIN entries',
                      entries'[j].clock_bit, entries'[j].frequency = 0
               PROVE  \E q \in HitsOn(j)' : hit'[q].marked /\ hit'[q].pc # "counted"
    BY DEF MarkedIsCounted
  <2>1. j # k
    BY <1>10
  <2>2. PICK q \in HitsOn(j) : hit[q].marked /\ hit[q].pc # "counted"
    BY <1>10, <2>1 DEF SharedInv, MarkedIsCounted
  <2>3. q \in Readers \ {r}
    BY <2>1, <2>2 DEF HitsOn
  <2> QED BY <1>9, <2>2, <2>3 DEF HitsOn
<1>12. /\ \A j \in DOMAIN entries :
           /\ entries[j].frequency > 0 => entries'[j].frequency > 0
           /\ entries[j].clock_bit => entries'[j].clock_bit
       /\ hit'[r].marked => entries'[hit'[r].key].clock_bit
  BY <1>2, <1>7, <1>9, <1>10, HitFields
<1> HIDE DEF k
<1> QED BY <1>1, <1>3, <1>7, <1>8, <1>9, <1>10, <1>11, <1>12, ReaderInv

\* A reader gives its lock back.
LEMMA ReleaseInv ==
  ASSUME SharedInv, NEW r \in Readers, Release(r)
  PROVE  SharedInv'
<1>1. /\ hit[r].pc = "counted" /\ UNCHANGED vars
      /\ hit' = [hit EXCEPT ![r] = NoHit]
  BY DEF Release
<1>2. hit[r] # NoHit
  BY <1>1 DEF NoHit
<1>3. hit \in [Readers -> Hits \cup {NoHit}] /\ IndInv /\ ins = NoInsert
  BY <1>2, HitFields DEF SharedInv, SharedTypeOK
<1>4. IndInv'
  BY <1>1, <1>3, StutterInv
<1>5. /\ hit' \in [Readers -> Hits \cup {NoHit}] /\ hit'[r] = NoHit
      /\ \A q \in Readers \ {r} : hit'[q] = hit[q]
  BY <1>1, <1>3
<1>6. MarkedIsCounted'
  <2> SUFFICES ASSUME NEW j \in DOMAIN entries,
                      entries[j].clock_bit, entries[j].frequency = 0
               PROVE  \E q \in HitsOn(j)' : hit'[q].marked /\ hit'[q].pc # "counted"
    BY <1>1 DEF MarkedIsCounted, vars
  <2>1. PICK q \in HitsOn(j) : hit[q].marked /\ hit[q].pc # "counted"
    BY DEF SharedInv, MarkedIsCounted
  <2>2. q \in Readers \ {r}
    BY <1>1, <2>1 DEF HitsOn
  <2> QED BY <1>5, <2>1, <2>2 DEF HitsOn
<1>7. UNCHANGED <<entries, ins>>
  BY <1>1 DEF vars
<1> QED BY <1>3, <1>4, <1>5, <1>6, <1>7, ReaderInv
-----------------------------------------------------------------------------
\* SharedInv is inductive.
LEMMA SharedInitInv == SharedInit => SharedInv
<1> SUFFICES ASSUME SharedInit PROVE SharedInv
  OBVIOUS
<1>1. IndInv
  BY InitInv DEF SharedInit
<1>2. ins = NoInsert /\ DOMAIN entries = {}
  BY DEF SharedInit, Init
<1>3. hit = [r \in Readers |-> NoHit]
  BY DEF SharedInit
<1>4. SharedTypeOK
  BY <1>1, <1>3 DEF SharedTypeOK, IndInv
<1>5. MarkedIsCounted
  BY <1>2 DEF MarkedIsCounted
<1> QED BY <1>1, <1>2, <1>3, <1>4, <1>5 DEF SharedInv

\* Every step keeps SharedInv.
LEMMA SharedStepInv == SharedInv /\ [SharedNext]_sharedVars => SharedInv'
<1> SUFFICES ASSUME SharedInv, [SharedNext]_sharedVars PROVE SharedInv'
  OBVIOUS
<1>1. CASE Write
  BY <1>1, WriteInv
<1>2. ASSUME NEW r \in Readers, Read(r) PROVE SharedInv'
  <2>1. ASSUME NEW k \in Keys, Lookup(r, k) PROVE SharedInv'
    BY <2>1, LookupInv
  <2>2. CASE Mark(r)
    BY <2>2, MarkInv
  <2>3. CASE LoadFrequency(r)
    BY <2>3, LoadFrequencyInv
  <2>4. CASE StoreFrequency(r)
    BY <2>4, StoreFrequencyInv
  <2>5. CASE Release(r)
    BY <2>5, ReleaseInv
  <2> QED BY <1>2, <2>1, <2>2, <2>3, <2>4, <2>5 DEF Read
<1>3. CASE UNCHANGED sharedVars
  <2>1. UNCHANGED <<vars, entries, ins, hit>>
    BY <1>3 DEF sharedVars, vars
  <2>2. IndInv'
    BY <2>1, StutterInv DEF SharedInv
  <2> QED BY <2>1, <2>2
          DEF SharedInv, SharedTypeOK, IndInv, MarkedIsCounted, HitsOn, Unwritten
<1> QED BY <1>1, <1>2, <1>3 DEF SharedNext
-----------------------------------------------------------------------------
\* However many readers share the lock and however their loads and stores
\* interleave with each other, every reachable state satisfies the inductive
\* invariant, and with it all the invariants of Shard.
THEOREM SharedInvariant == SharedSpec => []SharedInv
BY SharedInitInv, SharedStepInv, PTL DEF SharedSpec

\* No reader ever stores a frequency above the maximum, whatever the others
\* stored since it loaded one: the u8 counter never wraps.
THEOREM SharedTypeCorrect == SharedSpec => []SharedTypeOK
<1>1. SharedInv => SharedTypeOK
  BY DEF SharedInv
<1> QED BY <1>1, SharedInvariant, PTL

\* But for a hit under way, an entry with its clock bit set has a positive
\* frequency, in spite of Relaxed stores and lost hits.
THEOREM MarkedStaysCounted == SharedSpec => []MarkedIsCounted
<1>1. SharedInv => MarkedIsCounted
  BY DEF SharedInv
<1> QED BY <1>1, SharedInvariant, PTL
-----------------------------------------------------------------------------
\* The operators of Shard that no variable occurs in mean the same in Serial.
LEMMA SameOperators ==
  /\ Serial!Policies = Policies /\ Serial!NoInsert = NoInsert
  /\ Serial!NewBucket = NewBucket
  /\ \A bs, p, k : Serial!Unlink(bs, p, k) = Unlink(bs, p, k)
  /\ \A bs, p, k : Serial!Link(bs, p, k) = Link(bs, p, k)
  /\ \A k, size, p : Serial!NewInsert(k, size, p) = NewInsert(k, size, p)
  /\ \A b, h : Serial!HasIndex(b, h) = HasIndex(b, h)
  /\ \A b, h : Serial!KeyAt(b, h) = KeyAt(b, h)
  /\ \A e : Serial!Cold(e) = Cold(e)
  /\ \A e : Serial!Decay(e) = Decay(e)
  /\ \A m, S : Serial!Without(m, S) = Without(m, S)
  /\ \A m, k, e : Serial!With(m, k, e) = With(m, k, e)
<1>1. /\ Serial!Policies = Policies /\ Serial!NoInsert = NoInsert
      /\ Serial!NewBucket = NewBucket
  BY DEF Serial!Policies, Policies, Serial!NoInsert, NoInsert,
         Serial!NewBucket, NewBucket
<1>2. \A b, k : Serial!BucketRemove(b, k) = BucketRemove(b, k)
  BY DEF Serial!BucketRemove, BucketRemove, Serial!Holds, Holds, Serial!KeysOf,
         KeysOf, Serial!IndexOf, IndexOf, Serial!SwapRemove, SwapRemove
<1>3. \A b, k : Serial!BucketInsert(b, k) = BucketInsert(b, k)
  BY DEF Serial!BucketInsert, BucketInsert, Serial!Holds, Holds, Serial!KeysOf,
         KeysOf
<1>4. /\ \A bs, p, k : Serial!Unlink(bs, p, k) = Unlink(bs, p, k)
      /\ \A bs, p, k : Serial!Link(bs, p, k) = Link(bs, p, k)
  BY <1>2, <1>3 DEF Serial!Unlink, Unlink, Serial!Link, Link
<1>5. \A k, size, p : Serial!NewInsert(k, size, p) = NewInsert(k, size, p)
  BY DEF Serial!NewInsert, NewInsert, Serial!NewEntry, NewEntry
<1>6. /\ \A b, h : Serial!HasIndex(b, h) = HasIndex(b, h)
      /\ \A b, h : Serial!KeyAt(b, h) = KeyAt(b, h)
  BY DEF Serial!HasIndex, HasIndex, Serial!KeyAt, KeyAt
<1>7. \A e : Serial!Cold(e) = Cold(e)
  BY DEF Serial!Cold, Cold
<1>8. \A e : Serial!Decay(e) = Decay(e)
  BY DEF Serial!Decay, Decay
<1>9. \A m, S : Serial!Without(m, S) = Without(m, S)
  BY DEF Serial!Without, Without, Serial!Restrict, Restrict
<1>10. \A m, k, e : Serial!With(m, k, e) = With(m, k, e)
  BY DEF Serial!With, With
<1> QED BY <1>1, <1>4, <1>5, <1>6, <1>7, <1>8, <1>9, <1>10

\* While nobody reads, Serial has the entries as they are.
LEMMA SettledIdle == SharedInv /\ Unread => Settled = entries
<1> SUFFICES ASSUME SharedInv, Unread PROVE Settled = entries
  OBVIOUS
<1> IndInv /\ MarkedIsCounted /\ \A r \in Readers : hit[r] = NoHit
  BY DEF SharedInv, Unread
<1>1. ASSUME NEW k \in DOMAIN entries PROVE Settled[k] = entries[k]
  <2>1. entries[k] \in Entry /\ entries[k].clock_bit \in BOOLEAN
        /\ entries[k].frequency \in 0 .. MaxFreq
    BY InvFacts, MapsEntry
  <2>2. HitsOn(k) = {}
    BY DEF HitsOn
  <2>3. Settled[k] = [entries[k] EXCEPT !.clock_bit =
                        entries[k].frequency > 0 /\ entries[k].clock_bit]
    BY <2>2 DEF Settled
  <2>4. (entries[k].frequency > 0 /\ entries[k].clock_bit) = entries[k].clock_bit
    BY <2>1, <2>2 DEF MarkedIsCounted
  <2> QED BY <2>1, <2>3, <2>4 DEF Entry
<1>2. DOMAIN Settled = DOMAIN entries /\ Settled = [k \in DOMAIN entries |-> Settled[k]]
  BY DEF Settled
<1>3. entries = [k \in DOMAIN entries |-> entries[k]]
  BY InvFacts, MapsDef
<1> QED BY <1>1, <1>2, <1>3

\* The same after a step.
LEMMA SettledIdleNext == (SharedInv /\ Unread)' => (Settled = entries)'
BY SettledIdle, PTL

\* A method under the write lock is the same step of Serial.
LEMMA WriteSerial ==
  ASSUME SharedInv, Write
  PROVE  Serial!Next
<1>1. Settled = entries
  BY SettledIdle DEF Write
<1>2. Settled' = entries'
  <2>1. SharedInv' /\ Unread'
    BY WriteInv DEF Write, Unread
  <2> QED BY <2>1, SettledIdleNext
<1> USE <1>1, <1>2, SameOperators
<1>3. ASSUME NEW k \in Keys, NEW size \in Sizes, NEW policy \in Policies,
             BeginInsert(k, size, policy)
      PROVE  Serial!BeginInsert(k, size, policy)
  BY <1>3 DEF BeginInsert, Serial!BeginInsert
<1>4. Fits = Serial!Fits /\ Bucket = Serial!Bucket
  BY DEF Fits, Serial!Fits, Bucket, Serial!Bucket
<1>5. HandKey = Serial!HandKey /\ HandFound = Serial!HandFound
  BY <1>4 DEF HandKey, Serial!HandKey, HandFound, Serial!HandFound
<1>6. NoVictim = Serial!NoVictim
  BY <1>4, <1>5 DEF NoVictim, Serial!NoVictim
<1>7. StartSweep => Serial!StartSweep
  BY <1>4 DEF StartSweep, Serial!StartSweep
<1>8. NextBucket => Serial!NextBucket
  BY <1>4, <1>6 DEF NextBucket, Serial!NextBucket
<1>9. PassOver => Serial!PassOver
  BY <1>4, <1>5 DEF PassOver, Serial!PassOver
<1>10. \A k : Evict(k) => Serial!Evict(k)
  BY DEF Evict, Serial!Evict
<1>11. EvictCold => Serial!EvictCold
  BY <1>5, <1>10 DEF EvictCold, Serial!EvictCold
<1>12. ForceEvict => Serial!ForceEvict
  BY <1>5, <1>10 DEF ForceEvict, Serial!ForceEvict
<1>13. FinishInsert => Serial!FinishInsert
  BY <1>4 DEF FinishInsert, Serial!FinishInsert
<1>14. \A k : Remove(k) => Serial!Remove(k)
  BY DEF Remove, Serial!Remove
<1>15. Drain => Serial!Drain
  BY DEF Drain, Serial!Drain
<1> QED BY <1>3, <1>7, <1>8, <1>9, <1>11, <1>12, <1>13, <1>14, <1>15
        DEF Write, InsertStep, Serial!Next, Serial!InsertStep

\* The entry of k as Serial has it, now and after a step.
LEMMA SettledAt ==
  ASSUME NEW k
  PROVE  /\ k \in DOMAIN entries =>
              Settled[k] = [entries[k] EXCEPT !.clock_bit =
                 /\ entries[k].frequency > 0
                 /\ \/ entries[k].clock_bit
                    \/ \E q \in Readers : /\ hit[q] # NoHit /\ hit[q].key = k
                                          /\ hit[q].pc = "counted"]
         /\ k \in DOMAIN entries' =>
              Settled'[k] = [entries'[k] EXCEPT !.clock_bit =
                 /\ entries'[k].frequency > 0
                 /\ \/ entries'[k].clock_bit
                    \/ \E q \in Readers : /\ hit'[q] # NoHit /\ hit'[q].key = k
                                          /\ hit'[q].pc = "counted"]
<1>1. (\E q \in HitsOn(k) : hit[q].pc = "counted")
        <=> \E q \in Readers : /\ hit[q] # NoHit /\ hit[q].key = k
                               /\ hit[q].pc = "counted"
  BY DEF HitsOn
<1>2. (\E q \in HitsOn(k)' : hit'[q].pc = "counted")
        <=> \E q \in Readers : /\ hit'[q] # NoHit /\ hit'[q].key = k
                               /\ hit'[q].pc = "counted"
  BY DEF HitsOn
<1> QED BY <1>1, <1>2 DEF Settled

\* A step of reader r that touches at most the entry of k, its own, is a step
\* of Serial if it leaves that entry as Serial has it, or hits it.
LEMMA ReaderSerial ==
  ASSUME ins = NoInsert, UNCHANGED <<buckets, size_current, ins>>,
         NEW r \in Readers, NEW k \in DOMAIN entries, k \in Keys,
         DOMAIN entries' = DOMAIN entries,
         \A j \in DOMAIN entries \ {k} : entries'[j] = entries[j],
         \A q \in Readers \ {r} : hit'[q] = hit[q],
         hit[r] = NoHit \/ hit[r].key = k, hit'[r] = NoHit \/ hit'[r].key = k,
         \/ Settled'[k] = Settled[k]
         \/ \E f \in 1 .. MaxFreq :
              Settled'[k] = [Settled[k] EXCEPT !.clock_bit = TRUE, !.frequency = f]
  PROVE  [Serial!Next]_(Serial!vars)
<1>1. ASSUME NEW j \in DOMAIN entries \ {k} PROVE Settled'[j] = Settled[j]
  <2>1. j # k /\ entries'[j] = entries[j]
    OBVIOUS
  <2>2. ASSUME NEW q \in Readers
        PROVE  (hit'[q] # NoHit /\ hit'[q].key = j /\ hit'[q].pc = "counted")
                 <=> (hit[q] # NoHit /\ hit[q].key = j /\ hit[q].pc = "counted")
    <3>1. CASE q = r
      BY <2>1, <3>1
    <3>2. CASE q # r
      <4>1. hit'[q] = hit[q]
        BY <3>2
      <4> QED BY <4>1
    <3> QED BY <3>1, <3>2
  <2>3. (\E q \in Readers : hit'[q] # NoHit /\ hit'[q].key = j /\ hit'[q].pc = "counted")
          <=> (\E q \in Readers : hit[q] # NoHit /\ hit[q].key = j /\ hit[q].pc = "counted")
    BY <2>2
  <2> DEFINE c == \E q \in Readers : hit[q] # NoHit /\ hit[q].key = j /\ hit[q].pc = "counted"
             d == \E q \in Readers : hit'[q] # NoHit /\ hit'[q].key = j /\ hit'[q].pc = "counted"
  <2>4. /\ Settled[j] = [entries[j] EXCEPT !.clock_bit =
                           entries[j].frequency > 0 /\ (entries[j].clock_bit \/ c)]
        /\ Settled'[j] = [entries'[j] EXCEPT !.clock_bit =
                            entries'[j].frequency > 0 /\ (entries'[j].clock_bit \/ d)]
    BY SettledAt
  <2>5. c = d
    BY <2>3
  <2> HIDE DEF c, d
  <2> QED BY <2>1, <2>4, <2>5
<1>2. /\ DOMAIN Settled = DOMAIN entries /\ DOMAIN Settled' = DOMAIN entries
      /\ Settled = [j \in DOMAIN entries |-> Settled[j]]
      /\ Settled' = [j \in DOMAIN entries |-> Settled'[j]]
  BY DEF Settled
<1>3. CASE Settled'[k] = Settled[k]
  <2>1. Settled' = Settled
    BY <1>1, <1>2, <1>3
  <2> QED BY <2>1 DEF Serial!vars
<1>4. ASSUME NEW f \in 1 .. MaxFreq,
             Settled'[k] = [Settled[k] EXCEPT !.clock_bit = TRUE, !.frequency = f]
      PROVE  Serial!GetRef(k)
  <2>1. Settled' = [Settled EXCEPT ![k] =
                      [Settled[k] EXCEPT !.clock_bit = TRUE, !.frequency = f]]
    BY <1>1, <1>2, <1>4
  <2>2. Settled' = [Settled EXCEPT ![k].clock_bit = TRUE, ![k].frequency = f]
    BY <1>2, <2>1
  <2> QED BY <1>2, <2>2, SameOperators DEF Serial!GetRef
<1> QED BY <1>3, <1>4 DEF Serial!Next

\* If a reader of k has counted its hit, Serial shows the bit of k; a step that
\* leaves the entry and who counted alone leaves what Serial shows.
LEMMA CountedShows ==
  ASSUME SharedInv, NEW k \in DOMAIN entries, NEW r \in Readers,
         hit[r] # NoHit, hit[r].key = k, hit[r].pc = "counted"
  PROVE  Settled[k] = [entries[k] EXCEPT !.clock_bit = TRUE]
<1>1. entries[k].frequency > 0
  BY HitFields
<1>2. (/\ entries[k].frequency > 0
       /\ \/ entries[k].clock_bit
          \/ \E q \in Readers : hit[q] # NoHit /\ hit[q].key = k /\ hit[q].pc = "counted")
        = TRUE
  BY <1>1
<1> QED BY <1>2, SettledAt

\* An entry shows the same before and after a step of a reader that counts no hit.
LEMMA SameShows ==
  ASSUME NEW k \in DOMAIN entries, entries' = entries, NEW r \in Readers,
         \A q \in Readers \ {r} : hit'[q] = hit[q],
         hit[r] = NoHit \/ hit[r].pc # "counted",
         hit'[r] = NoHit \/ hit'[r].pc # "counted"
  PROVE  Settled'[k] = Settled[k]
<1> DEFINE c == \E q \in Readers : hit[q] # NoHit /\ hit[q].key = k /\ hit[q].pc = "counted"
           d == \E q \in Readers : hit'[q] # NoHit /\ hit'[q].key = k /\ hit'[q].pc = "counted"
<1>1. ASSUME NEW q \in Readers
      PROVE  (hit'[q] # NoHit /\ hit'[q].key = k /\ hit'[q].pc = "counted")
               <=> (hit[q] # NoHit /\ hit[q].key = k /\ hit[q].pc = "counted")
  <2>1. CASE q = r
    BY <2>1
  <2>2. CASE q # r
    <3>1. hit'[q] = hit[q]
      BY <2>2
    <3> QED BY <3>1
  <2> QED BY <2>1, <2>2
<1>2. c = d
  BY <1>1
<1>3. /\ Settled[k] = [entries[k] EXCEPT !.clock_bit =
                         entries[k].frequency > 0 /\ (entries[k].clock_bit \/ c)]
      /\ Settled'[k] = [entries'[k] EXCEPT !.clock_bit =
                          entries'[k].frequency > 0 /\ (entries'[k].clock_bit \/ d)]
  BY SettledAt
<1> HIDE DEF c, d
<1> QED BY <1>2, <1>3

\* One lemma per action: it maps to a step of Shard or to none.
LEMMA LookupSerial ==
  ASSUME SharedInv, NEW r \in Readers, NEW k \in Keys, Lookup(r, k)
  PROVE  [Serial!Next]_(Serial!vars)
<1>1. /\ ins = NoInsert /\ hit[r] = NoHit /\ k \in DOMAIN entries
      /\ UNCHANGED <<entries, buckets, size_current, ins>>
  BY DEF Lookup, Unwritten, vars
<1>2. hit \in [Readers -> Hits \cup {NoHit}]
  BY DEF SharedInv, SharedTypeOK
<1>3. /\ hit'[r].pc = "load" /\ hit'[r].key = k
      /\ \A q \in Readers \ {r} : hit'[q] = hit[q]
  BY <1>2 DEF Lookup
<1>4. Settled'[k] = Settled[k]
  BY <1>1, <1>3, SameShows
<1> QED BY <1>1, <1>3, <1>4, ReaderSerial

\* Releasing the lock does not show in the serial shard.
LEMMA ReleaseSerial ==
  ASSUME SharedInv, NEW r \in Readers, Release(r)
  PROVE  [Serial!Next]_(Serial!vars)
<1>1. /\ hit[r].pc = "counted" /\ hit[r].marked
      /\ UNCHANGED <<entries, buckets, size_current, ins>>
  BY DEF Release, vars
<1>2. hit[r] # NoHit
  BY <1>1 DEF NoHit
<1>3. PICK k : k = hit[r].key
  OBVIOUS
<1>4. /\ k \in DOMAIN entries /\ k \in Keys /\ ins = NoInsert
      /\ entries[k].clock_bit /\ entries[k].frequency > 0
  BY <1>1, <1>2, <1>3, HitFields
<1>5. hit \in [Readers -> Hits \cup {NoHit}]
  BY DEF SharedInv, SharedTypeOK
<1>6. hit'[r] = NoHit /\ \A q \in Readers \ {r} : hit'[q] = hit[q]
  BY <1>5 DEF Release
<1>7. Settled'[k] = Settled[k]
  <2>1. \A b \in BOOLEAN :
          (entries[k].frequency > 0 /\ (entries[k].clock_bit \/ b)) = TRUE
    BY <1>4
  <2>2. Settled[k] = [entries[k] EXCEPT !.clock_bit = TRUE]
    BY <1>1, <1>2, <1>3, <1>4, CountedShows
  <2>3. Settled'[k] = [entries'[k] EXCEPT !.clock_bit = TRUE]
    BY <1>1, <1>4, <2>1, SettledAt
  <2> QED BY <1>1, <2>2, <2>3
<1> QED BY <1>1, <1>3, <1>4, <1>6, <1>7, ReaderSerial

\* What a hit makes of an entry, whatever bit Serial shows of it before.
LEMMA HitEntry ==
  ASSUME NEW e \in Entry, NEW b \in BOOLEAN, NEW f \in 0 .. MaxFreq
  PROVE  [[e EXCEPT !.clock_bit = b] EXCEPT !.clock_bit = TRUE, !.frequency = f]
           = [[e EXCEPT !.frequency = f] EXCEPT !.clock_bit = TRUE]
BY DEF Entry

\* Storing the frequency that an entry has changes nothing.
LEMMA SameFrequency ==
  ASSUME NEW e \in Entry
  PROVE  [e EXCEPT !.frequency = e.frequency] = e
BY DEF Entry

\* The last bit that is stored counts.
LEMMA LastBit ==
  ASSUME NEW e \in Entry, NEW b \in BOOLEAN
  PROVE  [[e EXCEPT !.clock_bit = TRUE] EXCEPT !.clock_bit = b]
           = [e EXCEPT !.clock_bit = b]
BY DEF Entry

\* A reader at a hit, and its entry, which Serial shows with some bit.
LEMMA HitShows ==
  ASSUME SharedInv, NEW r \in Readers, hit[r] # NoHit
  PROVE  \E k \in DOMAIN entries, b \in BOOLEAN :
           /\ k = hit[r].key /\ k \in Keys /\ ins = NoInsert
           /\ entries[k] \in Entry
           /\ Settled[k] = [entries[k] EXCEPT !.clock_bit = b]
           /\ entries[k].frequency = 0 => b = FALSE
<1>1. PICK k \in DOMAIN entries : k = hit[r].key /\ k \in Keys
  BY HitFields
<1>2. entries[k] \in Entry /\ ins = NoInsert
  BY HitFields, InvFacts, MapsEntry DEF SharedInv
<1> DEFINE b == /\ entries[k].frequency > 0
                /\ \/ entries[k].clock_bit
                   \/ \E q \in Readers : hit[q] # NoHit /\ hit[q].key = k
                                           /\ hit[q].pc = "counted"
<1>3. Settled[k] = [entries[k] EXCEPT !.clock_bit = b]
  BY SettledAt
<1>4. b \in BOOLEAN /\ (entries[k].frequency = 0 => b = FALSE)
  OBVIOUS
<1> HIDE DEF b
<1> QED BY <1>1, <1>2, <1>3, <1>4

\* Storing the bit is a step of Serial, or does not show.
LEMMA MarkSerial ==
  ASSUME SharedInv, NEW r \in Readers, Mark(r)
  PROVE  [Serial!Next]_(Serial!vars)
<1>1. hit[r] # NoHit
  BY DEF Mark
<1>2. PICK k \in DOMAIN entries, b \in BOOLEAN :
        /\ k = hit[r].key /\ k \in Keys /\ ins = NoInsert
        /\ entries[k] \in Entry
        /\ Settled[k] = [entries[k] EXCEPT !.clock_bit = b]
        /\ entries[k].frequency = 0 => b = FALSE
  BY <1>1, HitShows
<1>3. entries \in EntryMaps /\ hit \in [Readers -> Hits \cup {NoHit}] /\ hit[r] \in Hits
  BY <1>1, InvFacts DEF SharedInv, SharedTypeOK
<1>4. /\ UNCHANGED <<buckets, size_current, ins>>
      /\ entries' = [entries EXCEPT ![k] = [entries[k] EXCEPT !.clock_bit = TRUE]]
      /\ hit' = [hit EXCEPT ![r] = [hit[r] EXCEPT !.marked = TRUE]]
  BY <1>2 DEF Mark
<1>5. /\ DOMAIN entries' = DOMAIN entries
      /\ entries'[k] = [entries[k] EXCEPT !.clock_bit = TRUE]
      /\ \A j \in DOMAIN entries \ {k} : entries'[j] = entries[j]
  BY <1>4
<1>6. hit'[r].key = k /\ \A q \in Readers \ {r} : hit'[q] = hit[q]
  BY <1>2, <1>3, <1>4 DEF Hits
<1>7. /\ entries'[k].frequency = entries[k].frequency /\ entries'[k].clock_bit
      /\ entries[k].frequency \in 0 .. MaxFreq
  BY <1>2, <1>5 DEF Entry
<1>8. CASE entries[k].frequency = 0
  <2>1. Settled'[k] = [entries'[k] EXCEPT !.clock_bit = FALSE]
    <3>1. \A c \in BOOLEAN :
            (entries'[k].frequency > 0 /\ (entries'[k].clock_bit \/ c)) = FALSE
      BY <1>7, <1>8
    <3> QED BY <1>5, <3>1, SettledAt
  <2>2. Settled'[k] = Settled[k]
    <3>1. [[entries[k] EXCEPT !.clock_bit = TRUE] EXCEPT !.clock_bit = FALSE]
            = [entries[k] EXCEPT !.clock_bit = FALSE]
      BY <1>2, LastBit
    <3> QED BY <1>2, <1>5, <1>8, <2>1, <3>1
  <2> QED BY <1>2, <1>4, <1>5, <1>6, <2>2, ReaderSerial
<1>9. CASE entries[k].frequency > 0
  <2>1. Settled'[k] = [entries'[k] EXCEPT !.clock_bit = TRUE]
    <3>1. \A c \in BOOLEAN :
            (entries'[k].frequency > 0 /\ (entries'[k].clock_bit \/ c)) = TRUE
      BY <1>7, <1>9
    <3> QED BY <1>5, <3>1, SettledAt
  <2>2. Settled'[k] = [entries[k] EXCEPT !.clock_bit = TRUE]
    <3>1. [[entries[k] EXCEPT !.clock_bit = TRUE] EXCEPT !.clock_bit = TRUE]
            = [entries[k] EXCEPT !.clock_bit = TRUE]
      BY <1>2, LastBit
    <3> QED BY <1>5, <2>1, <3>1
  <2>3. PICK f \in 1 .. MaxFreq : f = entries[k].frequency /\ f \in 0 .. MaxFreq
    BY <1>7, <1>9
  <2>4. Settled'[k] = [Settled[k] EXCEPT !.clock_bit = TRUE, !.frequency = f]
    <3>1. [Settled[k] EXCEPT !.clock_bit = TRUE, !.frequency = f]
            = [[entries[k] EXCEPT !.frequency = f] EXCEPT !.clock_bit = TRUE]
      BY <1>2, <2>3, HitEntry
    <3>2. [entries[k] EXCEPT !.frequency = f] = entries[k]
      BY <1>2, <2>3, SameFrequency
    <3> QED BY <2>2, <3>1, <3>2
  <2> QED BY <1>2, <1>4, <1>5, <1>6, <2>3, <2>4, ReaderSerial
<1> QED BY <1>7, <1>8, <1>9

\* Storing the frequency shows as the hit.
LEMMA StoreFrequencySerial ==
  ASSUME SharedInv, NEW r \in Readers, StoreFrequency(r)
  PROVE  [Serial!Next]_(Serial!vars)
<1>1. hit[r] # NoHit /\ hit[r].pc = "store"
  BY DEF StoreFrequency, NoHit
<1>2. PICK k \in DOMAIN entries, b \in BOOLEAN :
        /\ k = hit[r].key /\ k \in Keys /\ ins = NoInsert
        /\ entries[k] \in Entry
        /\ Settled[k] = [entries[k] EXCEPT !.clock_bit = b]
        /\ entries[k].frequency = 0 => b = FALSE
  BY <1>1, HitShows
<1>3. entries \in EntryMaps /\ hit \in [Readers -> Hits \cup {NoHit}] /\ hit[r] \in Hits
  BY <1>1, InvFacts DEF SharedInv, SharedTypeOK
<1>4. PICK f \in 1 .. MaxFreq : f = hit[r].freq + 1 /\ f \in 0 .. MaxFreq
  <2>1. hit[r].freq \in 0 .. MaxFreq /\ hit[r].freq < MaxFreq
    BY <1>1, HitFields
  <2> QED BY <2>1
<1>5. /\ UNCHANGED <<buckets, size_current, ins>>
      /\ entries' = [entries EXCEPT ![k] = [entries[k] EXCEPT !.frequency = f]]
      /\ hit' = [hit EXCEPT ![r] = [hit[r] EXCEPT !.pc = "counted"]]
  BY <1>2, <1>4 DEF StoreFrequency
<1>6. /\ DOMAIN entries' = DOMAIN entries
      /\ entries'[k] = [entries[k] EXCEPT !.frequency = f]
      /\ \A j \in DOMAIN entries \ {k} : entries'[j] = entries[j]
  BY <1>5
<1>7. /\ hit'[r].key = k /\ hit'[r].pc = "counted" /\ hit'[r] # NoHit
      /\ \A q \in Readers \ {r} : hit'[q] = hit[q]
  BY <1>2, <1>3, <1>5 DEF Hits, NoHit
<1>8. entries'[k].frequency > 0
  BY <1>2, <1>4, <1>6 DEF Entry
<1>9. Settled'[k] = [entries'[k] EXCEPT !.clock_bit = TRUE]
  <2>1. (/\ entries'[k].frequency > 0
         /\ \/ entries'[k].clock_bit
            \/ \E q \in Readers : /\ hit'[q] # NoHit /\ hit'[q].key = k
                                  /\ hit'[q].pc = "counted") = TRUE
    BY <1>7, <1>8
  <2> QED BY <1>6, <2>1, SettledAt
<1>10. Settled'[k] = [Settled[k] EXCEPT !.clock_bit = TRUE, !.frequency = f]
  <2>1. [Settled[k] EXCEPT !.clock_bit = TRUE, !.frequency = f]
          = [[entries[k] EXCEPT !.frequency = f] EXCEPT !.clock_bit = TRUE]
    BY <1>2, <1>4, HitEntry
  <2> QED BY <1>6, <1>9, <2>1
<1> QED BY <1>2, <1>5, <1>6, <1>7, <1>10, ReaderSerial

\* Loading it shows as the hit if it is at its maximum, and else not at all.
LEMMA LoadFrequencySerial ==
  ASSUME SharedInv, NEW r \in Readers, LoadFrequency(r)
  PROVE  [Serial!Next]_(Serial!vars)
<1>1. hit[r] # NoHit /\ hit[r].pc = "load"
  BY DEF LoadFrequency, NoHit
<1>2. PICK k \in DOMAIN entries, b \in BOOLEAN :
        /\ k = hit[r].key /\ k \in Keys /\ ins = NoInsert
        /\ entries[k] \in Entry
        /\ Settled[k] = [entries[k] EXCEPT !.clock_bit = b]
        /\ entries[k].frequency = 0 => b = FALSE
  BY <1>1, HitShows
<1>3. hit \in [Readers -> Hits \cup {NoHit}] /\ hit[r] \in Hits
  BY <1>1 DEF SharedInv, SharedTypeOK
<1>4. /\ UNCHANGED <<entries, buckets, size_current, ins>>
      /\ hit' = [hit EXCEPT ![r].freq = entries[k].frequency,
                            ![r].pc = IF entries[k].frequency < MaxFreq
                                      THEN "store" ELSE "counted"]
  BY <1>2 DEF LoadFrequency, vars
<1>5. /\ hit'[r].key = k /\ hit'[r] # NoHit
      /\ hit'[r].pc = (IF entries[k].frequency < MaxFreq THEN "store" ELSE "counted")
      /\ \A q \in Readers \ {r} : hit'[q] = hit[q]
  BY <1>2, <1>3, <1>4 DEF Hits, NoHit
<1>6. CASE entries[k].frequency < MaxFreq
  <2>1. hit[r].pc # "counted" /\ hit'[r].pc # "counted"
    BY <1>1, <1>5, <1>6
  <2>2. entries' = entries
    BY <1>4
  <2>3. \A q \in Readers \ {r} : hit'[q] = hit[q]
    BY <1>5
  <2>4. Settled'[k] = Settled[k]
    BY <2>1, <2>2, <2>3, SameShows
  <2> QED BY <1>2, <1>4, <1>5, <2>4, ReaderSerial
<1>7. CASE ~ entries[k].frequency < MaxFreq
  <2>1. entries[k].frequency = MaxFreq /\ MaxFreq \in 0 .. MaxFreq /\ MaxFreq \in 1 .. MaxFreq
    BY <1>2, <1>7 DEF Entry
  <2>2. Settled'[k] = [entries[k] EXCEPT !.clock_bit = TRUE]
    <3>1. /\ entries' = entries
          /\ hit'[r].key = k /\ hit'[r].pc = "counted" /\ hit'[r] # NoHit
      BY <1>4, <1>5, <1>7
    <3>2. entries'[k].frequency > 0
      BY <3>1, <2>1
    <3>3. (/\ entries'[k].frequency > 0
           /\ \/ entries'[k].clock_bit
              \/ \E q \in Readers : /\ hit'[q] # NoHit /\ hit'[q].key = k
                                    /\ hit'[q].pc = "counted") = TRUE
      BY <3>1, <3>2
    <3> QED BY <3>1, <3>3, SettledAt
  <2>3. [Settled[k] EXCEPT !.clock_bit = TRUE, !.frequency = MaxFreq]
          = [[entries[k] EXCEPT !.frequency = MaxFreq] EXCEPT !.clock_bit = TRUE]
    BY <1>2, <2>1, HitEntry
  <2>4. [entries[k] EXCEPT !.frequency = MaxFreq] = entries[k]
    BY <1>2, <2>1, SameFrequency
  <2>5. Settled'[k] = [Settled[k] EXCEPT !.clock_bit = TRUE, !.frequency = MaxFreq]
    BY <2>2, <2>3, <2>4
  <2> QED BY <1>2, <1>4, <1>5, <2>1, <2>5, ReaderSerial
<1> QED BY <1>6, <1>7
-----------------------------------------------------------------------------
\* The shard starts as the serial one.
LEMMA SharedInitSerial == SharedInit => Serial!Init
<1> SUFFICES ASSUME SharedInit PROVE Serial!Init
  OBVIOUS
<1>1. Init /\ SharedInv /\ Unread
  BY SharedInitInv DEF SharedInit, Unread
<1>2. Settled = entries
  BY <1>1, SettledIdle
<1> QED BY <1>1, <1>2, SameOperators DEF Init, Serial!Init

\* Every step is one of the serial shard, or does not show.
LEMMA SharedStepSerial ==
  SharedInv /\ [SharedNext]_sharedVars => [Serial!Next]_(Serial!vars)
<1> SUFFICES ASSUME SharedInv, [SharedNext]_sharedVars
             PROVE  [Serial!Next]_(Serial!vars)
  OBVIOUS
<1>1. CASE Write
  BY <1>1, WriteSerial
<1>2. ASSUME NEW r \in Readers, Read(r) PROVE [Serial!Next]_(Serial!vars)
  <2>1. ASSUME NEW k \in Keys, Lookup(r, k) PROVE [Serial!Next]_(Serial!vars)
    BY <2>1, LookupSerial
  <2>2. CASE Mark(r)
    BY <2>2, MarkSerial
  <2>3. CASE LoadFrequency(r)
    BY <2>3, LoadFrequencySerial
  <2>4. CASE StoreFrequency(r)
    BY <2>4, StoreFrequencySerial
  <2>5. CASE Release(r)
    BY <2>5, ReleaseSerial
  <2> QED BY <1>2, <2>1, <2>2, <2>3, <2>4, <2>5 DEF Read
<1>3. CASE UNCHANGED sharedVars
  BY <1>3 DEF sharedVars, vars, Serial!vars, Settled, HitsOn
<1> QED BY <1>1, <1>2, <1>3 DEF SharedNext

\* A shard with any number of concurrent readers implements Shard, where one
\* method runs at a time and a hit is one step: the reason why Shard, and the
\* proofs about it, may ignore that hits are a load and two stores.
THEOREM ReadersAreSerial == SharedSpec => ReadersSerialize
BY SharedInitSerial, SharedStepSerial, SharedInvariant, PTL
   DEF SharedSpec, ReadersSerialize
-----------------------------------------------------------------------------
(* The hits that are lost.                                                  *)

\* What makes OnlyRacesLoseHits inductive: what a reader is about to store
\* counts no hit that never came, and without a race a reader is alone with
\* its load and its store and nobody changed the frequency in between.
HitsInv ==
  /\ ins # NoInsert => ins.entry.frequency = 0
  /\ credit \in [Keys -> 0 .. MaxFreq] /\ raced \in [Keys -> BOOLEAN]
  /\ OnlyRacesLoseHits
  /\ \A r \in Readers : hit[r].pc = "store" =>
       LET k == hit[r].key
       IN  /\ hit[r].freq <= credit[k]
           /\ ~ raced[k] => /\ hit[r].freq = entries[k].frequency
                            /\ \A q \in HitsOn(k) : hit[q].pc = "store" => q = r

\* What the history variables do to one key.
LEMMA HistoryOf ==
  ASSUME MCNext, NEW k \in Keys
  PROVE  /\ Anew(k) => credit'[k] = 0 /\ raced'[k] = FALSE
         /\ ~ Anew(k) => raced'[k] = (raced[k] \/ Overlap(k))
         /\ ~ Anew(k) /\ HitCounted(k) /\ ~ Decayed(k) =>
              credit'[k] = IF credit[k] < MaxFreq THEN credit[k] + 1 ELSE credit[k]
         /\ ~ Anew(k) /\ ~ HitCounted(k) /\ Decayed(k) => credit'[k] = credit[k] - 1
         /\ ~ Anew(k) /\ ~ HitCounted(k) /\ ~ Decayed(k) => credit'[k] = credit[k]
<1> DEFINE C(j) == CASE Anew(j) -> 0
                     [] ~ Anew(j) /\ HitCounted(j) /\ credit[j] < MaxFreq -> credit[j] + 1
                     [] ~ Anew(j) /\ Decayed(j) -> credit[j] - 1
                     [] OTHER -> credit[j]
           R(j) == ~ Anew(j) /\ (raced[j] \/ Overlap(j))
<1>1. credit' = [j \in Keys |-> C(j)] /\ raced' = [j \in Keys |-> R(j)]
  BY DEF MCNext
<1>2. credit'[k] = C(k) /\ raced'[k] = R(k)
  <2> HIDE DEF C, R
  <2> QED BY <1>1
<1>3. Anew(k) => C(k) = 0
  OBVIOUS
<1>4. ~ Anew(k) /\ HitCounted(k) /\ ~ Decayed(k) =>
        C(k) = IF credit[k] < MaxFreq THEN credit[k] + 1 ELSE credit[k]
  OBVIOUS
<1>5. ~ Anew(k) /\ ~ HitCounted(k) /\ Decayed(k) => C(k) = credit[k] - 1
  OBVIOUS
<1>6. ~ Anew(k) /\ ~ HitCounted(k) /\ ~ Decayed(k) => C(k) = credit[k]
  OBVIOUS
<1> QED BY <1>2, <1>3, <1>4, <1>5, <1>6 DEF R

\* What a method under the write lock leaves of the entries: each is new, with
\* a frequency of zero, or was there before and decayed at most one step.
LEMMA WriteFrequency ==
  ASSUME SharedInv, HitsInv, Write, NEW k \in DOMAIN entries'
  PROVE  \/ Stored(k) /\ entries'[k].frequency = 0
         \/ /\ ~ Stored(k) /\ k \in DOMAIN entries
            /\ \/ entries'[k].frequency = entries[k].frequency /\ ~ Decayed(k)
               \/ /\ entries'[k].frequency = entries[k].frequency - 1 /\ Decayed(k)
                  /\ entries[k].frequency > 0
<1>1. entries' \in EntryMaps /\ entries \in EntryMaps
  <2>1. SharedInv'
    BY WriteInv
  <2> QED BY <2>1 DEF SharedInv, IndInv, TypeOK
<1>2. /\ entries'[k] \in Entry /\ entries'[k].frequency \in Nat
      /\ k \in DOMAIN entries => entries[k] \in Entry /\ entries[k].frequency \in Nat
  <2>1. entries'[k] \in Entry /\ (k \in DOMAIN entries => entries[k] \in Entry)
    BY <1>1, MapsEntry
  <2> QED BY <2>1 DEF Entry
<1>3. ASSUME k \in DOMAIN entries, entries'[k] = entries[k], ~ Stored(k)
      PROVE  entries'[k].frequency = entries[k].frequency /\ ~ Decayed(k)
  BY <1>2, <1>3 DEF Decayed
<1>4. CASE FinishInsert
  <2>1. ins # NoInsert /\ ins' = NoInsert /\ entries' = With(entries, ins.key, ins.entry)
    BY <1>4 DEF FinishInsert, NoInsert
  <2>2. CASE k = ins.key
    BY <2>1, <2>2 DEF Stored, With, HitsInv
  <2>3. CASE k # ins.key
    BY <1>3, <2>1, <2>3 DEF Stored, With
  <2> QED BY <2>2, <2>3
<1>5. CASE PassOver
  <2>1. /\ HandKey \in DOMAIN entries /\ entries' = [entries EXCEPT ![HandKey] = Decay(@)]
        /\ ~ Cold(entries[HandKey]) /\ ins.pc = "sweep" /\ ins' # NoInsert
    <3>1. ins # NoInsert /\ ins.pc = "sweep"
      BY <1>5 DEF PassOver, NoInsert
    <3>2. ins \in Inserts
      BY <3>1, InsertFacts DEF SharedInv
    <3>3. ins'.pc = "sweep"
      BY <1>5, <3>1, <3>2 DEF PassOver, Inserts
    <3> QED BY <1>5, <3>1, <3>3 DEF PassOver, HandFound, NoInsert
  <2>2. ~ Stored(k)
    BY <2>1 DEF Stored
  <2>3. CASE k # HandKey
    BY <1>3, <2>1, <2>2, <2>3
  <2>4. CASE k = HandKey
    <3>1. k \in DOMAIN entries /\ entries'[k] = Decay(entries[k])
      BY <2>1, <2>4
    <3>2. CASE entries[k].clock_bit
      <4>1. entries'[k].frequency = entries[k].frequency
        BY <1>2, <3>1, <3>2 DEF Decay, Entry
      <4> QED BY <1>2, <2>2, <3>1, <4>1 DEF Decayed
    <3>3. CASE ~ entries[k].clock_bit
      <4>1. entries'[k].frequency = entries[k].frequency - 1
        BY <1>2, <3>1, <3>3 DEF Decay, Entry
      <4>2. entries[k].frequency > 0
        BY <1>2, <2>1, <2>4, <3>1, <3>3 DEF Cold
      <4> QED BY <1>2, <2>1, <2>2, <3>1, <4>1, <4>2 DEF Decayed
    <3> QED BY <3>2, <3>3
  <2> QED BY <2>3, <2>4
<1>6. CASE /\ \/ entries' = entries
              \/ \E S : entries' = Without(entries, S)
              \/ entries' = << >>
           /\ ins = NoInsert \/ ins' # NoInsert
  <2>1. ASSUME NEW S, entries' = Without(entries, S)
        PROVE  k \in DOMAIN entries /\ entries'[k] = entries[k]
    BY <2>1 DEF Without, Restrict
  <2>2. ASSUME entries' = << >> PROVE FALSE
    BY <2>2
  <2>3. k \in DOMAIN entries /\ entries'[k] = entries[k]
    BY <1>6, <2>1, <2>2
  <2>4. ~ Stored(k)
    BY <1>6 DEF Stored
  <2> QED BY <1>3, <2>3, <2>4
<1>7. CASE StartSweep \/ NextBucket \/ EvictCold \/ ForceEvict
  <2>1. \/ entries' = entries
        \/ \E S : entries' = Without(entries, S)
    BY <1>7 DEF StartSweep, NextBucket, EvictCold, ForceEvict, Evict
  <2>2. ins # NoInsert
    BY <1>7 DEF StartSweep, NextBucket, EvictCold, ForceEvict, NoInsert
  <2>3. ins \in Inserts
    BY <2>2, InsertFacts DEF SharedInv
  <2>4. ins'.pc \in {"evict", "sweep"}
    BY <1>7, <2>3 DEF StartSweep, NextBucket, EvictCold, ForceEvict, Evict, Inserts
  <2> QED BY <1>6, <2>1, <2>4 DEF NoInsert
<1>8. CASE \/ \E j \in Keys, size \in Sizes, policy \in Policies : BeginInsert(j, size, policy)
           \/ (\E j \in Keys : Remove(j))
           \/ Drain
  BY <1>6, <1>8 DEF BeginInsert, Remove, Drain
<1> QED BY <1>4, <1>5, <1>7, <1>8 DEF Write, InsertStep

\* A method under the write lock keeps the frequencies and what they would be
\* without losses together: it starts both anew or takes one off both.
LEMMA WriteHits ==
  ASSUME SharedInv, HitsInv, Write, MCNext
  PROVE  HitsInv'
<1>1. hit' = hit /\ \A r \in Readers : hit[r] = NoHit
  BY DEF Write, Unread
<1>2. \A k : ~ HitCounted(k) /\ ~ Overlap(k)
  BY <1>1 DEF HitCounted, Overlap, HitsOn, NoHit
<1>3. IndInv /\ IndInv'
  BY WriteInv DEF SharedInv
<1>4. /\ DOMAIN entries' \subseteq Keys
      /\ \A k \in DOMAIN entries : entries[k].frequency \in 0 .. MaxFreq
  <2>1. entries \in EntryMaps /\ entries' \in EntryMaps
    BY <1>3 DEF IndInv, TypeOK
  <2>2. \A k \in DOMAIN entries : entries[k] \in Entry
    BY <2>1, MapsEntry
  <2> QED BY <2>1, <2>2, MapsDef DEF Entry
<1>5. ASSUME NEW k \in Keys
      PROVE  /\ credit'[k] \in 0 .. MaxFreq /\ raced'[k] \in BOOLEAN
             /\ k \in DOMAIN entries' =>
                  /\ entries'[k].frequency <= credit'[k]
                  /\ ~ raced'[k] => entries'[k].frequency = credit'[k]
  <2>1. credit[k] \in 0 .. MaxFreq /\ raced[k] \in BOOLEAN
    BY DEF HitsInv
  <2>2. CASE Anew(k)
    <3>1. credit'[k] = 0 /\ raced'[k] = FALSE
      BY <2>2, HistoryOf
    <3>2. k \in DOMAIN entries' => entries'[k].frequency = 0
      BY <2>2, WriteFrequency DEF Anew
    <3>3. 0 \in 0 .. MaxFreq /\ 0 <= 0
      OBVIOUS
    <3>4. credit'[k] \in 0 .. MaxFreq
      BY <3>1, <3>3
    <3>5. raced'[k] \in BOOLEAN
      BY <3>1
    <3>6. k \in DOMAIN entries' => entries'[k].frequency = credit'[k]
      BY <3>1, <3>2
    <3> QED BY <3>1, <3>3, <3>4, <3>5, <3>6
  <2>3. CASE ~ Anew(k)
    <3>1. /\ k \in DOMAIN entries' /\ k \in DOMAIN entries
          /\ \/ entries'[k].frequency = entries[k].frequency /\ ~ Decayed(k)
             \/ /\ entries'[k].frequency = entries[k].frequency - 1 /\ Decayed(k)
                /\ entries[k].frequency > 0
      BY <2>3, WriteFrequency DEF Anew
    <3>2. /\ raced'[k] = raced[k]
          /\ credit'[k] = IF Decayed(k) THEN credit[k] - 1 ELSE credit[k]
      BY <1>2, <2>1, <2>3, HistoryOf
    <3>3. /\ entries[k].frequency \in 0 .. MaxFreq /\ entries[k].frequency <= credit[k]
          /\ ~ raced[k] => entries[k].frequency = credit[k]
      BY <1>4, <3>1 DEF HitsInv, OnlyRacesLoseHits
    <3> QED BY <2>1, <3>1, <3>2, <3>3
  <2> QED BY <2>2, <2>3
<1>6. credit' \in [Keys -> 0 .. MaxFreq] /\ raced' \in [Keys -> BOOLEAN]
  <2>1. DOMAIN credit' = Keys /\ DOMAIN raced' = Keys
        /\ credit' = [k \in Keys |-> credit'[k]] /\ raced' = [k \in Keys |-> raced'[k]]
    BY DEF MCNext
  <2> QED BY <1>5, <2>1
<1>7. OnlyRacesLoseHits'
  BY <1>4, <1>5 DEF OnlyRacesLoseHits
<1>8. ins' # NoInsert => ins'.entry.frequency = 0
  <2>1. ASSUME NEW k \in Keys, NEW size \in Sizes, NEW policy \in Policies,
               BeginInsert(k, size, policy)
        PROVE  ins'.entry.frequency = 0
    BY <2>1 DEF BeginInsert, NewInsert, NewEntry
  <2>2. ASSUME InsertStep, ins' # NoInsert PROVE ins # NoInsert /\ ins'.entry = ins.entry
    <3>1. ins # NoInsert
      BY <2>2 DEF InsertStep, StartSweep, NextBucket, PassOver, EvictCold,
                  ForceEvict, FinishInsert, NoInsert
    <3>2. ins \in Inserts
      BY <1>3, <3>1, InsertFacts
    <3> QED BY <2>2, <3>1, <3>2
            DEF InsertStep, StartSweep, NextBucket, PassOver, EvictCold,
                ForceEvict, FinishInsert, Evict, Inserts
  <2>3. ASSUME (\E k \in Keys : Remove(k)) \/ Drain PROVE ins' = ins
    BY <2>3 DEF Remove, Drain
  <2> QED BY <2>1, <2>2, <2>3 DEF Write, HitsInv
<1>9. \A r \in Readers : hit'[r].pc # "store"
  BY <1>1 DEF NoHit
<1> QED BY <1>6, <1>7, <1>8, <1>9 DEF HitsInv

\* A step of a reader brings no entry and takes none, and decays none.
LEMMA ReaderHistory ==
  ASSUME SharedInv, HitsInv, MCNext, ins = NoInsert, ins' = ins,
         DOMAIN entries' = DOMAIN entries, NEW k \in Keys
  PROVE  /\ credit[k] \in 0 .. MaxFreq /\ raced[k] \in BOOLEAN
         /\ k \notin DOMAIN entries => credit'[k] = 0 /\ raced'[k] = FALSE
         /\ k \in DOMAIN entries =>
              /\ raced'[k] = (raced[k] \/ Overlap(k))
              /\ credit'[k] = IF HitCounted(k) /\ credit[k] < MaxFreq
                              THEN credit[k] + 1 ELSE credit[k]
<1>1. Anew(k) <=> k \notin DOMAIN entries
  BY DEF Anew, Stored
<1>2. ~ Decayed(k)
  BY DEF Decayed, NoInsert
<1>3. credit[k] \in 0 .. MaxFreq /\ raced[k] \in BOOLEAN
  BY DEF HitsInv
<1> QED BY <1>1, <1>2, <1>3, HistoryOf
\* Only the hit of the reader that makes a step is counted by it.
LEMMA CountedByOne ==
  ASSUME NEW r \in Readers, \A q \in Readers \ {r} : hit'[q] = hit[q], NEW k, HitCounted(k)
  PROVE  /\ hit[r] # NoHit /\ hit[r].key = k
         /\ hit[r].pc # "counted" /\ hit'[r].pc = "counted"
<1>1. PICK q \in HitsOn(k) : hit[q].pc # "counted" /\ hit'[q].pc = "counted"
  BY DEF HitCounted
<1>2. q \in Readers /\ hit[q] # NoHit /\ hit[q].key = k
  BY DEF HitsOn
<1>3. q = r
  BY <1>1, <1>2
<1> QED BY <1>1, <1>2, <1>3

\* Assembles HitsInv of the next state after a step of a reader.
LEMMA ReaderHits ==
  ASSUME SharedInv, SharedInv', HitsInv, MCNext, ins = NoInsert, ins' = ins,
         DOMAIN entries' = DOMAIN entries,
         \A k \in DOMAIN entries :
           /\ entries'[k].frequency <= credit'[k]
           /\ ~ raced'[k] => entries'[k].frequency = credit'[k],
         \A q \in Readers : hit'[q].pc = "store" =>
           /\ hit'[q].freq <= credit'[hit'[q].key]
           /\ ~ raced'[hit'[q].key] => hit'[q].freq = entries'[hit'[q].key].frequency
  PROVE  HitsInv'
<1>1. ASSUME NEW k \in Keys PROVE credit'[k] \in 0 .. MaxFreq /\ raced'[k] \in BOOLEAN
  <2>1. credit[k] \in 0 .. MaxFreq
    BY DEF HitsInv
  <2>2. CASE k \notin DOMAIN entries
    <3>1. credit'[k] = 0 /\ raced'[k] = FALSE
      BY <2>2, ReaderHistory
    <3>2. 0 \in 0 .. MaxFreq
      OBVIOUS
    <3> QED BY <3>1, <3>2
  <2>3. CASE k \in DOMAIN entries
    <3>1. credit'[k] = IF HitCounted(k) /\ credit[k] < MaxFreq
                       THEN credit[k] + 1 ELSE credit[k]
      BY <2>3, ReaderHistory
    <3>2. raced'[k] = (raced[k] \/ Overlap(k))
      BY <2>3, ReaderHistory
    <3>3. credit'[k] \in 0 .. MaxFreq
      BY <2>1, <3>1
    <3>4. raced'[k] \in BOOLEAN
      BY <3>2
    <3> QED BY <3>3, <3>4
  <2> QED BY <2>2, <2>3
<1>2. credit' \in [Keys -> 0 .. MaxFreq] /\ raced' \in [Keys -> BOOLEAN]
  <2>1. DOMAIN credit' = Keys /\ DOMAIN raced' = Keys
        /\ credit' = [k \in Keys |-> credit'[k]] /\ raced' = [k \in Keys |-> raced'[k]]
    BY DEF MCNext
  <2> QED BY <1>1, <2>1
<1>3. OnlyRacesLoseHits'
  BY DEF OnlyRacesLoseHits
<1>4. ASSUME NEW r \in Readers, NEW k \in Keys, hit'[r].pc = "store", hit'[r].key = k,
             ~ raced'[k], NEW q \in HitsOn(k)', hit'[q].pc = "store"
      PROVE  q = r
  <2>1. hit'[r] # NoHit
    BY <1>4 DEF NoHit
  <2>2. k \in DOMAIN entries
    BY <1>4, <2>1 DEF SharedInv
  <2>3. ~ Overlap(k)
    BY <1>4, <2>2, ReaderHistory
  <2>4. r \in HitsOn(k)'
    BY <1>4, <2>1 DEF HitsOn
  <2> QED BY <1>4, <2>3, <2>4 DEF Overlap
<1>5. ins' # NoInsert => ins'.entry.frequency = 0
  OBVIOUS
<1>6. \A r \in Readers : hit'[r].pc = "store" => hit'[r].key \in Keys
  BY DEF SharedInv, SharedTypeOK, Hits, NoHit
<1> QED BY <1>2, <1>3, <1>4, <1>5, <1>6 DEF HitsInv

\* A step that neither loads nor stores a frequency.
LEMMA UncountedHits ==
  ASSUME SharedInv, SharedInv', HitsInv, MCNext, ins = NoInsert, ins' = ins,
         DOMAIN entries' = DOMAIN entries,
         \A k \in DOMAIN entries : entries'[k].frequency = entries[k].frequency,
         NEW r \in Readers, \A q \in Readers \ {r} : hit'[q] = hit[q],
         hit'[r].pc = "counted" => hit[r].pc = "counted",
         hit'[r].pc = "store" =>
           hit[r].pc = "store" /\ hit'[r].key = hit[r].key /\ hit'[r].freq = hit[r].freq
  PROVE  HitsInv'
<1>1. DOMAIN entries \subseteq Keys
  BY MapsDef DEF SharedInv, IndInv, TypeOK
<1>2. ASSUME NEW k \in DOMAIN entries
      PROVE  /\ credit'[k] = credit[k] /\ (~ raced'[k] => ~ raced[k])
             /\ entries'[k].frequency <= credit'[k]
             /\ ~ raced'[k] => entries'[k].frequency = credit'[k]
  <2>1. ~ HitCounted(k)
    BY CountedByOne
  <2>2. credit'[k] = credit[k] /\ (~ raced'[k] => ~ raced[k])
    BY <1>1, <2>1, ReaderHistory
  <2> QED BY <2>2 DEF HitsInv, OnlyRacesLoseHits
<1>3. ASSUME NEW q \in Readers, hit'[q].pc = "store"
      PROVE  /\ hit'[q].freq <= credit'[hit'[q].key]
             /\ ~ raced'[hit'[q].key] => hit'[q].freq = entries'[hit'[q].key].frequency
  <2>1. hit[q].pc = "store" /\ hit'[q].key = hit[q].key /\ hit'[q].freq = hit[q].freq
    BY <1>3
  <2>2. hit[q].key \in DOMAIN entries
    BY <2>1 DEF SharedInv, NoHit
  <2>3. /\ hit[q].freq <= credit[hit[q].key]
        /\ ~ raced[hit[q].key] => hit[q].freq = entries[hit[q].key].frequency
    BY <2>1 DEF HitsInv
  <2> QED BY <1>2, <2>1, <2>2, <2>3
<1> QED BY <1>2, <1>3, ReaderHits

\* A load takes the frequency as it is; at the maximum no hit can be lost.
LEMMA LoadHits ==
  ASSUME SharedInv, SharedInv', HitsInv, MCNext, NEW r \in Readers, LoadFrequency(r)
  PROVE  HitsInv'
<1> DEFINE k == hit[r].key
           f == entries[k].frequency
<1>1. /\ hit[r].pc = "load" /\ UNCHANGED <<entries, ins>>
      /\ hit' = [hit EXCEPT ![r].freq = f,
                            ![r].pc = IF f < MaxFreq THEN "store" ELSE "counted"]
  BY DEF LoadFrequency, vars
<1>2. hit[r] # NoHit
  BY <1>1 DEF NoHit
<1>3. hit[r] \in Hits /\ ins = NoInsert /\ k \in DOMAIN entries
      /\ hit \in [Readers -> Hits \cup {NoHit}]
  BY <1>2, HitFields DEF SharedInv, SharedTypeOK
<1>4. /\ hit'[r].freq = f /\ hit'[r].key = k
      /\ hit'[r].pc = IF f < MaxFreq THEN "store" ELSE "counted"
      /\ \A q \in Readers \ {r} : hit'[q] = hit[q]
  BY <1>1, <1>3 DEF Hits
<1> HIDE DEF k, f
<1>5. /\ DOMAIN entries \subseteq Keys
      /\ \A j \in DOMAIN entries : entries[j].frequency \in 0 .. MaxFreq
  <2>1. entries \in EntryMaps
    BY DEF SharedInv, IndInv, TypeOK
  <2> QED BY <2>1, MapsDef, MapsEntry DEF Entry
<1>6. ASSUME NEW j \in DOMAIN entries
      PROVE  /\ credit'[j] = credit[j] /\ (~ raced'[j] => ~ raced[j])
             /\ entries'[j].frequency <= credit'[j]
             /\ ~ raced'[j] => entries'[j].frequency = credit'[j]
  <2>1. credit[j] \in 0 .. MaxFreq /\ entries[j].frequency <= credit[j]
        /\ (~ raced[j] => entries[j].frequency = credit[j])
    BY <1>5 DEF HitsInv, OnlyRacesLoseHits
  <2>2. HitCounted(j) => credit[j] = MaxFreq
    <3>1. ASSUME HitCounted(j) PROVE j = k /\ ~ (f < MaxFreq)
      BY <1>4, <3>1, CountedByOne DEF k
    <3> QED BY <1>5, <2>1, <3>1 DEF f
  <2>3. /\ credit'[j] = IF HitCounted(j) /\ credit[j] < MaxFreq
                        THEN credit[j] + 1 ELSE credit[j]
        /\ ~ raced'[j] => ~ raced[j]
    BY <1>1, <1>3, <1>5, ReaderHistory
  <2>4. credit'[j] = credit[j]
    BY <2>1, <2>2, <2>3
  <2> QED BY <1>1, <2>1, <2>3, <2>4
<1>7. ASSUME NEW q \in Readers, hit'[q].pc = "store"
      PROVE  /\ hit'[q].freq <= credit'[hit'[q].key]
             /\ ~ raced'[hit'[q].key] => hit'[q].freq = entries'[hit'[q].key].frequency
  <2>1. CASE q = r
    BY <1>1, <1>3, <1>4, <1>6, <2>1 DEF f
  <2>2. CASE q # r
    <3>1. hit'[q] = hit[q] /\ hit[q].pc = "store"
      BY <1>4, <1>7, <2>2
    <3>2. hit[q].key \in DOMAIN entries
      BY <3>1 DEF SharedInv, NoHit
    <3>3. /\ hit[q].freq <= credit[hit[q].key]
          /\ ~ raced[hit[q].key] => hit[q].freq = entries[hit[q].key].frequency
      BY <3>1 DEF HitsInv
    <3> QED BY <1>1, <1>6, <3>1, <3>2, <3>3
  <2> QED BY <2>1, <2>2
<1> QED BY <1>1, <1>3, <1>6, <1>7, ReaderHits

\* A store adds its hit to the frequency, if no other reader was at a hit on
\* the same entry since the load; otherwise that entry's hits raced.
LEMMA StoreHits ==
  ASSUME SharedInv, SharedInv', HitsInv, MCNext, NEW r \in Readers, StoreFrequency(r)
  PROVE  HitsInv'
<1> DEFINE k == hit[r].key
           f == hit[r].freq
<1>1. /\ hit[r].pc = "store" /\ UNCHANGED ins
      /\ entries' = [entries EXCEPT ![k].frequency = f + 1]
      /\ hit' = [hit EXCEPT ![r].pc = "counted"]
  BY DEF StoreFrequency
<1>2. hit[r] # NoHit
  BY <1>1 DEF NoHit
<1>3. /\ hit[r] \in Hits /\ ins = NoInsert /\ k \in DOMAIN entries
      /\ f \in 0 .. MaxFreq /\ f < MaxFreq
      /\ hit \in [Readers -> Hits \cup {NoHit}]
  BY <1>1, <1>2, HitFields DEF SharedInv, SharedTypeOK
<1>4. /\ hit'[r].pc = "counted"
      /\ \A q \in Readers \ {r} : hit'[q] = hit[q]
  BY <1>1, <1>3 DEF Hits
<1>5. /\ f <= credit[k]
      /\ ~ raced[k] => /\ f = entries[k].frequency
                       /\ \A q \in HitsOn(k) : hit[q].pc = "store" => q = r
  BY <1>1 DEF HitsInv
<1>6. /\ entries \in EntryMaps /\ DOMAIN entries \subseteq Keys
      /\ \A j \in DOMAIN entries : entries[j] \in Entry
  <2>1. entries \in EntryMaps
    BY DEF SharedInv, IndInv, TypeOK
  <2> QED BY <2>1, MapsDef, MapsEntry
<1>7. /\ DOMAIN entries' = DOMAIN entries
      /\ entries'[k].frequency = f + 1
      /\ \A j \in DOMAIN entries \ {k} : entries'[j] = entries[j]
  BY <1>1, <1>3, <1>6 DEF Entry
<1>8. HitCounted(k)
  BY <1>1, <1>2, <1>4 DEF HitCounted, HitsOn
<1> HIDE DEF k, f
<1>9. ASSUME NEW j \in DOMAIN entries
      PROVE  /\ credit[j] <= credit'[j] /\ (~ raced'[j] => ~ raced[j])
             /\ credit[j] \in Nat /\ credit'[j] \in Nat
             /\ entries'[j].frequency <= credit'[j]
             /\ ~ raced'[j] => entries'[j].frequency = credit'[j]
  <2>1. credit[j] \in 0 .. MaxFreq /\ entries[j].frequency <= credit[j]
        /\ (~ raced[j] => entries[j].frequency = credit[j])
    BY <1>6 DEF HitsInv, OnlyRacesLoseHits
  <2>2. /\ credit'[j] = IF HitCounted(j) /\ credit[j] < MaxFreq
                        THEN credit[j] + 1 ELSE credit[j]
        /\ ~ raced'[j] => ~ raced[j]
    BY <1>1, <1>3, <1>6, <1>7, <2>1, ReaderHistory
  <2>3. CASE j = k
    BY <1>3, <1>5, <1>7, <1>8, <2>1, <2>2, <2>3
  <2>4. CASE j # k
    <3>1. ~ HitCounted(j)
      BY <1>4, <2>4, CountedByOne DEF k
    <3> QED BY <1>7, <2>1, <2>2, <2>4, <3>1
  <2> QED BY <2>3, <2>4
<1>10. ASSUME NEW q \in Readers, hit'[q].pc = "store"
       PROVE  /\ hit'[q].freq <= credit'[hit'[q].key]
              /\ ~ raced'[hit'[q].key] => hit'[q].freq = entries'[hit'[q].key].frequency
  <2>1. q # r /\ hit'[q] = hit[q] /\ hit[q].pc = "store" /\ hit[q] # NoHit
    BY <1>4, <1>10 DEF NoHit
  <2>2. hit[q].key \in DOMAIN entries /\ hit[q].freq \in 0 .. MaxFreq
    BY <2>1, HitFields
  <2>3. /\ hit[q].freq <= credit[hit[q].key]
        /\ ~ raced[hit[q].key] => hit[q].freq = entries[hit[q].key].frequency
    BY <2>1 DEF HitsInv
  <2>4. hit[q].freq <= credit'[hit[q].key]
    BY <1>9, <2>2, <2>3
  <2>5. ASSUME ~ raced'[hit[q].key] PROVE hit[q].key # k
    <3>1. ~ raced[hit[q].key]
      BY <1>9, <2>2, <2>5
    <3>2. q \in HitsOn(hit[q].key)
      BY <2>1 DEF HitsOn
    <3> QED BY <1>5, <2>1, <3>1, <3>2
  <2>6. ASSUME ~ raced'[hit[q].key] PROVE hit[q].freq = entries'[hit[q].key].frequency
    BY <1>7, <1>9, <2>2, <2>3, <2>5, <2>6
  <2> QED BY <2>1, <2>4, <2>6
<1> QED BY <1>1, <1>3, <1>7, <1>9, <1>10, ReaderHits

\* HitsInv, with SharedInv, is inductive.
LEMMA HitsStep ==
  ASSUME SharedInv, HitsInv, [MCNext]_<<sharedVars, credit, raced>>
  PROVE  SharedInv' /\ HitsInv'
<1>1. SharedInv'
  BY SharedStepInv DEF MCNext
<1>2. CASE UNCHANGED <<sharedVars, credit, raced>>
  BY <1>1, <1>2 DEF HitsInv, OnlyRacesLoseHits, HitsOn, sharedVars, vars
<1>3. CASE MCNext /\ Write
  BY <1>1, <1>3, WriteHits
<1>4. ASSUME MCNext, NEW r \in Readers, Read(r) PROVE HitsInv'
  <2>1. entries \in EntryMaps /\ \A j \in DOMAIN entries : entries[j] \in Entry
    <3>1. entries \in EntryMaps
      BY DEF SharedInv, IndInv, TypeOK
    <3> QED BY <3>1, MapsEntry
  <2>2. hit \in [Readers -> Hits \cup {NoHit}]
    BY DEF SharedInv, SharedTypeOK
  <2>3. ASSUME NEW k \in Keys, Lookup(r, k) PROVE HitsInv'
    <3>1. /\ ins = NoInsert /\ UNCHANGED <<entries, ins>>
          /\ hit'[r].pc = "load" /\ \A q \in Readers \ {r} : hit'[q] = hit[q]
      BY <2>2, <2>3 DEF Lookup, Unwritten, vars
    <3> QED BY <1>1, <1>4, <3>1, UncountedHits
  <2>4. CASE Mark(r)
    <3>1. hit[r] \in Hits /\ ins = NoInsert /\ hit[r].key \in DOMAIN entries
      BY <2>4, HitFields DEF Mark
    <3>2. /\ hit'[r].pc = hit[r].pc /\ hit'[r].key = hit[r].key /\ hit'[r].freq = hit[r].freq
          /\ \A q \in Readers \ {r} : hit'[q] = hit[q]
      BY <2>2, <2>4, <3>1 DEF Mark, Hits
    <3>3. /\ ins' = ins /\ DOMAIN entries' = DOMAIN entries
          /\ \A j \in DOMAIN entries : entries'[j].frequency = entries[j].frequency
      BY <2>1, <2>4, <3>1 DEF Mark, Entry
    <3> QED BY <1>1, <1>4, <3>1, <3>2, <3>3, UncountedHits
  <2>5. CASE LoadFrequency(r)
    BY <1>1, <1>4, <2>5, LoadHits
  <2>6. CASE StoreFrequency(r)
    BY <1>1, <1>4, <2>6, StoreHits
  <2>7. CASE Release(r)
    <3>1. hit[r] # NoHit /\ ins = NoInsert
      BY <2>7, HitFields DEF Release, NoHit
    <3>2. /\ UNCHANGED <<entries, ins>>
          /\ hit'[r].pc = "none" /\ \A q \in Readers \ {r} : hit'[q] = hit[q]
      BY <2>2, <2>7 DEF Release, vars, NoHit
    <3> QED BY <1>1, <1>4, <3>1, <3>2, UncountedHits
  <2> QED BY <1>4, <2>3, <2>4, <2>5, <2>6, <2>7 DEF Read
<1>5. MCNext => Write \/ \E r \in Readers : Read(r)
  BY DEF MCNext, SharedNext
<1> QED BY <1>1, <1>2, <1>3, <1>4, <1>5

\* The hits that a shard loses are those whose load and store overlapped those
\* of another hit on the same entry, and no frequency ever shows a hit that
\* did not happen, for any number of readers.
THEOREM LostHitsRaced == MCSpec => []OnlyRacesLoseHits
<1>1. MCInit => SharedInv /\ HitsInv
  <2> SUFFICES ASSUME MCInit PROVE SharedInv /\ HitsInv
    OBVIOUS
  <2>1. SharedInv
    BY SharedInitInv DEF MCInit
  <2>2. /\ DOMAIN entries = {} /\ ins = NoInsert /\ \A r \in Readers : hit[r].pc # "store"
        /\ credit = [k \in Keys |-> 0] /\ raced = [k \in Keys |-> FALSE]
    BY DEF MCInit, SharedInit, Init, NoHit
  <2>3. credit \in [Keys -> 0 .. MaxFreq] /\ raced \in [Keys -> BOOLEAN]
    <3>1. 0 \in 0 .. MaxFreq
      OBVIOUS
    <3> QED BY <2>2, <3>1
  <2> QED BY <2>1, <2>2, <2>3 DEF HitsInv, OnlyRacesLoseHits
<1>2. SharedInv /\ HitsInv /\ [MCNext]_<<sharedVars, credit, raced>>
        => (SharedInv /\ HitsInv)'
  BY HitsStep
<1>3. HitsInv => OnlyRacesLoseHits
  BY DEF HitsInv
<1> QED BY <1>1, <1>2, <1>3, PTL DEF MCSpec
=============================================================================
