---------------------------- MODULE SharedShard -----------------------------
(* A shard whose readers share its lock.  get_ref and get_ref_by only take  *)
(* &self: they mark and count a hit with Relaxed loads and stores, and hits  *)
(* on one entry interleave.  The methods that take &mut self are those of   *)
(* Shard; they run when no reader holds the lock.                           *)
EXTENDS Shard

CONSTANT Readers   \* the threads that read

VARIABLE hit       \* per reader, the hit it is at, or NoHit

sharedVars == <<vars, hit>>

\* The locals of get_ref: the entry found, whether its clock bit is stored
\* yet, and the frequency loaded.  The read lock is held meanwhile, and after
\* that ("counted") for as long as the Guard lives.
NoHit == [pc |-> "none"]
Hits == [pc : {"load", "store", "counted"}, key : Keys,
         marked : BOOLEAN, freq : 0 .. MaxFreq]

SharedInit == Init /\ hit = [r \in Readers |-> NoHit]

\* shard_lock.write() waits for every reader, shard_lock.read() for a writer.
Unread == \A r \in Readers : hit[r] = NoHit
Unwritten == ins = NoInsert

\* The entry is found.
Lookup(r, k) ==
  /\ Unwritten
  /\ hit[r] = NoHit
  /\ k \in DOMAIN entries
  /\ hit' = [hit EXCEPT ![r] =
               [pc |-> "load", key |-> k, marked |-> FALSE, freq |-> 0]]
  /\ UNCHANGED vars

\* The store to the clock bit.  It is Relaxed, like the accesses to the
\* frequency, so it may become visible before, between or after them.
Mark(r) ==
  /\ hit[r] # NoHit
  /\ ~ hit[r].marked
  /\ entries' = [entries EXCEPT ![hit[r].key].clock_bit = TRUE]
  /\ hit' = [hit EXCEPT ![r].marked = TRUE]
  /\ UNCHANGED <<buckets, size_current, ins>>

\* Mutants of LoadFrequency: the counter saturates one step late; a hit is not counted
\* if the entry is marked already.
LoadFrequencyLate(r) ==
  /\ hit[r].pc = "load"
  /\ LET freq == entries[hit[r].key].frequency
     IN  hit' = [hit EXCEPT ![r].freq = freq,
                            ![r].pc = IF freq <= MaxFreq THEN "store" ELSE "counted"]
  /\ UNCHANGED vars
LoadFrequencyUnmarked(r) ==
  /\ hit[r].pc = "load"
  /\ LET e == entries[hit[r].key]
     IN  hit' = [hit EXCEPT ![r].freq = e.frequency,
                            ![r].pc = IF e.frequency < MaxFreq /\ ~ e.clock_bit
                                      THEN "store" ELSE "counted"]
  /\ UNCHANGED vars

\* The load of the frequency: at its maximum, nothing is stored.
LoadFrequency(r) ==
  /\ hit[r].pc = "load"
  /\ LET freq == entries[hit[r].key].frequency
     IN  hit' = [hit EXCEPT ![r].freq = freq,
                            ![r].pc = IF freq < MaxFreq THEN "store" ELSE "counted"]
  /\ UNCHANGED vars

\* Mutant of StoreFrequency: a fetch_add, which adds to what others stored since, and
\* wraps.
StoreFrequencyAdds(r) ==
  /\ hit[r].pc = "store"
  /\ entries' = [entries EXCEPT ![hit[r].key].frequency = (@ + 1) % (MaxFreq + 1)]
  /\ hit' = [hit EXCEPT ![r].pc = "counted"]
  /\ UNCHANGED <<buckets, size_current, ins>>

\* The store of one more than the frequency loaded.
StoreFrequency(r) ==
  /\ hit[r].pc = "store"
  /\ entries' = [entries EXCEPT ![hit[r].key].frequency = hit[r].freq + 1]
  /\ hit' = [hit EXCEPT ![r].pc = "counted"]
  /\ UNCHANGED <<buckets, size_current, ins>>

\* The read lock is released, by get_clone or with the Guard.
Release(r) ==
  /\ hit[r].pc = "counted"
  /\ hit[r].marked
  /\ hit' = [hit EXCEPT ![r] = NoHit]
  /\ UNCHANGED vars

Read(r) ==
  \/ \E k \in Keys : Lookup(r, k)
  \/ Mark(r) \/ LoadFrequency(r) \/ StoreFrequency(r) \/ Release(r)

\* Mutant of Write: a Guard does not keep the read lock of the get it is from.
WriteUnderGuard ==
  /\ \A r \in Readers : hit[r].pc \in {"none", "counted"}
  /\ \/ \E k \in Keys, size \in Sizes, policy \in Policies : BeginInsert(k, size, policy)
     \/ InsertStep
     \/ \E k \in Keys : Remove(k)
     \/ Drain
  /\ UNCHANGED hit

\* A method that takes &mut self, from the beginning of its write lock on.
Write ==
  /\ Unread
  /\ \/ \E k \in Keys, size \in Sizes, policy \in Policies : BeginInsert(k, size, policy)
     \/ InsertStep
     \/ \E k \in Keys : Remove(k)
     \/ Drain
  /\ UNCHANGED hit

SharedNext == Write \/ \E r \in Readers : Read(r)

SharedSpec == SharedInit /\ [][SharedNext]_sharedVars
-----------------------------------------------------------------------------
HitsOn(k) == {r \in Readers : hit[r] # NoHit /\ hit[r].key = k}

\* Every variable has its type: whatever the others stored in between, no
\* reader stores a frequency above the maximum (shard.rs:288-290).
SharedTypeOK == TypeOK /\ hit \in [Readers -> Hits \cup {NoHit}]

\* But for a hit under way, an entry whose clock bit is set has a positive
\* frequency: a race between readers never leaves an entry that was just read
\* one step of the clock away from eviction, and the sweep takes the bit away
\* before it touches the frequency (shard.rs:283-290, 430-455).
MarkedIsCounted ==
  \A k \in DOMAIN entries :
    entries[k].clock_bit /\ entries[k].frequency = 0 =>
      \E r \in HitsOn(k) : hit[r].marked /\ hit[r].pc # "counted"

\* What makes MarkedIsCounted inductive: while a reader is at a hit no writer
\* is at work and the entry stays where it is (which is also why the reference
\* that get_ref returns stays valid) with its bit once that is stored, what a
\* reader is about to store is within the maximum, an entry just counted has a
\* positive frequency, and the entry that an insert stores starts without a bit.
SharedInv ==
  /\ IndInv /\ SharedTypeOK /\ MarkedIsCounted
  /\ ins # NoInsert => ~ ins.entry.clock_bit
  /\ \A r \in Readers : hit[r] # NoHit =>
       /\ Unwritten
       /\ hit[r].key \in DOMAIN entries
       /\ hit[r].marked => entries[hit[r].key].clock_bit
       /\ hit[r].pc = "store" => hit[r].freq < MaxFreq
       /\ hit[r].pc = "counted" => entries[hit[r].key].frequency > 0

\* To the writers, a hit takes effect when it is counted: the bit shows only
\* with a positive frequency, and shows even if it is not yet stored once the
\* frequency is.
Settled ==
  [k \in DOMAIN entries |->
     [entries[k] EXCEPT !.clock_bit =
        /\ entries[k].frequency > 0
        /\ @ \/ \E r \in HitsOn(k) : hit[r].pc = "counted"]]

Serial == INSTANCE Shard WITH entries <- Settled

\* The shard with its readers implements Shard, where one method runs at a
\* time and a hit is one step: whatever holds of Shard holds here
\* (shard.rs:27-28, 161, 283-290).
ReadersSerialize == Serial!Init /\ [][Serial!Next]_(Serial!vars)
=============================================================================
