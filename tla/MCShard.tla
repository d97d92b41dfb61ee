------------------------------ MODULE MCShard -------------------------------
(* Shard with a bound on the policies used and a history variable: the      *)
(* entries as they were when the sweep under way began.                     *)
EXTENDS Shard, TLC

CONSTANT SweptPolicies   \* bound: the policies that inserts use

VARIABLE before   \* entries when the sweep began, NoEntries outside a sweep

NoEntries == << >>

SweepInit == Init /\ before = NoEntries
SweepNext ==
  /\ Next
  /\ ins' # NoInsert => ins'.entry.policy \in SweptPolicies
  /\ before' = IF ins'.pc # "sweep" THEN NoEntries
               ELSE IF ins.pc = "sweep" THEN before ELSE entries
SweepSpec == SweepInit /\ [][SweepNext]_<<vars, before>> /\ WF_<<vars, before>>(InsertStep /\ SweepNext)

KeySymmetry == Permutations(Keys)

\* Whether a sweep over n keys that began at index start and has come to reach,
\* counted on past n where the hand wraps, has passed over index i.
Passed(i, start, reach, n) == IF i < start THEN i + n < reach ELSE i < reach

\* How far a sweep of n keys has come: it began at the saved hand and passed
\* over n - left keys, each of which was not cold and has decayed, once; the
\* others are as they were, in this bucket and elsewhere (shard.rs:423-461).
SweepInv ==
  ins.pc = "sweep" =>
    LET n == Len(Bucket.list)
        start == Bucket.hand
        reach == start + (n - ins.left)
    IN  /\ ins.left <= n
        /\ ins.hand = IF reach < n THEN reach ELSE reach - n
        /\ before \in [DOMAIN entries -> Entry]
        /\ \A i \in 0 .. n - 1 :
             LET k == KeyAt(Bucket, i)
             IN  IF Passed(i, start, reach, n)
                 THEN ~ Cold(before[k]) /\ entries[k] = Decay(before[k])
                 ELSE entries[k] = before[k]
        /\ \A k \in DOMAIN entries : ~ Holds(Bucket, k) => entries[k] = before[k]

\* An entry that a sweep evicts was cold when the sweep reached its bucket, or
\* no entry of the bucket was: being read, or a remaining frequency, protects
\* an entry for one whole sweep as long as a cold one can go instead
\* (shard.rs:12-17, 423-461).
ColdestFirst ==
  [][\A k \in DOMAIN entries \ DOMAIN entries' :
       ins.pc = "sweep" =>
         \/ Cold(before[k])
         \/ \A j \in DOMAIN Counted :
              before[j].policy = before[k].policy => ~ Cold(before[j])]_<<vars, before>>

\* How often the clock must pass over an entry before it is cold.
Warmth(e) == e.frequency + (IF e.clock_bit THEN 1 ELSE 0)

\* While a bucket is swept, no entry decays twice and no entry of another
\* bucket decays, wherever the hand started and wrapped (shard.rs:436-439,
\* 456-459).
DecaysOnce ==
  ins.pc = "sweep" =>
    \A k \in DOMAIN entries :
      Warmth(entries[k]) >= Warmth(before[k])
        - (IF before[k].policy = ins.policy_idx THEN 1 ELSE 0)
=============================================================================
