--------------------------- MODULE MCSharedShard ----------------------------
(* SharedShard with history variables: the frequency each entry would have  *)
(* if no hit were lost, and whether hits on it overlapped.                  *)
EXTENDS SharedShard, TLC

CONSTANT UsedPolicies   \* bound: the policies that inserts use

VARIABLES credit, raced

Stored(k) == ins # NoInsert /\ ins' = NoInsert /\ k = ins.key
Anew(k) == k \notin DOMAIN entries' \/ Stored(k)
HitCounted(k) ==
  \E r \in HitsOn(k) : hit[r].pc # "counted" /\ hit'[r].pc = "counted"
Decayed(k) ==
  ins.pc = "sweep" /\ entries'[k].frequency < entries[k].frequency
Overlap(k) ==
  \E r, q \in HitsOn(k)' : r # q /\ hit'[r].pc = "store" /\ hit'[q].pc = "store"

MCInit ==
  /\ SharedInit
  /\ credit = [k \in Keys |-> 0]
  /\ raced = [k \in Keys |-> FALSE]

MCNext ==
  /\ SharedNext
  /\ ins' # NoInsert => ins'.entry.policy \in UsedPolicies
  /\ credit' = [k \in Keys |->
       CASE Anew(k) -> 0
         [] ~ Anew(k) /\ HitCounted(k) /\ credit[k] < MaxFreq -> credit[k] + 1
         [] ~ Anew(k) /\ Decayed(k) -> credit[k] - 1
         [] OTHER -> credit[k]]
  /\ raced' = [k \in Keys |-> ~ Anew(k) /\ (raced[k] \/ Overlap(k))]

MCSpec == MCInit /\ [][MCNext]_<<sharedVars, credit, raced>>

MCSymmetry == Permutations(Readers) \cup Permutations(Keys)
-----------------------------------------------------------------------------
\* A race between readers loses hits and never invents one, and only hits
\* whose load and store overlap another's are lost: the small races that the
\* comment accepts (shard.rs:286-290).
OnlyRacesLoseHits ==
  \A k \in DOMAIN entries :
    /\ entries[k].frequency <= credit[k]
    /\ ~ raced[k] => entries[k].frequency = credit[k]
=============================================================================
