------------------------------ MODULE MCCache -------------------------------
(* Cache with a bound on the calls, and with history variables: how often   *)
(* each key was stored anew minus how often a hook reported it, the index    *)
(* of stored keys that a client keeps with the hooks, how often a panic left *)
(* a hook uncalled, and whether a clear took entries away.                   *)
EXTENDS Cache, TLC

CONSTANT MaxCalls   \* bound: the calls made in a behaviour

VARIABLES calls, balance, index, lost, cleared

mcvars == <<vars, calls, balance, index, lost, cleared>>

MCInit ==
  /\ Init
  /\ calls = 0
  /\ balance = [k \in Keys |-> 0]
  /\ index = {}
  /\ lost = [k \in Keys |-> 0]
  /\ cleared = FALSE

Stored == UNION {DOMAIN store[s] : s \in Shards}

MCCall ==
  /\ calls < MaxCalls
  /\ \E t \in Threads, call \in Calls : Call(t, call)
  /\ calls' = calls + 1
  /\ UNCHANGED <<balance, index, lost, cleared>>

\* An insert adds its key to the index.
MCInsert(t) ==
  /\ Insert(t)
  /\ LET k == Head(todo[t]).key
     IN  /\ balance' = [balance EXCEPT ![k] = IF k \in Stored THEN @ ELSE @ + 1]
         /\ index' = index \cup {k}
  /\ UNCHANGED <<calls, lost, cleared>>

MCDrain(t) ==
  /\ Drain(t)
  /\ cleared' = TRUE
  /\ UNCHANGED <<calls, balance, index, lost>>

MCOther(t) ==
  /\ Wait(t) \/ Remove(t) \/ Get(t) \/ Continue(t) \/ DropGuard(t)
  /\ UNCHANGED <<calls, balance, index, lost, cleared>>

\* A hook removes its key from the index.
MCHookReturn(t) ==
  /\ HookReturn(t)
  /\ LET k == Head(todo[t]).key
     IN  /\ balance' = [balance EXCEPT ![k] = @ - 1]
         /\ index' = index \ {k}
  /\ UNCHANGED <<calls, lost, cleared>>

\* The hooks for key k among these effects: running, and still to be called.
Running(effects, k) ==
  Cardinality({i \in DOMAIN effects : effects[i].do = "hook" /\ effects[i].key = k})
ToCall(effects, k) ==
  Cardinality({i \in DOMAIN effects : effects[i].do = "hooks" /\ k \in effects[i].keys})

\* A hook that panics, and the hooks it unwinds, have reported their keys but
\* not removed them from the index; those still to be called never are.
MCHookPanic(t) ==
  /\ HookPanic(t)
  /\ balance' = [k \in Keys |->
       balance[k] - (Running(todo[t], k) - Running(todo'[t], k))]
  /\ lost' = [k \in Keys |-> lost[k] + (ToCall(todo[t], k) - ToCall(todo'[t], k))]
  /\ UNCHANGED <<calls, index, cleared>>

MCNext ==
  \/ MCCall
  \/ \E t \in Threads :
       MCInsert(t) \/ MCDrain(t) \/ MCOther(t) \/ MCHookReturn(t) \/ MCHookPanic(t)

MCSpec == MCInit /\ [][MCNext]_mcvars

ThreadSymmetry == Permutations(Threads)
-----------------------------------------------------------------------------
\* Whether an effect is a hook for key k, running or still to be called (1 or 0);
\* how often an effect reports k, a clear by the hooks it has collected; how often
\* a thread does, and all of them.
HookOf(effect, k) ==
  IF \/ effect.do = "hook" /\ effect.key = k
     \/ effect.do = "hooks" /\ k \in effect.keys
  THEN 1 ELSE 0
Reports(effect, k) ==
  IF effect.do = "clear"
  THEN Total([j \in DOMAIN effect.entries |-> HookOf(effect.entries[j], k)])
  ELSE HookOf(effect, k)
ReportsOf(effects, k) == Total([i \in DOMAIN effects |-> Reports(effects[i], k)])
HooksFor(k) == Total([t \in Threads |-> ReportsOf(todo[t], k)])

\* Every departure of a key (evicted, removed or cleared, but not replaced) is
\* reported by exactly one hook, or skipped because a hook before it in the
\* same call panicked: a client that counts, per key, the inserts that returned
\* None and the hooks ends with 1 for the stored keys and 0 for the others if
\* no hook panics (cache.rs:225-226, 280-283, 506, 612-614).
HooksOwed ==
  \A k \in Keys :
    balance[k] = (IF k \in Stored THEN 1 ELSE 0) + HooksFor(k) + lost[k]

\* Until a clear takes entries away, the metrics explain the entries stored:
\* those inserted (not those updated), less those evicted or removed
\* (cache.rs:260, 269, 279, 500, metrics.rs:27-35).
MetricsExplainEntries ==
  ~ cleared /\ MetricsFeature =>
    LET Of(c) == counter[c] + Pending(c)
    IN  (Of("inserts") - Of("evictions") - Of("removals")) % Width
          = StoredEntries % Width

\* size() is the total size in bytes, so it never reads as a huge number: the
\* comment on size and the last assertion of the clear test (cache.rs:549,
\* integration_tests.rs:769-771).
SizeNeverWraps == counter["current_size"] < Width \div 2

\* An index kept with the hooks has every stored key, at least once no call is
\* under way: what the hooks are documented to be useful for
\* (lifecycle.rs:3-5).
IndexComplete == Quiet => Stored \subseteq index
=============================================================================
