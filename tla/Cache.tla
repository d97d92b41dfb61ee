------------------------------- MODULE Cache --------------------------------
(* struct Cache: the shards behind their locks, the global counters that     *)
(* the methods update outside or inside those locks, and the lifecycle      *)
(* hooks.  Threads interleave.  A shard is what EvictingStore promises (and  *)
(* Shard implements): under its lock, one of its methods is one step.       *)
(*                                                                          *)
(* What a thread still has to do is a sequence of effects, todo[t], in the  *)
(* order of the code: acquiring a lock and calling the shard, one atomic    *)
(* counter update each, releasing a lock, running a hook.  User code, that  *)
(* is a hook or a client with a Guard, may call the cache again, and then   *)
(* the effects of that call come before the rest.  A hook may also panic.   *)
EXTENDS Accounting, Sequences

CONSTANTS
  Threads,
  NoThread,        \* the writer of a lock nobody writes under
  Keys,            \* each key stands for its hash
  Sizes, Policies, \* the sizes and policies values are inserted with
  ShardCount,      \* a power of two
  MaxSizeBytes,    \* max_size_bytes
  Width,           \* the counters are unsigned and wrap at this value (2^64)
  MetricsFeature,  \* the cargo feature "metrics"
  NestedGuards,    \* whether clients call the cache while they hold a Guard
  MaxNesting       \* bound: how deep in user code the cache may still be called

ASSUME ThreadsAssumption == IsFiniteSet(Threads) /\ NoThread \notin Threads
ASSUME KeysAssumption == Keys \subseteq Nat
ASSUME ParametersAssumption ==
  /\ Sizes \subseteq Nat /\ Policies \subseteq 0 .. 2
  /\ ShardCount \in Nat \ {0} /\ MaxSizeBytes \in Nat /\ Width \in Nat \ {0}
  /\ {MetricsFeature, NestedGuards} \subseteq BOOLEAN /\ MaxNesting \in Nat

VARIABLES
  store,    \* per shard, the stored entries [key |-> [size, policy]]
  lock,     \* per shard, its RwLock: who writes or waits to, who reads
  counter,  \* current_size, entry_count and the six metrics
  todo      \* per thread, the effects that remain of its calls

vars == <<store, lock, counter, todo>>

Shards == 0 .. ShardCount - 1
\* get_shard: hash & (shard_count - 1), and shard_count is a power of two.
ShardOf(k) == k % ShardCount
Capacity == MaxSizeBytes \div ShardCount

Metrics == {"hits", "misses", "inserts", "updates", "evictions", "removals"}
Counters == {"current_size", "entry_count"} \cup Metrics

Contract(s) == INSTANCE EvictingStore WITH store <- store[s]

Init ==
  /\ store = [s \in Shards |-> << >>]
  /\ lock = [s \in Shards |-> [writer |-> NoThread,
                              readers |-> [t \in Threads |-> 0]]]
  /\ counter = [c \in Counters |-> 0]
  /\ todo = [t \in Threads |-> << >>]
-----------------------------------------------------------------------------
\* Effects.  One atomic fetch_add, or fetch_sub if n < 0; the same for a
\* counter that only exists with the feature; metrics reset by clear.
Add(c, n) == [do |-> "add", counter |-> c, by |-> n]
Count(c, n) == IF MetricsFeature THEN <<Add(c, n)>> ELSE << >>
Reset(c) == [do |-> "reset", counter |-> c]
ResetAll ==
  IF MetricsFeature
  THEN <<Reset("hits"), Reset("misses"), Reset("inserts"),
         Reset("updates"), Reset("evictions"), Reset("removals")>>
  ELSE << >>

\* Dropping the RwLock guard of shard s; a Guard that get returned, which the
\* client drops; hooks to call for the keys S, in any order; a running hook.
Unlock(s) == [do |-> "unlock", shard |-> s]
Guard(s) == [do |-> "guard", shard |-> s]
Hooks(S) == IF S = {} THEN << >> ELSE <<[do |-> "hooks", keys |-> S]>>
Hook(k) == [do |-> "hook", key |-> k]

\* Which of the effects release a lock on shard s.
Owing(effects, s) == {i \in DOMAIN effects : effects[i] \in {Unlock(s), Guard(s)}}

\* Thread t is about to do an effect of this kind; it replaces its first
\* effect by others.
At(t, kind) == todo[t] # << >> /\ Head(todo[t]).do = kind
Then(t, effects) == todo' = [todo EXCEPT ![t] = effects \o Tail(@)]

\* parking_lot's RwLock: a writer keeps everyone else out as soon as it waits,
\* also the thread that reads already, and goes on once the readers are gone.
Free(s) == lock[s].writer = NoThread
Unread(s) == \A t \in Threads : lock[s].readers[t] = 0
-----------------------------------------------------------------------------
\* The client, or a hook, calls a method.  A client may hold Guards meanwhile,
\* which it drops in the reverse order.
Calls ==
  [do : {"insert"}, key : Keys, size : Sizes, policy : Policies, waits : {FALSE}]
    \cup [do : {"remove"}, key : Keys, waits : {FALSE}]
    \cup [do : {"get"}, key : Keys, keep : BOOLEAN]
    \cup [do : {"clear"}, next : {0}, entries : {<< >>}, waits : {FALSE}]

UserCode(t) == {i \in DOMAIN todo[t] : todo[t][i].do \in {"hook", "guard"}}

Call(t, call) ==
  /\ todo[t] = << >> \/ At(t, "hook") \/ (NestedGuards /\ At(t, "guard"))
  /\ Cardinality(UserCode(t)) <= MaxNesting
  /\ todo' = [todo EXCEPT ![t] = <<call>> \o @]
  /\ UNCHANGED <<store, lock, counter>>

\* write() of the shard that the call at the head is about, in two steps: the
\* thread is the next writer, and then (Granted) it writes.
Target(t) == IF At(t, "clear") THEN Head(todo[t]).next ELSE ShardOf(Head(todo[t]).key)
Granted(t) == Head(todo[t]).waits /\ Unread(Target(t))

Wait(t) ==
  /\ At(t, "insert") \/ At(t, "remove") \/ At(t, "clear")
  /\ ~ Head(todo[t]).waits
  /\ Target(t) < ShardCount
  /\ Free(Target(t))
  /\ lock' = [lock EXCEPT ![Target(t)].writer = t]
  /\ todo' = [todo EXCEPT ![t][1].waits = TRUE]
  /\ UNCHANGED <<store, counter>>

\* Mutants of InsertEffects: a replaced value is not taken off; the hooks are
\* called before the counters are updated; an update counts as an insert.
InsertEffectsNoDiff(old, size, victims) ==
  LET n == Cardinality(DOMAIN victims)
  IN  (IF old # << >>
       THEN <<Add("current_size", size)>> \o Count("updates", 1)
       ELSE <<Add("current_size", size), Add("entry_count", 1)>> \o Count("inserts", 1))
      \o (IF n = 0 THEN << >>
          ELSE <<Add("entry_count", -n), Add("current_size", -TotalSize(victims))>>
               \o Count("evictions", n) \o Hooks(DOMAIN victims))
InsertEffectsHooksFirst(old, size, victims) ==
  LET n == Cardinality(DOMAIN victims)
  IN  Hooks(DOMAIN victims)
      \o (IF old # << >>
          THEN <<Add("current_size", size - old[1].size)>> \o Count("updates", 1)
          ELSE <<Add("current_size", size), Add("entry_count", 1)>> \o Count("inserts", 1))
      \o (IF n = 0 THEN << >>
          ELSE <<Add("entry_count", -n), Add("current_size", -TotalSize(victims))>>
               \o Count("evictions", n))
InsertEffectsAllInserts(old, size, victims) ==
  LET n == Cardinality(DOMAIN victims)
  IN  (IF old # << >>
       THEN <<Add("current_size", size - old[1].size)>>
       ELSE <<Add("current_size", size), Add("entry_count", 1)>>)
      \o Count("inserts", 1)
      \o (IF n = 0 THEN << >>
          ELSE <<Add("entry_count", -n), Add("current_size", -TotalSize(victims))>>
               \o Count("evictions", n) \o Hooks(DOMAIN victims))

\* What insert does once it has released the lock: old is the sequence of the
\* entry replaced, if any; victims maps the evicted keys to their entries.
InsertEffects(old, size, victims) ==
  LET n == Cardinality(DOMAIN victims)
  IN  (IF old # << >>
       THEN <<Add("current_size", size - old[1].size)>> \o Count("updates", 1)
       ELSE <<Add("current_size", size), Add("entry_count", 1)>> \o Count("inserts", 1))
      \o (IF n = 0 THEN << >>
          ELSE <<Add("entry_count", -n), Add("current_size", -TotalSize(victims))>>
               \o Count("evictions", n) \o Hooks(DOMAIN victims))

\* insert: under the write lock the shard inserts, and evicts as it promises.
Insert(t) ==
  /\ At(t, "insert")
  /\ LET call == Head(todo[t])
         k == call.key
         s == ShardOf(k)
         others == Without(store[s], {k})
         old == IF k \in DOMAIN store[s] THEN <<store[s][k]>> ELSE << >>
     IN  /\ Granted(t)
         /\ lock' = [lock EXCEPT ![s].writer = NoThread]
         /\ \E V \in Contract(s)!Victims(others, call.size) :
              /\ store' = [store EXCEPT ![s] =
                   With(Without(others, V), k,
                        [size |-> call.size, policy |-> call.policy])]
              /\ Then(t, InsertEffects(old, call.size, Restrict(others, V)))
  /\ UNCHANGED counter

\* Mutant of RemoveEffects: the hook runs before the lock is released.
RemoveEffectsLocked(k, size) ==
  <<Add("current_size", -size), Add("entry_count", -1)>>
    \o Count("removals", 1) \o Hooks({k}) \o <<Unlock(ShardOf(k))>>

RemoveEffects(k, size) ==
  <<Add("current_size", -size), Add("entry_count", -1)>>
    \o Count("removals", 1) \o <<Unlock(ShardOf(k))>> \o Hooks({k})

\* remove: the counters are updated under the write lock.
Remove(t) ==
  /\ At(t, "remove")
  /\ LET k == Head(todo[t]).key
         s == ShardOf(k)
     IN  /\ Granted(t)
         /\ IF k \in DOMAIN store[s]
            THEN /\ store' = [store EXCEPT ![s] = Without(@, {k})]
                 /\ Then(t, RemoveEffects(k, store[s][k].size))
            ELSE /\ Then(t, <<Unlock(s)>>)
                 /\ UNCHANGED store
  /\ UNCHANGED <<lock, counter>>

\* Mutant of Get: the lock is released when get returns its Guard.
GetUnlocked(t) ==
  /\ At(t, "get")
  /\ LET k == Head(todo[t]).key
         s == ShardOf(k)
         hit == k \in DOMAIN store[s]
         kept == hit /\ Head(todo[t]).keep
     IN  /\ Free(s)
         /\ lock' = [lock EXCEPT ![s].readers[t] = IF kept THEN @ ELSE @ + 1]
         /\ Then(t, Count(IF hit THEN "hits" ELSE "misses", 1)
                    \o <<IF kept THEN Guard(s) ELSE Unlock(s)>>)
  /\ UNCHANGED <<store, counter>>

\* get and get_by (keep: they return a Guard), get_clone and get_clone_by.
Get(t) ==
  /\ At(t, "get")
  /\ LET k == Head(todo[t]).key
         s == ShardOf(k)
         hit == k \in DOMAIN store[s]
     IN  /\ Free(s)
         /\ lock' = [lock EXCEPT ![s].readers[t] = @ + 1]
         /\ Then(t, Count(IF hit THEN "hits" ELSE "misses", 1)
                    \o <<IF hit /\ Head(todo[t]).keep THEN Guard(s) ELSE Unlock(s)>>)
  /\ UNCHANGED <<store, counter>>

\* Mutant of Drained: only the entries of the last shard are kept for the hooks.
DrainedLast(call, s) ==
  [do |-> "clear", next |-> s + 1, waits |-> FALSE, entries |-> Hooks(DOMAIN store[s])]

\* clear goes on to the next shard, with the entries of this one collected.
Drained(call, s) ==
  [do |-> "clear", next |-> s + 1, waits |-> FALSE,
   entries |-> call.entries \o Hooks(DOMAIN store[s])]

\* clear drains one shard after the other.
Drain(t) ==
  /\ At(t, "clear")
  /\ LET call == Head(todo[t])
         s == call.next
     IN  /\ Granted(t)
         /\ store' = [store EXCEPT ![s] = << >>]
         /\ Then(t, <<Add("current_size", -TotalSize(store[s])),
                      Add("entry_count", -Cardinality(DOMAIN store[s])),
                      Unlock(s), Drained(call, s)>>)
  /\ UNCHANGED <<lock, counter>>

\* Every shard is drained: the metrics are reset and the hooks called.
Drop(t) ==
  /\ At(t, "clear")
  /\ Head(todo[t]).next = ShardCount
  /\ Then(t, ResetAll \o Head(todo[t]).entries)
  /\ UNCHANGED <<store, lock, counter>>
-----------------------------------------------------------------------------
\* Mutant of Applied: the counters are signed.
AppliedSigned(effect, value) ==
  IF effect.do = "add" THEN value + effect.by ELSE 0

\* fetch_add and fetch_sub wrap; store(0).
Applied(effect, value) ==
  IF effect.do = "add" THEN (value + effect.by) % Width ELSE 0

\* One atomic operation on a counter, with Relaxed ordering.
Update(t) ==
  /\ At(t, "add") \/ At(t, "reset")
  /\ LET effect == Head(todo[t])
     IN  counter' = [counter EXCEPT ![effect.counter] = Applied(effect, @)]
  /\ Then(t, << >>)
  /\ UNCHANGED <<store, lock>>

\* The locks l without those that the effects of thread t would release: its
\* write lock, or as many read locks as there are.
Released(l, t, effects) ==
  [s \in Shards |->
     LET mine == Owing(effects, s)
     IN  IF mine = {} THEN l[s]
         ELSE IF l[s].writer = t /\ l[s].readers[t] = 0
              THEN [l[s] EXCEPT !.writer = NoThread]
              ELSE [l[s] EXCEPT !.readers[t] = @ - Cardinality(mine)]]

\* The cache releases a lock; a client drops a Guard, and with it the lock.
Release(t) ==
  /\ At(t, "unlock")
  /\ lock' = Released(lock, t, <<Head(todo[t])>>)
  /\ Then(t, << >>)
  /\ UNCHANGED <<store, counter>>

DropGuard(t) ==
  /\ At(t, "guard")
  /\ lock' = Released(lock, t, <<Head(todo[t])>>)
  /\ Then(t, << >>)
  /\ UNCHANGED <<store, counter>>

\* The next hook is called (on_evict, on_remove or on_clear); it returns.
CallHook(t) ==
  /\ At(t, "hooks")
  /\ \E k \in Head(todo[t]).keys :
       Then(t, <<Hook(k)>> \o Hooks(Head(todo[t]).keys \ {k}))
  /\ UNCHANGED <<store, lock, counter>>

HookReturn(t) ==
  /\ At(t, "hook")
  /\ Then(t, << >>)
  /\ UNCHANGED <<store, lock, counter>>

\* A hook panics.  The calls it unwinds do nothing more but release their
\* locks, up to user code that catches the panic, or to the end of the thread.
HookPanic(t) ==
  /\ At(t, "hook")
  /\ \E end \in (UserCode(t) \ {1}) \cup {Len(todo[t]) + 1} :
       /\ lock' = Released(lock, t, SubSeq(todo[t], 1, end - 1))
       /\ todo' = [todo EXCEPT ![t] = SubSeq(@, end, Len(@))]
  /\ UNCHANGED <<store, counter>>

Acquire(t) == Wait(t) \/ Insert(t) \/ Remove(t) \/ Get(t) \/ Drain(t)
Continue(t) == Drop(t) \/ Update(t) \/ Release(t) \/ CallHook(t)
UserReturn(t) == HookReturn(t) \/ DropGuard(t)

Next ==
  \E t \in Threads :
    \/ \E call \in Calls : Call(t, call)
    \/ Acquire(t)
    \/ Continue(t)
    \/ UserReturn(t)
    \/ HookPanic(t)

\* Threads run, the lock starves nobody (parking_lot's RwLock is eventually
\* fair), and user code, however deep, returns from every hook and drops every
\* Guard at last, although it may call the cache several times before.
Fairness ==
  \A t \in Threads :
    /\ WF_vars(Continue(t))
    /\ SF_vars(Acquire(t))
    /\ \A depth \in 1 .. MaxNesting + 1 :
         SF_vars(UserReturn(t) /\ Cardinality(UserCode(t)) = depth)

Spec == Init /\ [][Next]_vars /\ Fairness
-----------------------------------------------------------------------------
\* What the threads still have to add to counter c, where a subtraction is the
\* addition that it wraps to.
Adds(effects, c) == {i \in DOMAIN effects : effects[i].do = "add" /\ effects[i].counter = c}
PendingOf(effects, c) == Total([i \in Adds(effects, c) |-> effects[i].by % Width])
Pending(c) == Total([t \in Threads |-> PendingOf(todo[t], c)])

StoredBytes == Total([s \in Shards |-> TotalSize(store[s])])
StoredEntries == Total([s \in Shards |-> Cardinality(DOMAIN store[s])])

Quiet == \A t \in Threads : todo[t] = << >>

Effects ==
  Calls
    \cup [do : {"insert"}, key : Keys, size : Sizes, policy : Policies, waits : {TRUE}]
    \cup [do : {"remove"}, key : Keys, waits : {TRUE}]
    \cup [do : {"clear"}, next : 0 .. ShardCount, waits : BOOLEAN,
          entries : UNION {[1 .. n -> [do : {"hooks"}, keys : SUBSET Keys]]
                             : n \in 0 .. ShardCount}]
    \cup [do : {"add"}, counter : Counters, by : Int]
    \cup [do : {"reset"}, counter : Metrics]
    \cup [do : {"unlock", "guard"}, shard : Shards]
    \cup [do : {"hooks"}, keys : SUBSET Keys]
    \cup [do : {"hook"}, key : Keys]

\* Every variable has its type, and a shard holds only keys that hash to it.
TypeOK ==
  /\ \A s \in Shards :
       /\ DOMAIN store[s] \subseteq {k \in Keys : ShardOf(k) = s}
       /\ \A k \in DOMAIN store[s] :
            store[s][k] \in [size : Sizes, policy : Policies]
  /\ lock \in [Shards -> [writer : Threads \cup {NoThread}, readers : [Threads -> Nat]]]
  /\ counter \in [Counters -> 0 .. Width - 1]
  /\ todo \in [Threads -> Seq(Effects)]

\* However the calls interleave, size() and len() differ from what the shards
\* hold by exactly the updates still pending, modulo the wrap: no update is
\* lost, none is made twice, and once every call has returned size() and len()
\* are exact.  This is what the counting of clear got wrong before it
\* subtracted what it drained (cache.rs:589-597, integration_tests.rs:710).
CountersAccounted ==
  /\ (counter["current_size"] + Pending("current_size")) % Width = StoredBytes % Width
  /\ (counter["entry_count"] + Pending("entry_count")) % Width = StoredEntries % Width

\* When a hook runs, the call it reports is over but for further hooks: its
\* lock is released and its counters are updated, so that the hook may call
\* the cache, sees what the call did, and may panic (lifecycle.rs:45-46,
\* cache.rs:249, 503).
HooksRunLast ==
  \A t \in Threads : \A i, j \in DOMAIN todo[t] :
    i < j /\ todo[t][i].do = "hook" => todo[t][j].do \in {"hook", "hooks", "guard"}

\* Every lock is held for an effect still to come, so that neither a return
\* nor a panic leaves a lock behind, and a thread that has nothing to do holds
\* none (cache.rs:250, 503, 590, guard.rs:32-59).
LocksAreOwed ==
  \A s \in Shards, t \in Threads :
    LET waiting == {i \in DOMAIN todo[t] :
                      /\ todo[t][i].do \in {"insert", "remove", "clear"}
                      /\ todo[t][i].waits}
    IN  lock[s].readers[t] + (IF lock[s].writer = t THEN 1 ELSE 0)
          = Cardinality(Owing(todo[t], s))
              + (IF waiting # {} /\ Target(t) = s THEN 1 ELSE 0)

\* The order in which a thread comes to its effects: after a call, a hook or a
\* Guard there is only user code left (other hooks, Guards), since a call is
\* made from user code alone and does nothing once it calls its hooks; only the
\* call at the head waits for a lock; and a clear holds the entries of the
\* shards it has drained.
InTurn(effects) ==
  \A i \in DOMAIN effects :
    /\ effects[i].do \notin {"add", "reset", "unlock"} =>
         \A j \in DOMAIN effects :
           i < j => effects[j].do \in {"hook", "hooks", "guard"}
    /\ effects[i].do \in {"insert", "remove", "clear"} /\ effects[i].waits =>
         i = 1 /\ (effects[i].do = "clear" => effects[i].next < ShardCount)
    /\ effects[i].do = "clear" => Len(effects[i].entries) <= effects[i].next

\* Thread t is, or waits to be, the writer of shard s: it has asked for the
\* lock, and then either waits for it or writes, when nobody reads.
Waits(t, s) ==
  /\ At(t, "insert") \/ At(t, "remove") \/ At(t, "clear")
  /\ Head(todo[t]).waits
  /\ Target(t) = s
Writes(t, s) == lock[s].writer = t /\ ~ Waits(t, s)

\* What makes LocksAreOwed and HooksRunLast inductive: the order of the effects,
\* and for each lock who waits, who writes and what each reader owes.
LockInv ==
  /\ \A t \in Threads : InTurn(todo[t])
  /\ \A s \in Shards, t \in Threads :
       /\ Waits(t, s) => lock[s].writer = t
       /\ Writes(t, s) => \A r \in Threads : lock[s].readers[r] = 0
       /\ lock[s].readers[t] + (IF Writes(t, s) THEN 1 ELSE 0)
            = Cardinality(Owing(todo[t], s))

\* While a client holds a Guard, and with it a pointer into the shard, no entry
\* of the shard changes or leaves, whatever the other threads do, or the same
\* one, which then waits for itself (cache.rs:325-327, guard.rs:32-59).
GuardPins ==
  [][\A s \in Shards :
       (\E t \in Threads : \E i \in DOMAIN todo[t] : todo[t][i] = Guard(s))
         => store'[s] = store[s]]_vars

\* Thread t waits for a lock while its client holds a Guard.
WaitsWithGuard(t) ==
  /\ \E i \in DOMAIN todo[t] : todo[t][i].do = "guard"
  /\ \/ At(t, "get") /\ ~ Free(ShardOf(Head(todo[t]).key))
     \/ /\ At(t, "insert") \/ At(t, "remove") \/ At(t, "clear")
        /\ Target(t) < ShardCount
        /\ IF Head(todo[t]).waits THEN ~ Unread(Target(t)) ELSE ~ Free(Target(t))

\* Every call returns, hooks that call the cache or panic included, if no
\* thread waits for ever for a lock while it holds a Guard: that is the one way
\* to deadlock, and clients that drop their Guards before they call the cache
\* are safe (guard.rs:7-12).
CallsReturn ==
  (\A t \in Threads : []<> ~ WaitsWithGuard(t)) =>
    \A t \in Threads : todo[t] # << >> ~> todo[t] = << >>
=============================================================================
