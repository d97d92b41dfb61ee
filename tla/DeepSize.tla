------------------------------ MODULE DeepSize ------------------------------
(* deep_size_of: the recursive measure of a value that Entry::new takes      *)
(* before the value is stored. The values of a program are a graph: a value  *)
(* owns its parts, Arc and Rc handles share what they point at, and a Mutex  *)
(* or RwLock is held while its content is measured. Several threads measure  *)
(* values that share parts, and a client uses the locks meanwhile, changes   *)
(* what is behind one, and may panic and poison it.                          *)
(*                                                                           *)
(* The recursion is an agenda: what a thread still has to visit, and the     *)
(* guards it drops on the way. The bytes of a value are added when it is     *)
(* visited; the code adds some of them after its parts, which no one sees.   *)
EXTENDS Integers, Sequences, FiniteSets, SequencesExt

CONSTANTS
  Threads,     \* the threads that measure, each at most one value
  Client,      \* the user of the locks
  Usize,       \* bytes of a usize
  Heaps,       \* bound: the memory graphs, each with a root for some threads,
               \* and how often the client locks something
  Fresh        \* what the client allocates

\* The impls that sum their parts, or have none to follow: known_deep_size
\* types and Weak; references; structs, tuples, slices, Option, Result, RefCell,
\* inline SmallVec; String and the like; Vec, VecDeque, HashMap, HashSet, slabs,
\* spilled SmallVec; LinkedList; BTreeMap, BTreeSet.
SumKinds == {"leaf", "ref", "fields", "string", "array", "list", "btree"}
Kinds == SumKinds \cup {"box", "arc", "rc", "mutex", "rwlock"}

\* kind, size_of_val, size_of of the elements, capacity, and the values inside
Values == [kind : Kinds, size : Nat, elem : Nat, cap : Nat, parts : Seq(Nat)]

ASSUME ThreadsAssumption == IsFiniteSet(Threads) /\ Client \notin Threads
ASSUME UsizeAssumption == Usize \in Nat \ {0}
ASSUME FreshAssumption == Fresh \in Values /\ Fresh.kind = "leaf" /\ Fresh.parts = << >>

\* The values directly inside value v of the heap h.
Inside(h, v) == {h.value[v].parts[i] : i \in DOMAIN h.value[v].parts}

\* A value has one owner, or is shared by handles of one kind; a handle points at
\* one value; a value to be measured reaches the cache by move, so nothing else
\* points at it.
WellOwned(h) ==
  /\ DOMAIN h = {"value", "root", "uses"}
  /\ h.value \in Seq(Values)
  /\ \A v \in DOMAIN h.value :
       /\ Inside(h, v) \subseteq DOMAIN h.value
       /\ Cardinality(Inside(h, v)) = Len(h.value[v].parts)
       /\ h.value[v].kind \in {"box", "arc", "rc"} => Len(h.value[v].parts) = 1
       /\ \A w \in 1 .. v - 1 :
            \/ Inside(h, v) \cap Inside(h, w) = {}
            \/ h.value[v].kind = h.value[w].kind /\ h.value[v].kind \in {"arc", "rc"}
            \/ "ref" \in {h.value[v].kind, h.value[w].kind}
  /\ DOMAIN h.root \subseteq Threads
  /\ \A t \in DOMAIN h.root :
       /\ h.root[t] \in DOMAIN h.value
       /\ \A v \in DOMAIN h.value : h.root[t] \notin Inside(h, v)

ASSUME HeapsAssumption == \A h \in Heaps : WellOwned(h) /\ h.uses \in Nat

VARIABLES
  heap,      \* the memory graph: an index is an address
  pc,        \* per thread: "ready", "sizing" or "done"
  agenda,    \* per thread: what is left to visit or release
  context,   \* per thread: addresses of the Arcs and Rcs already counted
  total,     \* per thread: the bytes counted
  held,      \* per lock: who holds a guard
  poisoned,  \* the locks whose holder panicked
  client     \* the lock the client waits for or holds, and its uses so far

threadVars == <<pc, agenda, context, total>>
vars == <<heap, threadVars, held, poisoned, client>>
-----------------------------------------------------------------------------
Nodes == DOMAIN heap.value
Value(v) == heap.value[v]
Root == heap.root   \* of each thread that has one
Pointee(v) == Value(v).parts[1]
Locks == {v \in Nodes : Value(v).kind \in {"mutex", "rwlock"}}

Visit(v) == [do |-> "visit", value |-> v]
Unlock(v) == [do |-> "unlock", value |-> v]
Visits(v) == [i \in DOMAIN Value(v).parts |-> Visit(Value(v).parts[i])]

BTREE_B == 6
BTREE_MIN == 2 * BTREE_B - 1
BTREE_MAX == BTREE_B - 1

RoundUp(n, unit) == ((n + unit - 1) \div unit) * unit

\* size_of::<(usize, u16, u16, [element; BTREE_MAX], [usize; BTREE_B])>()
NodeBytes(elem) == RoundUp(Usize + 2 + 2 + elem * BTREE_MAX + Usize * BTREE_B, Usize)

ListBytes(x) == Len(x.parts) * (x.elem + Usize * 2)
TreeBytes(x) == (Len(x.parts) * NodeBytes(x.elem) * 2) \div (BTREE_MAX + BTREE_MIN)

\* What a value that owns its parts adds for its own allocation
OwnBytes(v) ==
  LET x == Value(v)
  IN  CASE x.kind = "string" -> x.cap
        [] x.kind = "array" -> x.cap * x.elem
        [] x.kind = "list" -> ListBytes(x)
        [] x.kind = "btree" -> TreeBytes(x)
        [] OTHER -> 0

NoContext == [arc |-> {}, rc |-> {}]
NoClient == [pc |-> "idle", uses |-> 0]

Init ==
  /\ heap \in Heaps
  /\ pc = [t \in Threads |-> "ready"]
  /\ agenda = [t \in Threads |-> << >>]
  /\ context = [t \in Threads |-> NoContext]
  /\ total = [t \in Threads |-> 0]
  /\ held = [v \in Nodes |-> {}]
  /\ poisoned = {}
  /\ client = NoClient
-----------------------------------------------------------------------------
(* The threads that measure.                                                *)

\* deep_size_of, with a new Context
Start(t) ==
  /\ pc[t] = "ready"
  /\ t \in DOMAIN Root
  /\ pc' = [pc EXCEPT ![t] = "sizing"]
  /\ agenda' = [agenda EXCEPT ![t] = <<Visit(Root[t])>>]
  /\ total' = [total EXCEPT ![t] = Value(Root[t]).size]
  /\ UNCHANGED <<heap, context, held, poisoned, client>>

AtVisit(t, kinds) ==
  /\ agenda[t] # << >>
  /\ Head(agenda[t]).do = "visit"
  /\ Value(Head(agenda[t]).value).kind \in kinds

\* The head of t's agenda gives way to items, and adds bytes.
Replace(t, items, bytes) ==
  /\ agenda' = [agenda EXCEPT ![t] = items \o Tail(@)]
  /\ total' = [total EXCEPT ![t] = @ + bytes]
  /\ UNCHANGED <<heap, pc, poisoned, client>>

Sum(t) ==
  /\ AtVisit(t, SumKinds)
  /\ LET v == Head(agenda[t]).value
     IN  Replace(t, IF Value(v).kind = "ref" THEN << >> ELSE Visits(v), OwnBytes(v))
  /\ UNCHANGED <<context, held>>

Box(t) ==
  /\ AtVisit(t, {"box"})
  /\ LET v == Head(agenda[t]).value
     IN  Replace(t, Visits(v), Value(Pointee(v)).size)
  /\ UNCHANGED <<context, held>>

\* Mutant of Address: the handle's own address, so that clones differ.
AddressOfHandle(v) == v

\* What a Context remembers of a handle: the address it points at
Address(v) == Pointee(v)

\* Arc or Rc: counted when its address is seen first
Shared(t) ==
  /\ AtVisit(t, {"arc", "rc"})
  /\ LET v == Head(agenda[t]).value
         kind == Value(v).kind
     IN  IF Address(v) \in context[t][kind]
         THEN Replace(t, << >>, 0) /\ UNCHANGED context
         ELSE /\ Replace(t, Visits(v), Value(Pointee(v)).size)
              /\ context' = [context EXCEPT ![t][kind] = @ \cup {Address(v)}]
  /\ UNCHANGED held

\* Whether lock() or read() returns: a Mutex must be free; an RwLock must have
\* no writer, nor one that waits.
Lockable(l) ==
  IF Value(l).kind = "mutex" THEN held[l] = {}
  ELSE ~ (client.pc \in {"waiting", "holding"} /\ client.lock = l)

\* Mutants of Lock: the content is looked at without waiting for the lock; the
\* content of a poisoned lock is counted; the guard in a PoisonError is kept.
LockUnawaited(t) ==
  /\ AtVisit(t, {"mutex", "rwlock"})
  /\ LET l == Head(agenda[t]).value
     IN  /\ IF l \in poisoned
            THEN Replace(t, <<Unlock(l)>>, 0)
            ELSE Replace(t, Append(Visits(l), Unlock(l)), 0)
         /\ held' = [held EXCEPT ![l] = @ \cup {t}]
  /\ UNCHANGED context
LockThroughPoison(t) ==
  /\ AtVisit(t, {"mutex", "rwlock"})
  /\ LET l == Head(agenda[t]).value
     IN  /\ Lockable(l)
         /\ Replace(t, Append(Visits(l), Unlock(l)), 0)
         /\ held' = [held EXCEPT ![l] = @ \cup {t}]
  /\ UNCHANGED context
LockKeepsPoisonedGuard(t) ==
  /\ AtVisit(t, {"mutex", "rwlock"})
  /\ LET l == Head(agenda[t]).value
     IN  /\ Lockable(l)
         /\ Replace(t, IF l \in poisoned THEN << >> ELSE Append(Visits(l), Unlock(l)), 0)
         /\ held' = [held EXCEPT ![l] = @ \cup {t}]
  /\ UNCHANGED context

\* Mutex or RwLock: the guard lives while the content is measured; the guard
\* in a PoisonError is dropped at once and counts 0.
Lock(t) ==
  /\ AtVisit(t, {"mutex", "rwlock"})
  /\ LET l == Head(agenda[t]).value
     IN  /\ Lockable(l)
         /\ IF l \in poisoned
            THEN Replace(t, <<Unlock(l)>>, 0)
            ELSE Replace(t, Append(Visits(l), Unlock(l)), 0)
         /\ held' = [held EXCEPT ![l] = @ \cup {t}]
  /\ UNCHANGED context

DropGuard(t) ==
  /\ agenda[t] # << >>
  /\ Head(agenda[t]).do = "unlock"
  /\ Replace(t, << >>, 0)
  /\ held' = [held EXCEPT ![Head(agenda[t]).value] = @ \ {t}]
  /\ UNCHANGED context

Return(t) ==
  /\ pc[t] = "sizing"
  /\ agenda[t] = << >>
  /\ pc' = [pc EXCEPT ![t] = "done"]
  /\ UNCHANGED <<heap, agenda, context, total, held, poisoned, client>>

Step(t) == Sum(t) \/ Box(t) \/ Shared(t) \/ Lock(t) \/ DropGuard(t) \/ Return(t)
-----------------------------------------------------------------------------
(* The client that uses a lock of the same values.                          *)

\* The Arc handles among S; what handles share.
Arcs(S) == {v \in Nodes \cap S : Value(v).kind = "arc"}
SharedBy(handles) == {Pointee(v) : v \in handles}

\* What is not freed: owned by a value that is measured or was, or in use.
Alive(h) ==
  LET inUse == IF client.pc = "idle" THEN {} ELSE {client.lock}
      Within[n \in 0 .. Len(h.value)] ==
        IF n = 0 THEN {h.root[t] : t \in DOMAIN h.root} \cup inUse
        ELSE UNION {{v} \cup Inside(h, v) : v \in Within[n - 1]}
  IN  Within[Len(h.value)]

ClientWait(l) ==
  /\ client.pc = "idle"
  /\ client.uses < heap.uses
  /\ l \in Alive(heap)
  /\ client' = [pc |-> "waiting", uses |-> client.uses + 1, lock |-> l]
  /\ UNCHANGED <<heap, threadVars, held, poisoned>>

ClientLock ==
  /\ client.pc = "waiting"
  /\ held[client.lock] = {}
  /\ client' = [client EXCEPT !.pc = "holding"]
  /\ held' = [held EXCEPT ![client.lock] = {Client}]
  /\ UNCHANGED <<heap, threadVars, poisoned>>

\* The heap h with handle w taken out of value l, or pointed at value v, or at
\* a new value, for which memory that was freed may be used.
WithoutHandle(h, l, w) ==
  LET parts == h.value[l].parts
      at == CHOOSE i \in DOMAIN parts : parts[i] = w
  IN  [h EXCEPT !.value[l].parts = RemoveAt(parts, at)]
Pointed(h, w, v) == [h EXCEPT !.value[w].parts = <<v>>]
Allocated(h, v) == [h EXCEPT !.value[v] = Fresh]

\* What may become of the heap when the client writes behind lock l: one of
\* the Arcs there is dropped, or replaced by a clone of another or a new one.
Changes(l) ==
  {WithoutHandle(heap, l, w) : w \in Arcs(Inside(heap, l))}
    \cup {Pointed(heap, w, v) : w \in Arcs(Inside(heap, l)),
                               v \in SharedBy(Arcs(Alive(heap)))}
    \cup UNION {{Allocated(Pointed(heap, w, v), v) :
                    v \in SharedBy(Arcs(Nodes)) \ Alive(WithoutHandle(heap, l, w))} :
                 w \in Arcs(Inside(heap, l))}

\* The client drops its guard, or panics with it and poisons the lock, with
\* something changed behind it or not.
ClientUnlock ==
  /\ client.pc = "holding"
  /\ client' = [pc |-> "idle", uses |-> client.uses]
  /\ held' = [held EXCEPT ![client.lock] = {}]
  /\ heap' = heap \/ heap' \in Changes(client.lock)
  /\ poisoned' \in {poisoned, poisoned \cup {client.lock}}
  /\ UNCHANGED threadVars

Next ==
  \/ \E t \in Threads : Start(t) \/ Step(t)
  \/ \E l \in Locks : ClientWait(l)
  \/ ClientLock
  \/ ClientUnlock

\* A thread that measures runs on, and a lock that is free is granted. The
\* client is not bound to anything: it may keep a guard for ever, as a thread
\* does that measures a value while it holds a guard of a lock in it. Locks are
\* asked for a bounded number of times, so weak fairness is enough: a lock does
\* not come and go for ever.
Fairness == (\A t \in Threads : WF_vars(Step(t))) /\ WF_vars(ClientLock)

Spec == Init /\ [][Next]_vars /\ Fairness
-----------------------------------------------------------------------------
TypeOK ==
  /\ WellOwned(heap)
  /\ pc \in [Threads -> {"ready", "sizing", "done"}]
  /\ \A t \in Threads : \A i \in DOMAIN agenda[t] :
       /\ agenda[t][i].do \in {"visit", "unlock"}
       /\ agenda[t][i].value \in Nodes
  /\ context \in [Threads -> [arc : SUBSET Nodes, rc : SUBSET Nodes]]
  /\ total \in [Threads -> Nat]
  /\ held \in [Nodes -> {{}, {Client}} \cup SUBSET Threads]
  /\ \A v \in Nodes \ Locks : held[v] = {}
  /\ \A l \in Locks : Value(l).kind = "mutex" => Cardinality(held[l]) <= 1
  /\ poisoned \subseteq Nodes
  /\ client.pc \in {"idle", "waiting", "holding"} /\ client.uses \in 0 .. heap.uses

\* A thread never asks for a lock whose guard it holds, not even where an Arc
\* inside a Mutex leads back to it: the Context knows the Arc before its
\* content is entered, and a client cannot change what the thread goes through
\* (deepsize.rs:376-383, default_impls.rs:172-187).
NeverRelocks ==
  \A t \in Threads :
    AtVisit(t, {"mutex", "rwlock"}) => t \notin held[Head(agenda[t]).value]
=============================================================================
