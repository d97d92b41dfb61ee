----------------------------- MODULE MCDeepSize -----------------------------
(* DeepSize over small memory graphs, with history variables: the locks that *)
(* were poisoned when a measure began, and those the client changed since.   *)
EXTENDS DeepSize

VARIABLES poisonedBefore, changed

mcvars == <<vars, poisonedBefore, changed>>

MCInit ==
  /\ Init
  /\ poisonedBefore = [t \in Threads |-> {}]
  /\ changed = [t \in Threads |-> {}]
MCNext ==
  /\ Next
  /\ poisonedBefore' =
       [t \in Threads |-> IF pc[t] = "ready" THEN poisoned ELSE poisonedBefore[t]]
  /\ changed' =
       [t \in Threads |-> IF pc[t] = "sizing" /\ heap' # heap
                          THEN changed[t] \cup {client.lock} ELSE changed[t]]
MCSpec == MCInit /\ [][MCNext]_mcvars /\ Fairness
-----------------------------------------------------------------------------
(* The memory graphs.                                                       *)

Plain(kind, size, parts) ==
  [kind |-> kind, size |-> size, elem |-> 0, cap |-> 0, parts |-> parts]
Collection(kind, elem, cap, parts) ==
  [kind |-> kind, size |-> 3 * Usize, elem |-> elem, cap |-> cap, parts |-> parts]
Handle(kind, v) == Plain(kind, Usize, <<v>>)

\* Two shared values, 3 and 4, of the kinds k3 and k4, that hold handles p3
\* and p4 to themselves and to each other; 1 and 2 are the structs to be
\* measured, 1 with two handles to 3, 2 with a handle to each.
TwoShared(handle, k3, k4, p3, p4) ==
  << Plain("fields", 2 * Usize, <<5, 6>>), Plain("fields", 2 * Usize, <<7, 8>>),
     Plain(k3, 5, p3), Plain(k4, 9, p4),
     Handle(handle, 3), Handle(handle, 3), Handle(handle, 4), Handle(handle, 3),
     Handle(handle, 3), Handle(handle, 4),
     Handle(handle, 3), Handle(handle, 4) >>

\* A struct with a Vec of Arcs and an Rc, a list of boxed strings, a map with
\* pairs of the given size, a string and a reference to that string
Collections(pair) ==
  << Plain("fields", 13 * Usize, <<2, 3, 4, 5, 6>>),
     Collection("array", Usize, 4, <<7, 8, 9>>),
     Collection("list", Usize, 0, <<10, 16>>),
     Collection("btree", pair, 0, <<11>>),
     Collection("string", 1, 7, << >>),
     Plain("ref", Usize, <<5>>),
     Handle("arc", 12), Handle("arc", 12), Handle("rc", 13),
     Handle("box", 14),
     Plain("fields", pair, <<15>>),
     Collection("string", 1, 2, << >>),
     Plain("leaf", 4, << >>),
     Collection("string", 1, 1, << >>),
     Plain("leaf", pair, << >>),
     Handle("box", 17),
     Collection("string", 1, 3, << >>) >>

CollectionHeaps ==
  {[root |-> <<1>>, uses |-> 0, value |-> Collections(pair)] : pair \in {Usize, 3 * Usize}}

\* A struct with nothing but a BTreeMap of two u64 and a string each
MapHeaps ==
  {[root |-> <<1>>, uses |-> 0,
    value |-> << Plain("fields", 3 * Usize, <<2>>),
                 Collection("btree", 4 * Usize, 0, <<3, 4>>),
                 Plain("fields", 4 * Usize, <<5>>), Plain("fields", 4 * Usize, <<6>>),
                 Collection("string", 1, n, << >>), Collection("string", 1, 0, << >>) >>] :
     n \in 0 .. 1}

\* A struct with handles to two locks, of the kinds k2 and k3, each with an Arc
\* in it, to one value or to two.
TwoLocks(k2, k3, v) ==
  << Plain("fields", 2 * Usize, <<4, 5>>),
     Plain(k2, 6, <<6>>), Plain(k3, 6, <<7>>),
     Handle("arc", 2), Handle("arc", 3), Handle("arc", 8), Handle("arc", v),
     Plain("leaf", 5, << >>), Plain("leaf", 7, << >>) >>

\* Three structs, each with a handle to another of three locks, of the kinds
\* k4, k5 and k6, with handles in them from each to the next, round a cycle.
ThreeLocks(k4, k5, k6) ==
  << Plain("fields", Usize, <<7>>), Plain("fields", Usize, <<8>>),
     Plain("fields", Usize, <<9>>),
     Plain(k4, 6, <<10>>), Plain(k5, 6, <<11>>), Plain(k6, 6, <<12>>),
     Handle("arc", 4), Handle("arc", 5), Handle("arc", 6),
     Handle("arc", 5), Handle("arc", 6), Handle("arc", 4) >>

NewLeaf == Plain("leaf", 3, << >>)

\* Rc handles cannot be sent to a second thread.
MCHeaps ==
  LET p3 == {<<10>>, <<9, 10>>}
      p4 == {<< >>, <<11, 12>>}
      kinds == {"fields", "mutex", "rwlock"}
  IN  {[root |-> <<1, 2>>, uses |-> 1,
          value |-> TwoShared("arc", x[1], x[2], x[3], x[4])] :
         x \in kinds \X kinds \X p3 \X p4}
      \cup
      {[root |-> <<1>>, uses |-> 2, value |-> TwoLocks(x[1], x[2], x[3])] :
         x \in {"mutex", "rwlock"} \X {"mutex", "rwlock"} \X {8, 9}}
      \cup
      {[root |-> <<1>>, uses |-> 0,
          value |-> TwoShared("rc", "fields", "fields", x[1], x[2])] :
         x \in p3 \X p4}
      \cup
      {[root |-> <<1, 2, 3>>, uses |-> 0, value |-> ThreeLocks("mutex", k, "mutex")] :
         k \in {"mutex", "rwlock"}}
      \cup CollectionHeaps
-----------------------------------------------------------------------------
\* The values inside v that a measure goes on to, when those in cut are
\* skipped
Follows(v, cut) ==
  IF v \in cut \/ Value(v).kind = "ref" THEN {} ELSE ToSet(Value(v).parts)

Reached(v, cut) ==
  LET Within[n \in 0 .. Len(heap.value)] ==
        IF n = 0 THEN {v}
        ELSE UNION {{w} \cup Follows(w, cut) : w \in Within[n - 1]}
  IN  Within[Len(heap.value)]

Handles(v, cut, kinds) == {w \in Reached(v, cut) : Value(w).kind \in kinds}

SizeOf(w) == Value(w).size

\* The bytes of the values in S, and of the buffers of those that are collections
Extent(x, n) == {x} \X (1 .. n)
ValuesOf(S) == UNION {Extent(<<"value", w>>, SizeOf(w)) : w \in S}
BuffersOf(S) == UNION {Extent(<<"buffer", w>>, OwnBytes(w)) : w \in S}

\* The bytes that v owns, by the definition of a measure: its own, those of what is
\* behind a handle, and those of the buffers of a collection, each of them once
\* however it is reached.
Memory(v, cut) ==
  ValuesOf({v} \cup UNION {Follows(w, cut) : w \in Handles(v, cut, {"box", "arc", "rc"})})
    \cup BuffersOf(Reached(v, cut))

Measure(v, cut) == Cardinality(Memory(v, cut))

\* Measure t waits for a lock whose guard u keeps.
WaitsFor(t, u) ==
  /\ AtVisit(t, {"mutex", "rwlock"})
  /\ LET l == Head(agenda[t]).value IN ~ Lockable(l) /\ u \in held[l]

\* Some measures wait, each for another of them.
Deadlocked ==
  \E S \in SUBSET Threads \ {{}} :
    \A t \in S : \E u \in S \ {t} : WaitsFor(t, u)
-----------------------------------------------------------------------------
\* Each Arc and Rc is counted exactly once, however many handles lead to it
\* and in whatever order, and everything that is owned is counted: a measure
\* returns what its definition says, less what was poisoned when it was looked
\* at.  If the client changes what is behind a lock meanwhile, this still holds
\* for all else: only there may a new Arc lie where one already counted was
\* freed, and be skipped (deepsize.rs:145-151, 160-178, 372-402,
\* default_impls.rs:172-187).
CountsEachOnce ==
  \A t \in Threads :
    pc[t] = "sizing" /\ agenda[t] = << >> =>
      /\ total[t] >= Measure(Root[t], poisoned \cup changed[t])
      /\ changed[t] = {} => total[t] <= Measure(Root[t], poisonedBefore[t])

\* A measure ends, cyclic values included, if no client keeps the guard of a
\* lock for ever and no measures hold what the others of them wait for. Both are
\* the deadlocks that the comments allow (default_impls.rs:173-174, 181-182). The
\* first is also that of a thread that calls insert while it holds a guard of a
\* lock in the value: it keeps the guard until insert returns. So do
\* clients that nest locks, with a measure or each other. Nothing else stops a
\* measure, not even a lock that was poisoned or the client's changes.
SizingReturns ==
  []<>(client.pc # "holding") =>
    \A t \in Threads : pc[t] = "sizing" ~> (pc[t] = "done" \/ Deadlocked)

\* The measure of a collection includes the size of its contents
\* (deepsize.rs:47-53): every element takes at least its own size.
ContentsCounted ==
  \A t \in Threads :
    pc[t] = "done" /\ poisoned = {} =>
      total[t] >= SizeOf(Root[t])
                    + MapThenSumSet(LAMBDA w : Len(Value(w).parts) * Value(w).elem,
                                    Handles(Root[t], {}, {"array", "list", "btree"}))
=============================================================================
