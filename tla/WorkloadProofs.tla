--------------------------- MODULE WorkloadProofs ---------------------------
(***************************************************************************)
(* For any workload, any total_ops and up to three threads, get_op never   *)
(* indexes past the workload and the count overshoots by less than the     *)
(* number of threads.  Both follow from a sum that no step increases past  *)
(* its bound: a thread that passes a test joins a set, at a moment when    *)
(* the tested counter is below its limit, and leaves it when it increments *)
(* the counter.  On top of it the trace is shown to be what the servers    *)
(* executed.                                                               *)
(***************************************************************************)
EXTENDS Workload, FiniteSetTheorems, TLAPS

Label == {"loop", "get_op", "fetch", "send", "retry", "log", "done"}

\* The threads between get_op's test of the pointer and its increment.
Fetching == {t \in Thread : pc[t] = "fetch"}

\* The threads between RUN_CONDITION and the count of the operation it let in.
Pending == {t \in Thread : pc[t] \notin {"loop", "done"}}

\* The inductive invariant.
IInv ==
  /\ TypeOK
  /\ \A t \in Thread : Busy(t) => op[t] \in Entry
  /\ workload_pointer + Cardinality(Fetching) <= Size - 3 + Cardinality(Thread)
  /\ write_op_executed + Cardinality(Pending) <= total_ops - 1 + Cardinality(Thread)

\* The two sets are finite, no larger than the set of threads.
LEMMA SetsFinite ==
  /\ IsFiniteSet(Thread) /\ Cardinality(Thread) \in 1..3
  /\ IsFiniteSet(Fetching) /\ Cardinality(Fetching) \in Nat
  /\ Cardinality(Fetching) <= Cardinality(Thread)
  /\ IsFiniteSet(Pending) /\ Cardinality(Pending) \in Nat
  /\ Cardinality(Pending) <= Cardinality(Thread)
<1>1. Fetching \subseteq Thread /\ Pending \subseteq Thread
  BY DEF Fetching, Pending
<1>2. IsFiniteSet(Thread) /\ Cardinality(Thread) \in 1..3
  BY ThreadAssumption
<1>3. /\ IsFiniteSet(Fetching) /\ Cardinality(Fetching) <= Cardinality(Thread)
      /\ IsFiniteSet(Pending) /\ Cardinality(Pending) <= Cardinality(Thread)
  BY <1>1, <1>2, FS_Subset
<1> QED BY <1>2, <1>3, FS_CardinalityType

\* What a step of thread t to label l does to a set of threads given by labels.
LEMMA Moved ==
  ASSUME TypeOK, NEW t \in Thread, NEW l \in Label, Goto(t, l)
  PROVE  /\ pc' \in [Thread -> Label]
         /\ Fetching' = IF l = "fetch" THEN Fetching \cup {t} ELSE Fetching \ {t}
         /\ Pending' = IF l \in {"loop", "done"} THEN Pending \ {t} ELSE Pending \cup {t}
<1>1. pc \in [Thread -> Label] /\ pc' = [pc EXCEPT ![t] = l]
  BY DEF TypeOK, Goto, Label
<1>2. pc' \in [Thread -> Label] /\ pc'[t] = l /\ \A u \in Thread \ {t} : pc'[u] = pc[u]
  BY <1>1
<1>3. Fetching' = IF l = "fetch" THEN Fetching \cup {t} ELSE Fetching \ {t}
  BY <1>2 DEF Fetching
<1>4. Pending' = IF l \in {"loop", "done"} THEN Pending \ {t} ELSE Pending \cup {t}
  BY <1>2 DEF Pending
<1> QED BY <1>2, <1>3, <1>4

\* The sizes of the two sets after such a step.
LEMMA MovedSizes ==
  ASSUME TypeOK, NEW t \in Thread, NEW l \in Label, Goto(t, l)
  PROVE  /\ Cardinality(Fetching') =
              Cardinality(Fetching) + (IF l = "fetch" THEN 1 ELSE 0)
                                    - (IF pc[t] = "fetch" THEN 1 ELSE 0)
         /\ Cardinality(Pending') =
              Cardinality(Pending) + (IF l \in {"loop", "done"} THEN 0 ELSE 1)
                                   - (IF pc[t] \in {"loop", "done"} THEN 0 ELSE 1)
<1>1. (t \in Fetching <=> pc[t] = "fetch") /\ (t \in Pending <=> pc[t] \notin {"loop", "done"})
  BY DEF Fetching, Pending
<1>2. /\ Cardinality(Fetching \cup {t}) =
           IF t \in Fetching THEN Cardinality(Fetching) ELSE Cardinality(Fetching) + 1
      /\ Cardinality(Pending \cup {t}) =
           IF t \in Pending THEN Cardinality(Pending) ELSE Cardinality(Pending) + 1
  BY SetsFinite, FS_AddElement
<1>3. /\ Cardinality(Fetching \ {t}) =
           IF t \in Fetching THEN Cardinality(Fetching) - 1 ELSE Cardinality(Fetching)
      /\ Cardinality(Pending \ {t}) =
           IF t \in Pending THEN Cardinality(Pending) - 1 ELSE Cardinality(Pending)
  BY SetsFinite, FS_RemoveElement
<1>4. Cardinality(Fetching) \in Nat /\ Cardinality(Pending) \in Nat
  BY SetsFinite
<1>5. /\ Fetching' = IF l = "fetch" THEN Fetching \cup {t} ELSE Fetching \ {t}
      /\ Pending' = IF l \in {"loop", "done"} THEN Pending \ {t} ELSE Pending \cup {t}
  BY Moved
<1>6. CASE l = "fetch"
  <2>1. Cardinality(Fetching') = Cardinality(Fetching \cup {t})
    BY <1>5, <1>6
  <2>2. Cardinality(Pending') = Cardinality(Pending \cup {t})
    BY <1>5, <1>6
  <2> QED BY <1>6, <2>1, <2>2, <1>1, <1>2, <1>4
<1>7. CASE l \in {"loop", "done"}
  <2>1. Cardinality(Fetching') = Cardinality(Fetching \ {t})
    BY <1>5, <1>7
  <2>2. Cardinality(Pending') = Cardinality(Pending \ {t})
    BY <1>5, <1>7
  <2> QED BY <1>7, <2>1, <2>2, <1>1, <1>3, <1>4
<1>8. CASE l \notin {"fetch", "loop", "done"}
  <2>1. Cardinality(Fetching') = Cardinality(Fetching \ {t})
    BY <1>5, <1>8
  <2>2. Cardinality(Pending') = Cardinality(Pending \cup {t})
    BY <1>5, <1>8
  <2> QED BY <1>8, <2>1, <2>2, <1>1, <1>2, <1>3, <1>4
<1> QED BY <1>6, <1>7, <1>8

\* The invariant holds when the threads start.
LEMMA InitIInv == Init => IInv
<1> SUFFICES ASSUME Init PROVE IInv
  OBVIOUS
<1>1. TypeOK
  BY SizeAssumption DEF Init, TypeOK, Entry
<1>2. Fetching = {} /\ Pending = {} /\ \A t \in Thread : ~Busy(t)
  BY DEF Init, Fetching, Pending, Busy
<1>3. Cardinality(Fetching) = 0 /\ Cardinality(Pending) = 0
  BY <1>2, FS_EmptySet
<1> QED BY <1>1, <1>2, <1>3, ThreadAssumption, SizeAssumption DEF IInv, Init

\* get_op: a thread in the window between the test and the increment leaves room
\* for its index.
LEMMA RoomForIndex ==
  ASSUME IInv, NEW t \in Thread, pc[t] = "fetch"
  PROVE  workload_pointer \in Entry
<1>1. t \in Fetching
  BY DEF Fetching
<1>2. Cardinality(Fetching) >= 1
  <2>1. Fetching # {} BY <1>1
  <2>2. Cardinality(Fetching) # 0 BY <2>1, SetsFinite, FS_EmptySet
  <2> QED BY <2>2, SetsFinite
<1> QED BY <1>2, SetsFinite, SizeAssumption DEF IInv, TypeOK, Entry

\* Every step of a thread keeps the invariant.
LEMMA StepIInv ==
  ASSUME IInv, NEW t \in Thread, Step(t)
  PROVE  IInv'
<1> USE SetsFinite, SizeAssumption
<1>0. /\ TypeOK /\ pc \in [Thread -> Label]
      /\ Cardinality(Fetching) \in Nat /\ Cardinality(Pending) \in Nat
  BY DEF IInv, TypeOK, Label
<1>1. CASE RUN_CONDITION(t)
  <2> DEFINE l == IF write_op_executed < total_ops THEN "get_op" ELSE "done"
  <2>1. Goto(t, l) /\ l \in Label /\ pc[t] = "loop"
    BY <1>1 DEF RUN_CONDITION, At, Label
  <2>2. TypeOK' /\ \A u \in Thread : Busy(u)' => op'[u] \in Entry
    BY <1>1, <2>1, <1>0 DEF IInv, RUN_CONDITION, TypeOK, Busy, Goto, Label
  <2>3. Cardinality(Fetching') = Cardinality(Fetching)
    BY <2>1, <1>0, MovedSizes
  <2>4. /\ l = "get_op" => Cardinality(Pending') = Cardinality(Pending) + 1
        /\ l = "done" => Cardinality(Pending') = Cardinality(Pending)
    BY <2>1, <1>0, MovedSizes
  <2>5. l = "get_op" => Cardinality(Pending') <= Cardinality(Thread)
    <3>1. Pending' \subseteq Thread BY DEF Pending
    <3> QED BY <3>1, FS_Subset
  <2> QED BY <1>1, <1>0, <2>2, <2>3, <2>4, <2>5 DEF IInv, RUN_CONDITION, TypeOK
<1>2. CASE get_op(t)
  <2> DEFINE l == IF workload_pointer >= Size - 2 THEN "loop" ELSE "fetch"
  <2>1. Goto(t, l) /\ l \in Label /\ pc[t] = "get_op"
    BY <1>2 DEF get_op, At, Label
  <2>2. TypeOK' /\ \A u \in Thread : Busy(u)' => op'[u] \in Entry
    BY <1>2, <2>1, <1>0 DEF IInv, get_op, TypeOK, Busy, Goto, Label
  <2>3. /\ l = "loop" => /\ Cardinality(Fetching') = Cardinality(Fetching)
                         /\ Cardinality(Pending') = Cardinality(Pending) - 1
        /\ l = "fetch" => /\ Cardinality(Fetching') = Cardinality(Fetching) + 1
                          /\ Cardinality(Pending') = Cardinality(Pending)
    BY <2>1, <1>0, MovedSizes
  <2>4. Cardinality(Fetching') <= Cardinality(Thread)
    <3>1. Fetching' \subseteq Thread BY DEF Fetching
    <3> QED BY <3>1, FS_Subset
  <2> QED BY <1>2, <1>0, <2>2, <2>3, <2>4 DEF IInv, get_op, TypeOK
<1>3. CASE Fetch(t)
  <2> DEFINE l == IF workload_pointer < Dummies THEN "loop" ELSE "send"
  <2>1. Goto(t, l) /\ l \in Label /\ pc[t] = "fetch"
    BY <1>3 DEF Fetch, At, Label
  <2>2. workload_pointer \in Entry
    BY <2>1, RoomForIndex
  <2>3. TypeOK' /\ \A u \in Thread : Busy(u)' => op'[u] \in Entry
    <3>1. op' = [op EXCEPT ![t] = workload_pointer] /\ op \in [Thread -> Nat] /\ workload_pointer \in Nat
      BY <1>3 DEF Fetch, IInv, TypeOK
    <3>2. pc' \in [Thread -> Label] /\ \A u \in Thread \ {t} : pc'[u] = pc[u]
      BY <2>1, <1>0 DEF Goto
    <3>3. TypeOK'
      BY <1>3, <3>1, <3>2, <1>0 DEF Fetch, TypeOK, Label
    <3>4. \A u \in Thread : Busy(u)' => op'[u] \in Entry
      BY <3>1, <3>2, <2>2 DEF IInv, Busy
    <3> QED BY <3>3, <3>4
  <2>4. /\ Cardinality(Fetching') = Cardinality(Fetching) - 1
        /\ Cardinality(Pending') <= Cardinality(Pending)
        /\ Cardinality(Pending') \in Int
    BY <2>1, <1>0, MovedSizes
  <2> QED BY <1>3, <1>0, <2>3, <2>4 DEF IInv, Fetch, TypeOK
<1>4. CASE Log(t)
  <2>1. Goto(t, "loop") /\ "loop" \in Label /\ pc[t] = "log"
    BY <1>4 DEF Log, At, Label
  <2>2. TypeOK' /\ \A u \in Thread : Busy(u)' => op'[u] \in Entry
    BY <1>4, <2>1, <1>0 DEF IInv, Log, TypeOK, Busy, Goto, Label
  <2>3. /\ Cardinality(Fetching') = Cardinality(Fetching)
        /\ Cardinality(Pending') = Cardinality(Pending) - 1
    BY <2>1, <1>0, MovedSizes
  <2> QED BY <1>4, <1>0, <2>2, <2>3 DEF IInv, Log, TypeOK
<1>5. ASSUME NEW ok \in BOOLEAN, Replied(t, ok) PROVE IInv'
  <2> DEFINE l == IF ok THEN "log" ELSE "loop"
  <2>1. Goto(t, l) /\ l \in Label /\ pc[t] \in {"send", "retry"}
    BY <1>5 DEF Replied, At, Label
  <2>2. TypeOK' /\ \A u \in Thread : Busy(u)' => op'[u] \in Entry
    BY <1>5, <2>1, <1>0 DEF IInv, Replied, Serve, TypeOK, Busy, Goto, Label
  <2>3. /\ Cardinality(Fetching') = Cardinality(Fetching)
        /\ Cardinality(Pending') <= Cardinality(Pending)
        /\ Cardinality(Pending') \in Int
    BY <2>1, <1>0, MovedSizes
  <2> QED BY <1>5, <1>0, <2>2, <2>3 DEF IInv, Replied, TypeOK
<1>6. ASSUME NEW ok \in BOOLEAN, NoReply(t, ok) PROVE IInv'
  <2>1. CASE At(t, "send") /\ Goto(t, "retry") /\ retried' = retried \cup {op[t]} /\ UNCHANGED exited
    <3>1. "retry" \in Label /\ pc[t] = "send" /\ op[t] \in Entry
      BY <2>1 DEF At, Label, IInv, Busy
    <3>2. TypeOK' /\ \A u \in Thread : Busy(u)' => op'[u] \in Entry
      BY <1>6, <2>1, <3>1, <1>0 DEF IInv, NoReply, Serve, TypeOK, Busy, Goto, Label
    <3>3. /\ Cardinality(Fetching') = Cardinality(Fetching)
          /\ Cardinality(Pending') = Cardinality(Pending)
      BY <2>1, <3>1, <1>0, MovedSizes
    <3> QED BY <1>6, <1>0, <3>2, <3>3 DEF IInv, NoReply, TypeOK
  <2>2. CASE exited' = TRUE /\ UNCHANGED <<pc, retried>>
    <3>1. TypeOK' /\ \A u \in Thread : Busy(u)' => op'[u] \in Entry
      <4>0. op[t] \in Entry /\ ran \in [Entry -> Nat]
        BY <1>6 DEF NoReply, At, IInv, Busy, TypeOK
      <4>1. ran' \in [Entry -> Nat]
        BY <1>6, <4>0 DEF NoReply, Serve
      <4>2. TypeOK'
        BY <1>6, <2>2, <4>1, <1>0 DEF NoReply, TypeOK
      <4>3. \A u \in Thread : Busy(u)' => op'[u] \in Entry
        BY <1>6, <2>2 DEF IInv, NoReply, Busy
      <4> QED BY <4>2, <4>3
    <3>2. Fetching' = Fetching /\ Pending' = Pending
      BY <2>2 DEF Fetching, Pending
    <3> QED BY <1>6, <1>0, <3>1, <3>2 DEF IInv, NoReply, TypeOK
  <2> QED BY <1>6, <2>1, <2>2 DEF NoReply
<1> QED BY <1>1, <1>2, <1>3, <1>4, <1>5, <1>6 DEF Step

\* The invariant is inductive.
THEOREM WorkloadInvariance == Spec => []IInv
<1>1. IInv /\ [Next]_vars => IInv'
  <2> SUFFICES ASSUME IInv, [Next]_vars PROVE IInv'
    OBVIOUS
  <2>1. CASE Next BY <2>1, StepIInv DEF Next
  <2>2. CASE UNCHANGED vars
    BY <2>2 DEF vars, IInv, TypeOK, Busy, Fetching, Pending
  <2> QED BY <2>1, <2>2
<1> QED BY <1>1, InitIInv, PTL DEF Spec

\* get_op and its slack of two: the index is in bounds, with up to three threads.
THEOREM NeverPastTheEnd == Spec => []IndexInBounds
<1>1. IInv => IndexInBounds
  BY RoomForIndex, SizeAssumption DEF IndexInBounds, Entry
<1> QED BY <1>1, WorkloadInvariance, PTL

\* RUN_CONDITION: the count passes total_ops by less than the number of threads.
THEOREM OvershootIsBounded == Spec => []BoundedOvershoot
<1>1. IInv => BoundedOvershoot
  BY SetsFinite, SizeAssumption DEF IInv, TypeOK, BoundedOvershoot
<1> QED BY <1>1, WorkloadInvariance, PTL
-----------------------------------------------------------------------------
(* The trace.                                                              *)

\* What the servers, the trace and the client know of entry n.
Ledger(n) ==
  /\ ran[n] \in 0..2
  /\ n \in logged => ran[n] > 0
  /\ ran[n] > 0 /\ n \notin logged =>
       (\E t \in Thread : pc[t] = "log" /\ op[t] = n) \/ n \in retried \/ exited
  /\ ran[n] = 2 => n \in retried
  /\ n >= workload_pointer => ran[n] = 0 /\ n \notin logged

\* What is true of the entry thread t holds: it is t's alone, and not logged yet.
Holder(t) ==
  /\ Busy(t) => op[t] < workload_pointer /\ op[t] \notin logged
  /\ pc[t] = "send" /\ ~exited => ran[op[t]] = 0
  /\ pc[t] = "retry" => op[t] \in retried /\ (~exited => ran[op[t]] <= 1)
  /\ pc[t] = "log" => ran[op[t]] > 0
  /\ \A u \in Thread \ {t} : Busy(t) /\ Busy(u) => op[u] # op[t]

\* The inductive invariant of the trace.
TraceInv ==
  /\ \A n \in Entry : Ledger(n)
  /\ \A t \in Thread : Holder(t)
  /\ write_op_executed = Cardinality(logged) + dry

\* Nothing has run and nothing is in the trace when the threads start.
LEMMA InitTraceInv == Init => TraceInv
<1> SUFFICES ASSUME Init PROVE TraceInv
  OBVIOUS
<1>1. Cardinality(logged) = 0
  BY FS_EmptySet DEF Init
<1>2. \A n \in Entry : Ledger(n)
  BY DEF Init, Ledger
<1>3. \A t \in Thread : Holder(t)
  BY DEF Init, Holder, Busy
<1> QED BY <1>1, <1>2, <1>3 DEF TraceInv, Init

\* The steps before an entry is fetched.
LEMMA BeforeTrace ==
  ASSUME IInv, TraceInv, NEW t \in Thread, RUN_CONDITION(t) \/ get_op(t)
  PROVE  TraceInv'
<1>1. /\ pc \in [Thread -> Label] /\ dry \in Nat /\ write_op_executed \in Nat
      /\ op' = op /\ ran' = ran /\ logged' = logged /\ retried' = retried /\ exited' = exited
      /\ workload_pointer' = workload_pointer /\ pc[t] \in {"loop", "get_op"}
      /\ pc' = [pc EXCEPT ![t] = pc'[t]] /\ pc'[t] \in {"get_op", "done", "loop", "fetch"}
  BY DEF RUN_CONDITION, get_op, At, Goto, IInv, TypeOK, Label
<1>2. \A u \in Thread : /\ u # t => pc'[u] = pc[u]
                        /\ Busy(u)' <=> Busy(u)
                        /\ Busy(u) => pc'[u] = pc[u]
  BY <1>1 DEF Busy
<1>3. \A n \in Entry : Ledger(n)'
  BY <1>1, <1>2 DEF TraceInv, Ledger, Busy
<1>4. \A u \in Thread : Holder(u)'
  BY <1>1, <1>2 DEF TraceInv, Holder, Busy
<1>5. write_op_executed' = Cardinality(logged)' + dry'
  <2>1. CASE RUN_CONDITION(t)
    BY <2>1 DEF RUN_CONDITION, TraceInv
  <2>2. CASE get_op(t)
    <3>1. IsFiniteSet(logged) /\ Cardinality(logged) \in Nat
      <4>1. IsFiniteSet(Entry) /\ logged \subseteq Entry
        BY FS_Interval, SizeAssumption DEF Entry, IInv, TypeOK
      <4> QED BY <4>1, FS_Subset, FS_CardinalityType
    <3> QED BY <1>1, <2>2, <3>1 DEF get_op, TraceInv
  <2> QED BY <2>1, <2>2
<1> QED BY <1>3, <1>4, <1>5 DEF TraceInv

\* Fetching hands out an entry nobody has touched.
LEMMA FetchTrace ==
  ASSUME IInv, TraceInv, NEW t \in Thread, Fetch(t)
  PROVE  TraceInv'
<1> DEFINE p == workload_pointer
<1>1. /\ pc \in [Thread -> Label] /\ op \in [Thread -> Nat] /\ p \in Nat /\ pc[t] = "fetch"
      /\ ran' = ran /\ logged' = logged /\ retried' = retried /\ exited' = exited /\ dry' = dry
      /\ write_op_executed' = write_op_executed /\ workload_pointer' = p + 1
      /\ op' = [op EXCEPT ![t] = p] /\ pc' = [pc EXCEPT ![t] = pc'[t]] /\ pc'[t] \in {"loop", "send"}
  BY DEF Fetch, At, Goto, IInv, TypeOK, Label
<1>2. /\ op'[t] = p /\ ~Busy(t)
      /\ \A u \in Thread \ {t} : pc'[u] = pc[u] /\ op'[u] = op[u] /\ (Busy(u)' <=> Busy(u))
  BY <1>1 DEF Busy
<1>3. p \in Entry /\ ran[p] = 0 /\ p \notin logged
  BY <1>1, RoomForIndex DEF TraceInv, Ledger
<1>4. \A n \in Entry : n \in Nat /\ ran[n] \in Nat
  BY SizeAssumption DEF Entry, IInv, TypeOK
<1>5. \A n \in Entry : Ledger(n)'
  <2> SUFFICES ASSUME NEW n \in Entry PROVE Ledger(n)'
    OBVIOUS
  <2>1. Ledger(n)
    BY DEF TraceInv
  <2>2. \A u \in Thread : pc[u] = "log" /\ op[u] = n => pc'[u] = "log" /\ op'[u] = n
    BY <1>1, <1>2
  <2>3. n >= p + 1 => n >= p
    BY <1>1, <1>4
  <2> QED BY <1>1, <2>1, <2>2, <2>3 DEF Ledger
<1>6. ASSUME NEW u \in Thread PROVE Holder(u)'
  <2>1. Holder(u) /\ \A w \in Thread : Busy(w) => op[w] < p /\ op[w] \in Nat
    BY <1>1 DEF TraceInv, Holder
  <2>2. CASE u = t
    <3>1. \A w \in Thread \ {t} : Busy(w)' => op'[w] # p
      BY <1>1, <1>2, <2>1
    <3> QED BY <1>1, <1>2, <1>3, <2>2, <3>1 DEF Holder, Busy
  <2>3. CASE u # t
    <3>1. Busy(u)' => op'[u] < p + 1 /\ op'[u] # p
      BY <1>1, <1>2, <2>1, <2>3
    <3> QED BY <1>1, <1>2, <2>1, <2>3, <3>1 DEF Holder, Busy
  <2> QED BY <2>2, <2>3
<1> QED BY <1>1, <1>5, <1>6 DEF TraceInv

\* Logging moves an executed entry from its thread to the trace.
LEMMA LogTrace ==
  ASSUME IInv, TraceInv, NEW t \in Thread, Log(t)
  PROVE  TraceInv'
<1> DEFINE n0 == op[t]
<1>1. /\ pc \in [Thread -> Label] /\ pc[t] = "log" /\ pc' = [pc EXCEPT ![t] = "loop"]
      /\ ran' = ran /\ logged' = logged \cup {n0} /\ retried' = retried /\ exited' = exited
      /\ dry' = dry /\ write_op_executed' = write_op_executed + 1 /\ op' = op
      /\ workload_pointer' = workload_pointer /\ dry \in Nat /\ workload_pointer \in Nat
  BY DEF Log, At, Goto, IInv, TypeOK, Label
<1>2. /\ ~Busy(t)' /\ Busy(t) /\ \A u \in Thread \ {t} : pc'[u] = pc[u] /\ (Busy(u)' <=> Busy(u))
  BY <1>1 DEF Busy
<1>3. n0 \in Entry /\ n0 < workload_pointer /\ n0 \notin logged /\ ran[n0] > 0
  BY <1>1, <1>2 DEF IInv, TraceInv, Holder
<1>4. \A n \in Entry : n \in Nat /\ ran[n] \in Nat
  BY SizeAssumption DEF Entry, IInv, TypeOK
<1>5. \A n \in Entry : Ledger(n)'
  <2> SUFFICES ASSUME NEW n \in Entry PROVE Ledger(n)'
    OBVIOUS
  <2>1. Ledger(n)
    BY DEF TraceInv
  <2>2. n # n0 => \A u \in Thread : pc[u] = "log" /\ op[u] = n => pc'[u] = "log" /\ op'[u] = n
    BY <1>1, <1>2
  <2>3. n >= workload_pointer => n # n0
    BY <1>1, <1>3, <1>4
  <2> QED BY <1>1, <1>3, <2>1, <2>2, <2>3 DEF Ledger
<1>6. \A u \in Thread : Holder(u)'
  <2> SUFFICES ASSUME NEW u \in Thread PROVE Holder(u)'
    OBVIOUS
  <2>1. Holder(u) /\ (u # t /\ Busy(u) => op[u] # n0)
    BY <1>2 DEF TraceInv, Holder
  <2>2. CASE u = t
    BY <1>1, <1>2, <2>2 DEF Holder, Busy
  <2>3. CASE u # t
    BY <1>1, <1>2, <2>1, <2>3 DEF Holder, Busy
  <2> QED BY <2>2, <2>3
<1>7. write_op_executed' = Cardinality(logged)' + dry'
  <2>1. IsFiniteSet(Entry) /\ logged \subseteq Entry
    BY FS_Interval, SizeAssumption DEF Entry, IInv, TypeOK
  <2>2. IsFiniteSet(logged) /\ Cardinality(logged) \in Nat
    BY <2>1, FS_Subset, FS_CardinalityType
  <2>3. Cardinality(logged \cup {n0}) = Cardinality(logged) + 1
    BY <1>3, <2>2, FS_AddElement
  <2>4. Cardinality(logged)' = Cardinality(logged) + 1
    BY <1>1, <2>3
  <2> QED BY <1>1, <2>2, <2>4 DEF TraceInv
<1> QED BY <1>5, <1>6, <1>7 DEF TraceInv

\* A request, its reply or the lack of one.  Whatever becomes of it, it concerns
\* only the entry the thread holds.
LEMMA SendTrace ==
  ASSUME IInv, TraceInv, NEW t \in Thread, NEW ok \in BOOLEAN, Replied(t, ok) \/ NoReply(t, ok)
  PROVE  TraceInv'
<1> DEFINE n0 == op[t]
<1>1. /\ pc \in [Thread -> Label] /\ pc[t] \in {"send", "retry"} /\ ~exited
      /\ op' = op /\ logged' = logged /\ dry' = dry /\ write_op_executed' = write_op_executed
      /\ workload_pointer' = workload_pointer /\ workload_pointer \in Nat
      /\ pc' = [pc EXCEPT ![t] = pc'[t]] /\ Serve(t, ok)
  BY DEF Replied, NoReply, At, Goto, IInv, TypeOK, Label
<1>2. /\ Busy(t) /\ \A u \in Thread \ {t} : pc'[u] = pc[u] /\ (Busy(u)' <=> Busy(u))
  BY <1>1 DEF Busy
<1>3. /\ n0 \in Entry /\ n0 < workload_pointer /\ n0 \notin logged
      /\ ran[n0] \in 0..1 /\ (ran[n0] = 1 => n0 \in retried)
      /\ pc[t] = "send" => ran[n0] = 0
      /\ pc[t] = "retry" => n0 \in retried
  <2>1. n0 \in Entry /\ Holder(t)
    BY <1>2 DEF IInv, TraceInv
  <2>2. ran[n0] \in Nat
    BY <2>1 DEF IInv, TypeOK
  <2> QED BY <1>1, <1>2, <2>1, <2>2 DEF Holder
<1>4. /\ ran'[n0] = (IF ok THEN ran[n0] + 1 ELSE ran[n0])
      /\ \A n \in Entry \ {n0} : ran'[n] = ran[n]
  BY <1>1, <1>3 DEF Serve, IInv, TypeOK
<1>5. \/ pc'[t] = "log" /\ ok /\ retried' = retried /\ ~exited'
      \/ pc'[t] = "loop" /\ ~ok /\ retried' = retried /\ ~exited'
      \/ pc[t] = "send" /\ pc'[t] = "retry" /\ retried' = retried \cup {n0} /\ ~exited'
      \/ pc'[t] = pc[t] /\ retried' = retried /\ exited'
  <2>1. CASE Replied(t, ok)
    BY <1>1, <2>1 DEF Replied, Goto
  <2>2. CASE NoReply(t, ok)
    BY <1>1, <2>2 DEF NoReply, Goto, At
  <2> QED BY <2>1, <2>2
<1>6. \A n \in Entry : n \in Nat /\ ran[n] \in Nat
  BY SizeAssumption DEF Entry, IInv, TypeOK
<1>7. \A n \in Entry : Ledger(n)'
  <2> SUFFICES ASSUME NEW n \in Entry PROVE Ledger(n)'
    OBVIOUS
  <2>1. Ledger(n)
    BY DEF TraceInv
  <2>2. \A u \in Thread : pc[u] = "log" /\ op[u] = n => pc'[u] = "log" /\ op'[u] = n
    BY <1>1, <1>2
  <2>3. CASE n # n0
    <3>1. ran'[n] = ran[n] /\ (n \in retried => n \in retried') /\ (exited => exited')
      BY <1>1, <1>4, <1>5, <2>3
    <3> QED BY <1>1, <2>1, <2>2, <3>1 DEF Ledger
  <2>4. CASE n = n0
    <3>1. /\ ran'[n] \in 0..2 /\ n < workload_pointer /\ n \notin logged
          /\ n \in retried => n \in retried'
      BY <1>3, <1>4, <1>5, <2>4
    <3>2. ran'[n] = 2 => n \in retried'
      BY <1>3, <1>4, <3>1, <2>4
    <3>3. ran'[n] > 0 =>
            (\E u \in Thread : pc'[u] = "log" /\ op'[u] = n) \/ n \in retried' \/ exited'
      <4>1. CASE ok
        BY <1>1, <1>3, <1>5, <2>4, <3>1, <4>1
      <4>2. CASE ~ok
        BY <1>3, <1>4, <2>4, <3>1, <4>2
      <4> QED BY <4>1, <4>2
    <3>4. ~(n >= workload_pointer)
      BY <1>1, <1>6, <3>1
    <3> QED BY <1>1, <3>1, <3>2, <3>3, <3>4 DEF Ledger
  <2> QED BY <2>3, <2>4
<1>8. \A u \in Thread : Holder(u)'
  <2> SUFFICES ASSUME NEW u \in Thread PROVE Holder(u)'
    OBVIOUS
  <2>1. Holder(u) /\ Holder(t)
    BY DEF TraceInv
  <2>2. CASE u = t
    <3>1. \A w \in Thread \ {t} : Busy(t)' /\ Busy(w)' => op'[w] # op'[t]
      BY <1>1, <1>2, <2>1 DEF Holder
    <3>2. pc'[t] = "log" => ran'[n0] > 0
      BY <1>1, <1>3, <1>4, <1>5
    <3>3. pc'[t] = "retry" => n0 \in retried' /\ (~exited' => ran'[n0] <= 1)
      BY <1>1, <1>3, <1>4, <1>5
    <3>4. pc'[t] = "send" => exited'
      BY <1>1, <1>5
    <3> QED BY <1>1, <1>3, <2>2, <3>1, <3>2, <3>3, <3>4 DEF Holder
  <2>3. CASE u # t
    <3>1. /\ pc'[u] = pc[u] /\ op'[u] = op[u] /\ (Busy(u)' <=> Busy(u))
          /\ (op[u] \in retried => op[u] \in retried') /\ (~exited' => ~exited)
      BY <1>1, <1>2, <1>5, <2>3
    <3>2. Busy(u) => op[u] \in Entry /\ op[u] # n0
      BY <1>2, <2>1, <2>3 DEF IInv, Holder
    <3>3. Busy(u) => ran'[op[u]] = ran[op[u]]
      BY <1>4, <3>2
    <3>4. \A w \in Thread \ {u} : Busy(u) /\ Busy(w)' => op'[w] # op'[u]
      BY <1>1, <1>2, <2>1, <2>3, <3>2 DEF Holder
    <3> QED BY <1>1, <2>1, <3>1, <3>2, <3>3, <3>4 DEF Holder, Busy
  <2> QED BY <2>2, <2>3
<1> QED BY <1>1, <1>7, <1>8 DEF TraceInv

\* Every step keeps the trace and the servers together.
THEOREM TraceInvariance == Spec => []TraceInv
<1>1. IInv /\ TraceInv /\ [Next]_vars => TraceInv'
  <2> SUFFICES ASSUME IInv, TraceInv, [Next]_vars PROVE TraceInv'
    OBVIOUS
  <2>1. CASE Next
    BY <2>1, BeforeTrace, FetchTrace, LogTrace, SendTrace DEF Next, Step
  <2>2. CASE UNCHANGED vars
    BY <2>2 DEF vars, TraceInv, Ledger, Holder, Busy
  <2> QED BY <2>1, <2>2
<1> QED BY <1>1, InitTraceInv, WorkloadInvariance, PTL DEF Spec

\* get_op hands an entry to one thread only, and to one that finds it unexecuted.
THEOREM NoEntryTwice == Spec => []HandedOutOnce
<1>1. TraceInv => HandedOutOnce
  BY DEF TraceInv, Holder, HandedOutOnce, At, Busy
<1> QED BY <1>1, TraceInvariance, PTL

\* The trace is what the servers executed, up to the entries whose reply was lost,
\* and the printed count is its size plus the calls on a used-up workload.
THEOREM TraceIsFaithful == Spec => []TraceIsWhatRan
<1>1. TraceInv => TraceIsWhatRan
  <2> SUFFICES ASSUME TraceInv, NEW n \in Entry
               PROVE  LET logging == \E t \in Thread : pc[t] = "log" /\ op[t] = n
                      IN  /\ n \in logged \/ logging => ran[n] \in 1..2
                          /\ ran[n] > 0 /\ n \notin logged /\ ~logging => n \in retried \/ exited
                          /\ ran[n] = 2 => n \in retried
    BY DEF TraceInv, TraceIsWhatRan
  <2>1. Ledger(n) /\ \A t \in Thread : Holder(t)
    BY DEF TraceInv
  <2> QED BY <2>1 DEF Ledger, Holder
<1> QED BY <1>1, TraceInvariance, PTL
=============================================================================
