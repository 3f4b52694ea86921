------------------------------ MODULE Workload ------------------------------
(***************************************************************************)
(* The benchmark client (experiment/bench): exp_runner starts one thread   *)
(* per server; the threads share the generator's workload, its pointer and *)
(* its count of operations (util.h), and each runs the operations it is    *)
(* handed on its own server (exec_op of the generators) over a connection  *)
(* that redis_client reopens once when a reply does not come.              *)
(*                                                                         *)
(* The workload is entries 0..Size-1, the first Dummies of them dummies.   *)
(* ran[n] counts the times a server executed entry n, logged holds the     *)
(* entries in the trace; lost counts the replies that did not come, and    *)
(* retried and dry are history variables: the entries sent twice, and the  *)
(* calls of get_op that found the workload used up.                        *)
(***************************************************************************)
EXTENDS Integers, FiniteSets

CONSTANTS
  Thread, Size, Dummies,
  total_ops,   \* exp_setting::total_ops
  MaxLost      \* bound: replies that do not come

\* exp_env(3, 1, 1, 1) and THREAD_PER_SERVER = 1; init() puts the dummies first.
ASSUME ThreadAssumption == IsFiniteSet(Thread) /\ Cardinality(Thread) \in 1..3
ASSUME SizeAssumption == Size \in Nat /\ Dummies \in 2..Size /\ total_ops \in Nat \ {0}

Entry == 0..Size-1

VARIABLES workload_pointer, write_op_executed, pc, op, ran, logged, lost, exited,
          retried, dry

vars == <<workload_pointer, write_op_executed, pc, op, ran, logged, lost, exited,
          retried, dry>>

Init ==
  /\ workload_pointer = 0
  /\ write_op_executed = 0
  /\ pc = [t \in Thread |-> "loop"]
  /\ op = [t \in Thread |-> 0]
  /\ ran = [n \in Entry |-> 0]
  /\ logged = {}
  /\ lost = 0
  /\ exited = FALSE
  /\ retried = {}
  /\ dry = 0

At(t, l) == ~exited /\ pc[t] = l
Goto(t, l) == pc' = [pc EXCEPT ![t] = l]

\* RUN_CONDITION, read without a lock, before each operation.
RUN_CONDITION(t) ==
  /\ At(t, "loop")
  /\ Goto(t, IF write_op_executed < total_ops THEN "get_op" ELSE "done")
  /\ UNCHANGED <<workload_pointer, write_op_executed, op, ran, logged, lost, exited, retried, dry>>

\* Mutant of get_op: a workload that is used up is not counted.
get_op_uncounted(t) ==
  /\ At(t, "get_op")
  /\ IF workload_pointer >= Size - 2
     THEN dry' = dry /\ UNCHANGED write_op_executed /\ Goto(t, "loop")
     ELSE Goto(t, "fetch") /\ UNCHANGED <<write_op_executed, dry>>
  /\ UNCHANGED <<workload_pointer, op, ran, logged, lost, exited, retried>>

\* Mutant of get_op: the test leaves no slack.
get_op_no_slack(t) ==
  /\ At(t, "get_op")
  /\ IF workload_pointer >= Size - 1
     THEN /\ write_op_executed' = write_op_executed + 1 /\ dry' = dry + 1
          /\ Goto(t, "loop")
     ELSE Goto(t, "fetch") /\ UNCHANGED <<write_op_executed, dry>>
  /\ UNCHANGED <<workload_pointer, op, ran, logged, lost, exited, retried>>

\* get_op, up to its test of the pointer.
get_op(t) ==
  /\ At(t, "get_op")
  /\ IF workload_pointer >= Size - 2
     THEN /\ write_op_executed' = write_op_executed + 1 /\ dry' = dry + 1
          /\ Goto(t, "loop")
     ELSE Goto(t, "fetch") /\ UNCHANGED <<write_op_executed, dry>>
  /\ UNCHANGED <<workload_pointer, op, ran, logged, lost, exited, retried>>

\* Mutant of Fetch: the threads share an entry at the end of the workload.
Fetch_clamped(t) ==
  /\ At(t, "fetch")
  /\ op' = [op EXCEPT ![t] = workload_pointer]
  /\ workload_pointer' = IF workload_pointer < Size - 2 THEN workload_pointer + 1
                         ELSE workload_pointer
  /\ Goto(t, IF workload_pointer < Dummies THEN "loop" ELSE "send")
  /\ UNCHANGED <<write_op_executed, ran, logged, lost, exited, retried, dry>>

\* workload[workload_pointer++]; exec_op returns at once on a dummy.
Fetch(t) ==
  /\ At(t, "fetch")
  /\ op' = [op EXCEPT ![t] = workload_pointer]
  /\ workload_pointer' = workload_pointer + 1
  /\ Goto(t, IF workload_pointer < Dummies THEN "loop" ELSE "send")
  /\ UNCHANGED <<write_op_executed, ran, logged, lost, exited, retried, dry>>

\* redisCommand: the server executes the command or refuses it.
Serve(t, ok) == ran' = IF ok THEN [ran EXCEPT ![op[t]] = @ + 1] ELSE ran

\* Mutant of Replied: an error reply is logged like any other.
Replied_errors(t, ok) ==
  /\ At(t, "send") \/ At(t, "retry")
  /\ Serve(t, ok)
  /\ Goto(t, "log")
  /\ UNCHANGED <<workload_pointer, write_op_executed, op, logged, lost, exited, retried, dry>>

\* The reply arrives; an error reply (type 6) is neither counted nor logged.
Replied(t, ok) ==
  /\ At(t, "send") \/ At(t, "retry")
  /\ Serve(t, ok)
  /\ Goto(t, IF ok THEN "log" ELSE "loop")
  /\ UNCHANGED <<workload_pointer, write_op_executed, op, logged, lost, exited, retried, dry>>

\* No reply comes, whether or not the server had executed the command: the first
\* time the client reconnects and sends it again; if it cannot, or the second
\* time (reply_error), the program exits.
NoReply(t, ok) ==
  /\ lost < MaxLost /\ lost' = lost + 1
  /\ Serve(t, ok)
  /\ \/ At(t, "send") /\ Goto(t, "retry") /\ retried' = retried \cup {op[t]} /\ UNCHANGED exited
     \/ (At(t, "send") \/ At(t, "retry")) /\ exited' = TRUE /\ UNCHANGED <<pc, retried>>
  /\ UNCHANGED <<workload_pointer, write_op_executed, op, logged, dry>>

\* The end of exec_op, and trace->insert.
Log(t) ==
  /\ At(t, "log")
  /\ write_op_executed' = write_op_executed + 1
  /\ logged' = logged \cup {op[t]}
  /\ Goto(t, "loop")
  /\ UNCHANGED <<workload_pointer, op, ran, lost, exited, retried, dry>>

Step(t) ==
  \/ RUN_CONDITION(t) \/ get_op(t) \/ Fetch(t) \/ Log(t)
  \/ \E ok \in BOOLEAN : Replied(t, ok) \/ NoReply(t, ok)

Next == \E t \in Thread : Step(t)

Spec == Init /\ [][Next]_vars

\* The operating system runs every thread, and a request is answered or fails.
FairSpec == Spec /\ \A t \in Thread : WF_vars(Step(t))
-----------------------------------------------------------------------------
TypeOK ==
  /\ workload_pointer \in Nat
  /\ write_op_executed \in Nat
  /\ pc \in [Thread -> {"loop", "get_op", "fetch", "send", "retry", "log", "done"}]
  /\ op \in [Thread -> Nat]
  /\ ran \in [Entry -> Nat]
  /\ logged \subseteq Entry
  /\ retried \subseteq Entry
  /\ dry \in Nat
  /\ exited \in BOOLEAN

\* get_op tests the pointer and increments it in two steps, so that threads can
\* take it past the limit it was tested against; the 2 entries of slack are
\* exactly enough for the three threads never to index past the workload.
IndexInBounds ==
  \A t \in Thread : pc[t] = "fetch" => workload_pointer < Size

\* The threads notice that the experiment is over only before an operation: the
\* count passes total_ops, but by less than the number of threads.
BoundedOvershoot ==
  write_op_executed <= total_ops + Cardinality(Thread) - 1

Busy(t) == pc[t] \in {"send", "retry", "log"}

\* An entry is handed to one thread, so that it goes to one server; a thread that
\* sends it for the first time finds it has not been executed.
HandedOutOnce ==
  \A t \in Thread :
    At(t, "send") => /\ ran[op[t]] = 0
                     /\ \A u \in Thread \ {t} : Busy(u) => op[u] # op[t]

\* The trace is what the servers executed, entry by entry, except for entries
\* whose reply was lost: those may have been executed without being in the
\* trace, or twice; and no entry is in the trace that was not executed.  The
\* count printed as "operations actually executed on redis" (exp_runner.h) is the
\* size of the trace, plus the calls of get_op on a used-up workload.
TraceIsWhatRan ==
  /\ \A n \in Entry :
       LET logging == \E t \in Thread : pc[t] = "log" /\ op[t] = n
       IN  /\ n \in logged \/ logging => ran[n] \in 1..2
           /\ ran[n] > 0 /\ n \notin logged /\ ~logging => n \in retried \/ exited
           /\ ran[n] = 2 => n \in retried
  /\ write_op_executed = Cardinality(logged) + dry

\* Every thread ends, also when the servers refuse so many operations that the
\* workload is used up before total_ops of them have been executed.
Termination == <>(exited \/ \A t \in Thread : pc[t] = "done")
=============================================================================
