----------------------------- MODULE VectorClock -----------------------------
(***************************************************************************)
(* vector_clock.c and vector_clock.h.  A clock is a record of a vector,    *)
(* one entry per server, and the id of the server that owns or stamped it. *)
(* All the servers are configured with the same p2p_count, so the size is  *)
(* the same everywhere and vc_cmp's size check never fires; P2P.tla says   *)
(* which set-up this assumes.                                              *)
(***************************************************************************)
EXTENDS Integers

CONSTANT N      \* server.p2p_count

ASSUME NAssumption == N \in Nat \ {0}

Server == 0..(N - 1)

Vector == [Server -> Nat]

VC == [vector : Vector, id : Server]

vc_new(id) == [vector |-> [j \in Server |-> 0], id |-> id]

vc_equal(c1, c2) == c1.vector = c2.vector

\* Mutant of vc_update: the target is overwritten, not merged.
vc_update_overwrite(tar, m) == [tar EXCEPT !.vector = m.vector]

\* Entrywise maximum; the target keeps its id.
vc_update(tar, m) ==
  [tar EXCEPT !.vector =
     [j \in Server |-> IF m.vector[j] > @[j] THEN m.vector[j] ELSE @[j]]]

\* The stamp of the owner's next operation.  The clock itself is unchanged.
vc_now(c) == [c EXCEPT !.vector[c.id] = @ + 1]

\* Mutant of vc_causally_ready: only the sender's own order is respected.
vc_causally_ready_fifo(current, next) ==
  next.vector[next.id] = current.vector[next.id] + 1

vc_causally_ready(current, next) ==
  /\ \A j \in Server \ {next.id} : next.vector[j] <= current.vector[j]
  /\ next.vector[next.id] = current.vector[next.id] + 1

VC_LESS      == -2
VC_C_LESS    == -1
VC_CMP_ERR   == 0
VC_C_GREATER == 1
VC_GREATER   == 2

\* Incomparable vectors are ordered by id.  With equal ids the scan falls
\* through and the first differing entry decides, as if they were ordered.
vc_cmp(c1, c2) ==
  LET v1 == c1.vector
      v2 == c2.vector
      Differ == {j \in Server : v1[j] # v2[j]}
      first == CHOOSE j \in Differ : \A k \in Differ : j <= k
      Concurrent == /\ \E j \in Server : v1[j] < v2[j]
                    /\ \E j \in Server : v1[j] > v2[j]
      ById == IF c1.id > c2.id THEN VC_C_GREATER ELSE VC_C_LESS
  IN  IF Differ = {}
      THEN IF c1.id = c2.id THEN VC_CMP_ERR ELSE ById
      ELSE IF Concurrent /\ c1.id # c2.id THEN ById
      ELSE IF v1[first] > v2[first] THEN VC_GREATER ELSE VC_LESS
=============================================================================
