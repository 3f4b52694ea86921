---------------------------- MODULE RWFSetProofs ----------------------------
(***************************************************************************)
(* Proofs about RWFSet for every number of servers and of operations.      *)
(*                                                                         *)
(* The argument: the header of an element is a function of the SET of the  *)
(* commands the server has executed, whatever their order.  Summarises     *)
(* says which function; every effect phase keeps it true when its command  *)
(* joins the set, and two headers that summarise the same set are equal.   *)
(***************************************************************************)
EXTENDS RWFSet, P2PProofs

CurrentAdds(M, h) == {m \in M : m.op = "add" /\ m.t.vector = h.current.vector}

\* The vector of h is the least upper bound of the vectors of M, and its pid is
\* the greatest id among the adds of M that carry exactly this vector.
Summarises(M, h) ==
  /\ \A m \in M, j \in Server : m.t.vector[j] <= h.current.vector[j]
  /\ \A j \in Server : \/ h.current.vector[j] = 0
                       \/ \E m \in M : m.t.vector[j] = h.current.vector[j]
  /\ \A m \in CurrentAdds(M, h) : m.t.id <= h.pid
  /\ h.pid # PID_NEXIST => \E m \in CurrentAdds(M, h) : m.t.id = h.pid

\* The inductive invariant of RWFSet: each header summarises what was executed.
Inv ==
  /\ TypeOK
  /\ Streams
  /\ \A r \in Server : Summarises(Msgs(r), e[r])
  /\ ZsetAgrees
-----------------------------------------------------------------------------
(* Lemmas about headers.                                                   *)

\* vc_update computes the entrywise maximum and stays a clock.
LEMMA VcUpdate ==
  ASSUME NEW c \in VC, NEW t \in VC
  PROVE  /\ vc_update(c, t) \in VC
         /\ \A j \in Server : vc_update(c, t).vector[j] =
              IF t.vector[j] > c.vector[j] THEN t.vector[j] ELSE c.vector[j]
  BY DEF vc_update, VC, Vector

\* vc_now stays a clock.
LEMMA VcNow == ASSUME NEW c \in VC PROVE vc_now(c) \in VC
  BY DEF vc_now, VC, Vector

\* The pid of a header compares with server ids as an integer.
LEMMA PidInt == ASSUME NEW h \in REH PROVE h.pid \in Int /\ h.current \in VC
  BY NAssumption DEF REH, Server, PID_NEXIST, PID_WAIT_INNATE

\* removeFunc keeps the header a summary when a command that is not an add joins
\* the executed ones.
LEMMA RemoveSummary ==
  ASSUME NEW M \in SUBSET Command, NEW m \in Command, m.op # "add",
         NEW h \in REH, Summarises(M, h)
  PROVE  /\ afterRemove(h, m.t) \in REH
         /\ Summarises(M \cup {m}, afterRemove(h, m.t))
<1> DEFINE g == afterRemove(h, m.t)
<1>1. m.t \in VC /\ h.current \in VC /\ \A x \in M : x.t \in VC
  BY PidInt DEF Command
<1>2. CASE removeCheck(h, m.t)
  <2>1. g = [pid |-> PID_NEXIST, current |-> vc_update(h.current, m.t)]
    BY <1>2 DEF afterRemove, REH_RMV_FUNC
  <2>2. g \in REH /\ g.pid = PID_NEXIST
    BY <1>1, <2>1, VcUpdate DEF REH
  <2>3. \A j \in Server : g.current.vector[j] =
          IF m.t.vector[j] > h.current.vector[j] THEN m.t.vector[j] ELSE h.current.vector[j]
    BY <1>1, <2>1, VcUpdate
  <2>4. \A x \in M \cup {m}, j \in Server : x.t.vector[j] <= g.current.vector[j]
    BY <1>1, <2>3 DEF Summarises, VC, Vector
  <2>5. \A j \in Server : \/ g.current.vector[j] = 0
                          \/ \E x \in M \cup {m} : x.t.vector[j] = g.current.vector[j]
    BY <2>3 DEF Summarises
  <2>6. CurrentAdds(M \cup {m}, g) = {}
    <3>1. PICK j \in Server : h.current.vector[j] < m.t.vector[j]
      BY <1>2 DEF removeCheck
    <3>2. \A x \in M : x.t.vector[j] # g.current.vector[j]
      BY <1>1, <2>3, <3>1 DEF Summarises, VC, Vector
    <3> QED BY <3>2 DEF CurrentAdds
  <2> QED BY <2>2, <2>4, <2>5, <2>6 DEF Summarises
<1>3. CASE ~removeCheck(h, m.t)
  <2>1. g = h
    BY <1>3 DEF afterRemove
  <2>2. \A j \in Server : m.t.vector[j] <= h.current.vector[j]
    BY <1>1, <1>3 DEF removeCheck, VC, Vector
  <2>3. CurrentAdds(M \cup {m}, h) = CurrentAdds(M, h)
    BY DEF CurrentAdds
  <2> QED BY <2>1, <2>2, <2>3 DEF Summarises
<1> QED BY <1>2, <1>3

\* The header an add leaves behind.
afterAdd(h, t) ==
  LET g == afterRemove(h, t) IN IF addCheck(g, t) THEN addHeader(g, t) ELSE g

\* The effect phase of an add keeps the header a summary.
LEMMA AddSummary ==
  ASSUME NEW M \in SUBSET Command, NEW m \in Command, m.op = "add",
         NEW h \in REH, Summarises(M, h)
  PROVE  /\ afterAdd(h, m.t) \in REH
         /\ Summarises(M \cup {m}, afterAdd(h, m.t))
<1> DEFINE g == afterRemove(h, m.t)
           k == afterAdd(h, m.t)
           q == [op |-> "rem", t |-> m.t]
<1>1. q \in Command /\ q.op # "add" /\ q.t = m.t /\ m.t \in VC
  BY DEF Command
<1>2. g \in REH /\ Summarises(M \cup {q}, g)
  BY <1>1, RemoveSummary
<1>3. g.pid \in Int /\ g.current \in VC /\ m.t.id \in Int /\ \A x \in M : x.t.id \in Int
  BY <1>1, <1>2, PidInt DEF Command, VC, Server
<1>4. CurrentAdds(M \cup {q}, g) = CurrentAdds(M, g)
  BY <1>1 DEF CurrentAdds
<1>5. /\ \A x \in M \cup {m}, j \in Server : x.t.vector[j] <= g.current.vector[j]
      /\ \A j \in Server : \/ g.current.vector[j] = 0
                           \/ \E x \in M \cup {m} : x.t.vector[j] = g.current.vector[j]
  BY <1>1, <1>2 DEF Summarises
<1>6. CASE addCheck(g, m.t)
  <2>1. k = [g EXCEPT !.pid = m.t.id] /\ m.t.vector = g.current.vector /\ g.pid < m.t.id
    BY <1>6 DEF afterAdd, addHeader, addCheck, vc_equal
  <2>2. k \in REH /\ k.pid = m.t.id /\ k.current = g.current
    BY <1>1, <1>2, <2>1 DEF REH, VC
  <2>3. CurrentAdds(M \cup {m}, k) = CurrentAdds(M, g) \cup {m}
    BY <2>1, <2>2 DEF CurrentAdds
  <2>4. \A x \in CurrentAdds(M, g) : x.t.id <= g.pid
    BY <1>2, <1>4 DEF Summarises
  <2>5. \A x \in CurrentAdds(M \cup {m}, k) : x.t.id <= k.pid
    BY <1>3, <2>1, <2>2, <2>3, <2>4 DEF CurrentAdds
  <2> QED BY <1>5, <2>2, <2>3, <2>5 DEF Summarises
<1>7. CASE ~addCheck(g, m.t)
  <2>1. k = g
    BY <1>7 DEF afterAdd
  <2>2. m.t.vector = g.current.vector => m.t.id <= g.pid
    BY <1>3, <1>7 DEF addCheck, vc_equal
  <2>3. \A x \in CurrentAdds(M \cup {m}, g) : x \in CurrentAdds(M, g) \/ x.t.id <= g.pid
    BY <2>2 DEF CurrentAdds
  <2>4. \A x \in CurrentAdds(M \cup {m}, g) : x.t.id <= g.pid
    BY <1>2, <1>4, <2>3 DEF Summarises
  <2>5. CurrentAdds(M, g) \subseteq CurrentAdds(M \cup {m}, g)
    BY DEF CurrentAdds
  <2> QED BY <1>2, <1>4, <1>5, <2>1, <2>4, <2>5 DEF Summarises
<1> QED BY <1>6, <1>7

\* Two headers that summarise the same commands agree: this is where the order
\* of execution drops out.
LEMMA UniqueSummary ==
  ASSUME NEW M \in SUBSET Command, NEW g \in REH, NEW h \in REH,
         Summarises(M, g), Summarises(M, h)
  PROVE  g.current.vector = h.current.vector /\ g.pid = h.pid
<1>1. /\ \A x \in M : x.t.vector \in Vector /\ x.t.id \in Server
      /\ g.current.vector \in Vector /\ h.current.vector \in Vector
      /\ g.pid \in Int /\ h.pid \in Int
  BY PidInt DEF Command, VC
<1>2. \A j \in Server : g.current.vector[j] <= h.current.vector[j]
  BY <1>1 DEF Summarises, Vector
<1>3. \A j \in Server : h.current.vector[j] <= g.current.vector[j]
  BY <1>1 DEF Summarises, Vector
<1>4. g.current.vector = h.current.vector
  <2>1. \A j \in Server : g.current.vector[j] = h.current.vector[j]
    BY <1>1, <1>2, <1>3 DEF Vector
  <2> QED BY <1>1, <2>1 DEF Vector
<1>5. CurrentAdds(M, g) = CurrentAdds(M, h)
  BY <1>4 DEF CurrentAdds
<1>6. \A x \in CurrentAdds(M, g) : x.t.id \in Int /\ x.t.id >= 0
  BY <1>1, NAssumption DEF CurrentAdds, Server
<1>7. g.pid = h.pid
  <2> DEFINE A == CurrentAdds(M, g)
  <2>1. /\ \A x \in A : x.t.id <= g.pid /\ x.t.id <= h.pid
        /\ g.pid # -1 => \E x \in A : x.t.id = g.pid
        /\ h.pid # -1 => \E x \in A : x.t.id = h.pid
    BY <1>5 DEF Summarises, PID_NEXIST
  <2> HIDE DEF A
  <2>2. \A x \in A : x.t.id \in Int /\ x.t.id >= 0
    BY <1>6 DEF A
  <2> QED BY <1>1, <2>1, <2>2
<1> QED BY <1>4, <1>7

\* The effect phase of any command, wherever it runs, keeps the invariant of the
\* server it runs at and touches no other server.
LEMMA EffectStep ==
  ASSUME e \in [Server -> REH], zset \in [Server -> BOOLEAN],
         NEW r \in Server, NEW m \in Command, NEW M \in SUBSET Command,
         Summarises(M, e[r]), zset[r] <=> EXISTS(e[r]), Effect(r, m)
  PROVE  /\ e' \in [Server -> REH] /\ zset' \in [Server -> BOOLEAN]
         /\ Summarises(M \cup {m}, e'[r])
         /\ zset'[r] <=> EXISTS(e'[r])
         /\ \A s \in Server \ {r} : e'[s] = e[s] /\ zset'[s] = zset[s]
<1>1. CASE m.op = "add" /\ rwfsaddEffect(r, m.t)
  <2> DEFINE g == afterRemove(e[r], m.t)
  <2>1. /\ e' = [e EXCEPT ![r] = afterAdd(e[r], m.t)]
        /\ zset' = [zset EXCEPT ![r] = addCheck(g, m.t) \/ (zset[r] /\ ~removeCheck(e[r], m.t))]
    BY <1>1 DEF rwfsaddEffect, afterAdd
  <2>2. afterAdd(e[r], m.t) \in REH /\ Summarises(M \cup {m}, afterAdd(e[r], m.t))
    BY <1>1, AddSummary
  <2>3. EXISTS(afterAdd(e[r], m.t)) <=>
          addCheck(g, m.t) \/ (EXISTS(e[r]) /\ ~removeCheck(e[r], m.t))
    <3>1. m.t.id \in Server /\ m.t.id # PID_NEXIST
      BY NAssumption DEF Command, VC, Server, PID_NEXIST
    <3>2. g = IF removeCheck(e[r], m.t) THEN REH_RMV_FUNC(e[r], m.t) ELSE e[r]
      BY DEF afterRemove
    <3>3. g \in REH
      <4>1. m.t \in VC /\ e[r].current \in VC
        BY PidInt DEF Command
      <4> QED BY <3>2, <4>1, VcUpdate DEF REH, REH_RMV_FUNC
    <3>4. CASE addCheck(g, m.t)
      <4>1. afterAdd(e[r], m.t) = [g EXCEPT !.pid = m.t.id]
        BY <3>4 DEF afterAdd, addHeader
      <4>2. afterAdd(e[r], m.t).pid = m.t.id
        BY <3>3, <4>1 DEF REH
      <4> QED BY <3>1, <3>4, <4>2 DEF EXISTS
    <3>5. CASE ~addCheck(g, m.t)
      <4>1. afterAdd(e[r], m.t) = g
        BY <3>5 DEF afterAdd
      <4>2. EXISTS(g) <=> EXISTS(e[r]) /\ ~removeCheck(e[r], m.t)
        BY <3>2 DEF EXISTS, REH_RMV_FUNC
      <4> QED BY <3>5, <4>1, <4>2
    <3> QED BY <3>4, <3>5
  <2> QED BY <2>1, <2>2, <2>3
<1>2. CASE m.op = "rem" /\ rwfsremEffect(r, m.t)
  <2>1. /\ e' = [e EXCEPT ![r] = afterRemove(e[r], m.t)]
        /\ zset' = [zset EXCEPT ![r] = zset[r] /\ ~removeCheck(e[r], m.t)]
    BY <1>2 DEF rwfsremEffect
  <2>2. afterRemove(e[r], m.t) \in REH /\ Summarises(M \cup {m}, afterRemove(e[r], m.t))
    BY <1>2, RemoveSummary
  <2>3. EXISTS(afterRemove(e[r], m.t)) <=> EXISTS(e[r]) /\ ~removeCheck(e[r], m.t)
    BY DEF EXISTS, afterRemove, REH_RMV_FUNC
  <2> QED BY <2>1, <2>2, <2>3
<1> QED BY <1>1, <1>2 DEF Effect
-----------------------------------------------------------------------------
(* The invariant.                                                          *)

\* TypeOK in terms of the lemmas about streams.
LEMMA TypeSplit ==
  TypeOK <=> /\ e \in [Server -> REH] /\ zset \in [Server -> BOOLEAN]
             /\ P2PType(Command)
  BY DEF TypeOK, P2PType

\* The invariant holds when the servers start.
LEMMA InitInv == Init => Inv
<1> SUFFICES ASSUME Init PROVE Inv
  OBVIOUS
<1>1. \A i \in Server : /\ e[i] \in REH /\ zset[i] = FALSE
                        /\ e[i].pid = PID_NEXIST
                        /\ \A j \in Server : e[i].current.vector[j] = 0
  BY DEF Init, REH_INIT, REH, VC, Vector, vc_new, PID_NEXIST
<1>2. P2PType(Command) /\ Streams
  BY DEF Init, P2PInit, P2PType, Streams, Vector
<1>3. \A r \in Server : Msgs(r) = {}
  BY InCollect DEF Init, P2PInit, Msgs
<1>4. \A r \in Server : Summarises(Msgs(r), e[r])
  BY <1>1, <1>3 DEF Summarises, CurrentAdds
<1>5. ZsetAgrees
  BY <1>1 DEF ZsetAgrees, EXISTS
<1>6. e \in [Server -> REH] /\ zset \in [Server -> BOOLEAN]
  BY <1>1 DEF Init
<1> QED BY <1>2, <1>4, <1>5, <1>6, TypeSplit DEF Inv

\* Executing a command at r, by whichever step, keeps the invariant.
LEMMA ExecuteInv ==
  ASSUME Inv, NEW r \in Server, NEW m \in Command, Effect(r, m),
         P2PType(Command)', Streams', Msgs(r)' = Msgs(r) \cup {m},
         \A s \in Server \ {r} : Msgs(s)' = Msgs(s)
  PROVE  Inv'
<1>1. e \in [Server -> REH] /\ zset \in [Server -> BOOLEAN] /\ P2PType(Command) /\ Streams
  BY TypeSplit DEF Inv
<1>2. Msgs(r) \in SUBSET Command
  BY <1>1, MsgsType
<1>3. /\ e' \in [Server -> REH] /\ zset' \in [Server -> BOOLEAN]
      /\ Summarises(Msgs(r) \cup {m}, e'[r])
      /\ zset'[r] <=> EXISTS(e'[r])
      /\ \A s \in Server \ {r} : e'[s] = e[s] /\ zset'[s] = zset[s]
  BY <1>1, <1>2, EffectStep DEF Inv, ZsetAgrees
<1>4. \A s \in Server : Summarises(Msgs(s)', e'[s])
  BY <1>3 DEF Inv
<1>5. ZsetAgrees'
  BY <1>3 DEF Inv, ZsetAgrees
<1>6. TypeOK'
  BY <1>3 DEF TypeOK, P2PType
<1>7. (\A s \in Server : Summarises(Msgs(s), e[s]))'
  BY <1>4 DEF Summarises, CurrentAdds
<1> QED BY <1>5, <1>6, <1>7 DEF Inv

\* Every step keeps the invariant.
LEMMA NextInv == Inv /\ [Next]_vars => Inv'
<1> SUFFICES ASSUME Inv, [Next]_vars PROVE Inv'
  OBVIOUS
<1>1. e \in [Server -> REH] /\ P2PType(Command) /\ Streams
  BY TypeSplit DEF Inv
<1>2. \A i \in Server : e[i].current \in VC /\ vc_now(e[i].current) \in VC
  BY <1>1, VcNow, PidInt
<1>3. ASSUME NEW i \in Server, rwfsaddCommand(i) PROVE Inv'
  <2> DEFINE m == [op |-> "add", t |-> e[i].current]
  <2>1. m \in Command /\ Effect(i, m) /\ replicationBroadcast(i, m)
    BY <1>2, <1>3 DEF rwfsaddCommand, Command
  <2> HIDE DEF m
  <2> QED BY <1>1, <2>1, BroadcastMsgs, ExecuteInv
<1>4. ASSUME NEW i \in Server, rwfsremCommand(i) PROVE Inv'
  <2> DEFINE m == [op |-> "rem", t |-> vc_now(e[i].current)]
  <2>1. m \in Command /\ Effect(i, m) /\ replicationBroadcast(i, m)
    BY <1>2, <1>4 DEF rwfsremCommand, Command
  <2> HIDE DEF m
  <2> QED BY <1>1, <2>1, BroadcastMsgs, ExecuteInv
<1>5. ASSUME NEW i \in Server, NEW j \in Server, Deliver(i, j) PROVE Inv'
  <2>1. InFlight(i, j) /\ Effect(j, NextCmd(i, j)) /\ ReadFromReplica(i, j)
    BY <1>5 DEF Deliver
  <2> QED BY <1>1, <2>1, ReadMsgs, ExecuteInv
<1>6. CASE UNCHANGED vars
  BY <1>6 DEF vars, Inv, TypeOK, Streams, Msgs, Summarises, CurrentAdds, ZsetAgrees, EXISTS
<1> QED BY <1>3, <1>4, <1>5, <1>6 DEF Next

\* The invariant holds in every behaviour of the set.
THEOREM Invariance == Spec => []Inv
  BY InitInv, NextInv, PTL DEF Spec

\* Every variable of the set keeps its type: no effect phase leaves a header
\* outside what RWFramework.h declares, for any number of servers.
THEOREM TypeCorrect == Spec => []TypeOK
<1>1. Inv => TypeOK
  BY DEF Inv
<1> QED BY <1>1, Invariance, PTL

\* The sorted set that rwfscontains reads always agrees with the header that
\* the update commands test.
THEOREM ReadersAgree == Spec => []ZsetAgrees
<1>1. Inv => ZsetAgrees
  BY DEF Inv
<1> QED BY <1>1, Invariance, PTL

\* Strong convergence of the RWF set, for any number of servers, any number of
\* operations and any interleaving the streams allow.
THEOREM StrongConvergence == Spec => []Convergence
<1>1. Inv => Convergence
  <2> SUFFICES ASSUME Inv, NEW r \in Server, NEW s \in Server, SameOps(r, s)
               PROVE  /\ vc_equal(e[r].current, e[s].current)
                      /\ e[r].pid = e[s].pid
                      /\ zset[r] = zset[s]
    BY DEF Convergence
  <2>1. /\ e \in [Server -> REH] /\ zset \in [Server -> BOOLEAN]
        /\ P2PType(Command) /\ Streams
    BY TypeSplit DEF Inv
  <2>2. Msgs(r) \in SUBSET Command /\ Msgs(s) = Msgs(r)
    BY <2>1, MsgsType DEF SameOps, Msgs
  <2>3. e[r].current.vector = e[s].current.vector /\ e[r].pid = e[s].pid
    BY <2>1, <2>2, UniqueSummary DEF Inv
  <2>4. zset[r] = zset[s]
    BY <2>1, <2>3 DEF Inv, ZsetAgrees, EXISTS
  <2> QED BY <2>3, <2>4 DEF vc_equal
<1> QED BY <1>1, Invariance, PTL

\* The set uses the streams as the replication layer promises them: its commands
\* issue, its deliveries run the next command, and nothing else touches them.
THEOREM SetUsesStreamsAsPromised == Spec => StreamsAsPromised
<1>1. Init => Promise!Init
  BY InitPromise DEF Init
<1>2. Inv /\ [Next]_vars => [Promise!Next]_Promise!vars
  <2> SUFFICES ASSUME Inv, [Next]_vars PROVE [Promise!Next]_Promise!vars
    OBVIOUS
  <2>1. P2PType(Command) /\ Streams
    BY TypeSplit DEF Inv
  <2>2. ASSUME NEW i \in Server, rwfsaddCommand(i) PROVE Promise!Next
    BY <2>1, <2>2, BroadcastPromise DEF rwfsaddCommand
  <2>3. ASSUME NEW i \in Server, rwfsremCommand(i) PROVE Promise!Next
    BY <2>1, <2>3, BroadcastPromise DEF rwfsremCommand
  <2>4. ASSUME NEW i \in Server, NEW j \in Server, Deliver(i, j) PROVE Promise!Next
    BY <2>1, <2>4, ReadPromise DEF Deliver
  <2>5. CASE UNCHANGED vars
    BY <2>5 DEF vars, Promise!vars
  <2> QED BY <2>2, <2>3, <2>4, <2>5 DEF Next
<1> QED BY <1>1, <1>2, Invariance, PTL DEF Spec, StreamsAsPromised, Promise!Spec
=============================================================================
