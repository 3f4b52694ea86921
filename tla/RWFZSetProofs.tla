--------------------------- MODULE RWFZSetProofs ---------------------------
(***************************************************************************)
(* Proofs about RWFZSet for every number of servers and of operations.     *)
(*                                                                         *)
(* The argument is that of RWFSet with two additions.  An increment makes  *)
(* an element exist before its add (PID_WAIT_INNATE), so the header tells  *)
(* updates of the current life from adds; and the innate value is the one  *)
(* of the winning add, which is unique because a server adds an element    *)
(* only when it does not exist there.  The acquired value is a sum over    *)
(* the executed commands, and what a sum is over a set stays with TLC.     *)
(***************************************************************************)
EXTENDS RWFZSet, P2PProofs

\* The adds and increments of M that carry the remove history of h.
Updates(M, h) == {m \in M : m.op # "rem" /\ m.t.vector = h.current.vector}

\* The vector of h is the least upper bound of the vectors of M.
Bounds(M, h) ==
  /\ \A m \in M, j \in Server : m.t.vector[j] <= h.current.vector[j]
  /\ \A j \in Server : \/ h.current.vector[j] = 0
                       \/ \E m \in M : m.t.vector[j] = h.current.vector[j]

\* The pid of h is the greatest id among the adds of M with this vector, v is the
\* value of such an add, and the element exists if there is any update at all.
Winner(M, h, v) ==
  /\ \A m \in Updates(M, h) : m.op = "add" => m.t.id <= h.pid
  /\ h.pid \in Server =>
       \E m \in Updates(M, h) : m.op = "add" /\ m.t.id = h.pid /\ m.v = v
  /\ h.pid \notin Server => v = 0
  /\ h.pid # PID_NEXIST <=> \E m \in Updates(M, h) : TRUE

\* A server stamps with its own id, and adds once in each life of the element.
StampedByOrigin ==
  \A i \in Server : /\ e[i].current.id = i
                    /\ \A n \in 1..Len(sent[i]) : sent[i][n].t.id = i

OneAddPerLife ==
  \A i \in Server : \A n, p \in 1..Len(sent[i]) :
    (/\ sent[i][n].op = "add" /\ sent[i][p].op = "add"
     /\ sent[i][n].t.vector = sent[i][p].t.vector) => n = p

\* The inductive invariant.
IInv ==
  /\ Inv
  /\ Streams
  /\ \A r \in Server : Bounds(Msgs(r), e[r]) /\ Winner(Msgs(r), e[r], innate[r])
  /\ StampedByOrigin
  /\ OneAddPerLife
-----------------------------------------------------------------------------
(* Lemmas about one element.                                               *)

\* vc_update computes the entrywise maximum and keeps the owner.
LEMMA VcUpdate ==
  ASSUME NEW c \in VC, NEW t \in VC
  PROVE  /\ vc_update(c, t) \in VC /\ vc_update(c, t).id = c.id
         /\ \A j \in Server : vc_update(c, t).vector[j] =
              IF t.vector[j] > c.vector[j] THEN t.vector[j] ELSE c.vector[j]
  BY DEF vc_update, VC, Vector

\* vc_now stays a clock of the same owner.
LEMMA VcNow == ASSUME NEW c \in VC PROVE vc_now(c) \in VC /\ vc_now(c).id = c.id
  BY DEF vc_now, VC, Vector

\* The pid of a header is a server id or one of two negative codes.
LEMMA PidInt ==
  ASSUME NEW h \in REH
  PROVE  /\ h.pid \in Int /\ h.current \in VC
         /\ h.pid \in Server <=> h.pid >= 0
         /\ h.pid \in Server \cup {PID_NEXIST, PID_WAIT_INNATE}
  BY NAssumption DEF REH, Server, PID_NEXIST, PID_WAIT_INNATE

\* removeFunc on the header and the innate value.
Cleared(h, t) == IF removeCheck(h, t) THEN REH_RMV_FUNC(h, t) ELSE h
Reset(h, v, t) == IF removeCheck(h, t) THEN 0 ELSE v

\* removeFunc raises the vector by the stamp; no update of an earlier life counts
\* for the new one.
LEMMA ClearedSummary ==
  ASSUME NEW M \in SUBSET Command, NEW m \in Command, NEW h \in REH, NEW v \in Int,
         Bounds(M, h), Winner(M, h, v)
  PROVE  /\ Cleared(h, m.t) \in REH /\ Reset(h, v, m.t) \in Int
         /\ Cleared(h, m.t).current.id = h.current.id
         /\ Bounds(M \cup {m}, Cleared(h, m.t))
         /\ Winner(M, Cleared(h, m.t), Reset(h, v, m.t))
<1> DEFINE g == Cleared(h, m.t)
<1>1. m.t \in VC /\ h.current \in VC /\ \A x \in M : x.t \in VC
  BY PidInt DEF Command
<1>2. CASE removeCheck(h, m.t)
  <2>1. g = [pid |-> PID_NEXIST, current |-> vc_update(h.current, m.t)] /\ Reset(h, v, m.t) = 0
    BY <1>2 DEF Cleared, Reset, REH_RMV_FUNC
  <2>2. g \in REH /\ g.pid = PID_NEXIST /\ g.current.id = h.current.id
    BY <1>1, <2>1, VcUpdate DEF REH
  <2>3. \A j \in Server : g.current.vector[j] =
          IF m.t.vector[j] > h.current.vector[j] THEN m.t.vector[j] ELSE h.current.vector[j]
    BY <1>1, <2>1, VcUpdate
  <2>4. Bounds(M \cup {m}, g)
    <3>1. \A x \in M \cup {m}, j \in Server : x.t.vector[j] <= g.current.vector[j]
      BY <1>1, <2>3 DEF Bounds, VC, Vector
    <3>2. \A j \in Server : \/ g.current.vector[j] = 0
                            \/ \E x \in M \cup {m} : x.t.vector[j] = g.current.vector[j]
      BY <2>3 DEF Bounds
    <3> QED BY <3>1, <3>2 DEF Bounds
  <2>5. Updates(M, g) = {}
    <3>1. PICK j \in Server : h.current.vector[j] < m.t.vector[j]
      BY <1>2 DEF removeCheck
    <3>2. \A x \in M : x.t.vector[j] # g.current.vector[j]
      BY <1>1, <2>3, <3>1 DEF Bounds, VC, Vector
    <3> QED BY <3>2 DEF Updates
  <2>6. g.pid \notin Server
    BY <2>2, NAssumption DEF Server, PID_NEXIST
  <2>7. Winner(M, g, 0)
    BY <2>2, <2>5, <2>6 DEF Winner
  <2> QED BY <2>1, <2>2, <2>4, <2>7
<1>3. CASE ~removeCheck(h, m.t)
  <2>1. g = h /\ Reset(h, v, m.t) = v
    BY <1>3 DEF Cleared, Reset
  <2>2. \A j \in Server : m.t.vector[j] <= h.current.vector[j]
    BY <1>1, <1>3 DEF removeCheck, VC, Vector
  <2>3. Bounds(M \cup {m}, h)
    BY <2>2 DEF Bounds
  <2> QED BY <2>1, <2>3
<1> QED BY <1>2, <1>3

\* An add that passes addCheck is the new winner.
LEMMA AddWinner ==
  ASSUME NEW M \in SUBSET Command, NEW m \in Command, m.op = "add", NEW g \in REH,
         NEW v \in Int, Winner(M, g, v), addCheck(g, m.t)
  PROVE  /\ addHeader(g, m.t) \in REH /\ addHeader(g, m.t).current = g.current
         /\ addHeader(g, m.t).pid # PID_NEXIST
         /\ Winner(M \cup {m}, addHeader(g, m.t), m.v)
<1> DEFINE k == addHeader(g, m.t)
<1>1. k = [g EXCEPT !.pid = m.t.id] /\ m.t.vector = g.current.vector /\ g.pid < m.t.id
  BY DEF addHeader, addCheck, vc_equal
<1>2. m.t \in VC /\ m.t.id \in Server /\ m.t.id \in Int /\ \A x \in M : x.t.id \in Int
  BY DEF Command, VC, Server
<1>3. k \in REH /\ k.pid = m.t.id /\ k.current = g.current /\ g.pid \in Int
  BY <1>1, <1>2, PidInt DEF REH
<1>4. Updates(M \cup {m}, k) = Updates(M, g) \cup {m}
  BY <1>1, <1>3 DEF Updates
<1>5. \A x \in Updates(M \cup {m}, k) : x.op = "add" => x.t.id <= k.pid
  <2>1. \A x \in Updates(M, g) : x \in M /\ (x.op = "add" => x.t.id <= g.pid)
    BY DEF Winner, Updates
  <2> QED BY <1>1, <1>2, <1>3, <1>4, <2>1
<1>6. m \in Updates(M \cup {m}, k) /\ k.pid \in Server /\ k.pid # PID_NEXIST
  <2>1. m \in Updates(M \cup {m}, k)
    BY <1>4
  <2>2. k.pid \in Server
    BY <1>2, <1>3
  <2>3. k.pid # PID_NEXIST
    BY <2>2, NAssumption DEF Server, PID_NEXIST
  <2> QED BY <2>1, <2>2, <2>3
<1>7. Winner(M \cup {m}, k, m.v)
  BY <1>3, <1>5, <1>6 DEF Winner
<1> QED BY <1>3, <1>6, <1>7

\* A command that is no update of the current life changes no winner.
LEMMA SameWinner ==
  ASSUME NEW M, NEW m, NEW g, NEW v, Winner(M, g, v),
         m.op = "rem" \/ m.t.vector # g.current.vector
  PROVE  Winner(M \cup {m}, g, v)
<1>1. Updates(M \cup {m}, g) = Updates(M, g)
  BY DEF Updates
<1> QED BY <1>1 DEF Winner

\* An add that fails addCheck loses to the winner or is of an earlier life.
LEMMA AddLoses ==
  ASSUME NEW M \in SUBSET Command, NEW m \in Command, m.op = "add", NEW g \in REH,
         NEW v \in Int, Winner(M, g, v), ~addCheck(g, m.t)
  PROVE  Winner(M \cup {m}, g, v)
<1>1. CASE m.t.vector # g.current.vector
  BY <1>1, SameWinner
<1>2. CASE m.t.vector = g.current.vector
  <2>1. m.t.id \in Server /\ m.t.id >= 0 /\ m.t.id \in Int
    BY NAssumption DEF Command, VC, Server
  <2>2. m.t.id <= g.pid /\ g.pid \in Server /\ g.pid # PID_NEXIST
    <3>1. m.t.id <= g.pid
      BY <1>2, <2>1, PidInt DEF addCheck, vc_equal
    <3>2. g.pid >= 0 /\ g.pid \in Int
      BY <2>1, <3>1, PidInt
    <3>3. g.pid \in Server
      BY <3>2, PidInt
    <3> QED BY <3>1, <3>2, <3>3 DEF PID_NEXIST
  <2>3. Updates(M \cup {m}, g) = Updates(M, g) \cup {m}
    BY <1>2 DEF Updates
  <2> QED BY <2>2, <2>3 DEF Winner
<1> QED BY <1>1, <1>2

\* An increment of the current life makes the element exist and leaves the winner.
LEMMA IncrWinner ==
  ASSUME NEW M \in SUBSET Command, NEW m \in Command, m.op = "incr", NEW g \in REH,
         NEW v \in Int, Winner(M, g, v), updateCheck(g, m.t)
  PROVE  /\ updateHeader(g) \in REH /\ updateHeader(g).current = g.current
         /\ updateHeader(g).pid # PID_NEXIST
         /\ Winner(M \cup {m}, updateHeader(g), v)
<1> DEFINE k == updateHeader(g)
<1>1. m.t.vector = g.current.vector
  BY DEF updateCheck, vc_equal
<1>2. CASE g.pid # PID_NEXIST
  <2>1. k = g
    BY <1>2 DEF updateHeader, EXISTS
  <2>2. Updates(M \cup {m}, g) = Updates(M, g) \cup {m}
    BY <1>1 DEF Updates
  <2>3. Winner(M \cup {m}, g, v)
    BY <1>2, <2>2 DEF Winner
  <2> QED BY <1>2, <2>1, <2>3
<1>3. CASE g.pid = PID_NEXIST
  <2>1. k = [g EXCEPT !.pid = PID_WAIT_INNATE]
    BY <1>3 DEF updateHeader, EXISTS
  <2>2. k \in REH /\ k.pid = PID_WAIT_INNATE /\ k.current = g.current
    BY <2>1 DEF REH
  <2>3. PID_WAIT_INNATE \notin Server /\ PID_NEXIST \notin Server /\ PID_WAIT_INNATE # PID_NEXIST
    BY NAssumption DEF PID_WAIT_INNATE, PID_NEXIST, Server
  <2>4. Updates(M, g) = {} /\ v = 0
    BY <1>3, <2>3 DEF Winner
  <2>5. Updates(M \cup {m}, k) = {m}
    BY <1>1, <2>2, <2>4 DEF Updates
  <2>6. Winner(M \cup {m}, k, v)
    BY <2>2, <2>3, <2>4, <2>5 DEF Winner
  <2> QED BY <2>2, <2>3, <2>6
<1> QED BY <1>2, <1>3

\* The score the readers see follows the header and the two values.
Shows(z, h, in, ac) ==
  /\ z = IF EXISTS(h) THEN in + ac ELSE NULL
  /\ ~EXISTS(h) => in = 0 /\ ac = 0

ElementType ==
  /\ e \in [Server -> REH] /\ innate \in [Server -> Int] /\ acquired \in [Server -> Int]
  /\ zset \in [Server -> Int \cup {NULL}]

\* The effect phase of any command, wherever it runs, keeps the element a summary
\* of what was executed and touches no other server.
LEMMA EffectStep ==
  ASSUME ElementType, NEW r \in Server, NEW m \in Command, NEW M \in SUBSET Command,
         Bounds(M, e[r]), Winner(M, e[r], innate[r]),
         Shows(zset[r], e[r], innate[r], acquired[r]), Effect(r, m)
  PROVE  /\ ElementType'
         /\ Bounds(M \cup {m}, e'[r]) /\ Winner(M \cup {m}, e'[r], innate'[r])
         /\ Shows(zset'[r], e'[r], innate'[r], acquired'[r])
         /\ e'[r].current.id = e[r].current.id
         /\ \A s \in Server \ {r} : /\ e'[s] = e[s] /\ innate'[s] = innate[s]
                                    /\ acquired'[s] = acquired[s] /\ zset'[s] = zset[s]
<1> DEFINE f == removeFunc(r, m.t)
<1>1. /\ f.h = Cleared(e[r], m.t) /\ f.innate = Reset(e[r], innate[r], m.t)
      /\ f.acquired = IF removeCheck(e[r], m.t) THEN 0 ELSE acquired[r]
      /\ f.zset = IF removeCheck(e[r], m.t) THEN NULL ELSE zset[r]
  BY DEF removeFunc, Cleared, Reset
<1>2. /\ f.h \in REH /\ f.innate \in Int /\ f.acquired \in Int /\ f.zset \in Int \cup {NULL}
      /\ f.h.current.id = e[r].current.id /\ Bounds(M \cup {m}, f.h) /\ Winner(M, f.h, f.innate)
  <2>1. e[r] \in REH /\ innate[r] \in Int /\ acquired[r] \in Int /\ zset[r] \in Int \cup {NULL}
    BY DEF ElementType
  <2>2. /\ Cleared(e[r], m.t) \in REH /\ Reset(e[r], innate[r], m.t) \in Int
        /\ Cleared(e[r], m.t).current.id = e[r].current.id
        /\ Bounds(M \cup {m}, Cleared(e[r], m.t))
        /\ Winner(M, Cleared(e[r], m.t), Reset(e[r], innate[r], m.t))
    BY <2>1, ClearedSummary
  <2>3. f.acquired \in Int /\ f.zset \in Int \cup {NULL}
    BY <1>1, <2>1
  <2> QED BY <1>1, <2>2, <2>3
<1>3. Shows(f.zset, f.h, f.innate, f.acquired)
  BY <1>1 DEF Shows, Cleared, Reset, REH_RMV_FUNC, EXISTS
<1> HIDE DEF f
<1>4. ASSUME NEW h \in REH, NEW in \in Int, NEW ac \in Int, NEW z \in Int \cup {NULL},
             h.current = f.h.current, Winner(M \cup {m}, h, in), Shows(z, h, in, ac),
             SetElement(r, h, in, ac, z)
      PROVE  /\ ElementType'
             /\ Bounds(M \cup {m}, e'[r]) /\ Winner(M \cup {m}, e'[r], innate'[r])
             /\ Shows(zset'[r], e'[r], innate'[r], acquired'[r])
             /\ e'[r].current.id = e[r].current.id
             /\ \A s \in Server \ {r} : /\ e'[s] = e[s] /\ innate'[s] = innate[s]
                                        /\ acquired'[s] = acquired[s] /\ zset'[s] = zset[s]
  <2>1. /\ e' = [e EXCEPT ![r] = h] /\ innate' = [innate EXCEPT ![r] = in]
        /\ acquired' = [acquired EXCEPT ![r] = ac] /\ zset' = [zset EXCEPT ![r] = z]
    BY <1>4 DEF SetElement
  <2>2. /\ ElementType'
        /\ e'[r] = h /\ innate'[r] = in /\ acquired'[r] = ac /\ zset'[r] = z
        /\ \A s \in Server \ {r} : /\ e'[s] = e[s] /\ innate'[s] = innate[s]
                                   /\ acquired'[s] = acquired[s] /\ zset'[s] = zset[s]
    BY <2>1 DEF ElementType
  <2>3. Bounds(M \cup {m}, h) /\ h.current.id = e[r].current.id
    BY <1>2, <1>4 DEF Bounds
  <2> QED BY <1>4, <2>2, <2>3
<1>5. m.v \in Int /\ m.t \in VC
  <2>1. m.v \in AddValue \cup IncrValue \cup {0} /\ m.t \in VC
    BY DEF Command
  <2>2. \A x \in AddValue \cup IncrValue \cup {0} : x \in Int
    BY ValueAssumption
  <2> QED BY <2>1, <2>2
<1>6. CASE m.op = "add" /\ rwfzaddEffect(r, m.v, m.t)
  <2>1. CASE addCheck(f.h, m.t)
    <3>1. SetElement(r, addHeader(f.h, m.t), m.v, f.acquired, m.v + f.acquired)
      BY <1>6, <2>1 DEF rwfzaddEffect, f
    <3>2. /\ addHeader(f.h, m.t) \in REH /\ addHeader(f.h, m.t).current = f.h.current
          /\ EXISTS(addHeader(f.h, m.t)) /\ Winner(M \cup {m}, addHeader(f.h, m.t), m.v)
      BY <1>2, <1>6, <2>1, AddWinner DEF EXISTS
    <3>3. Shows(m.v + f.acquired, addHeader(f.h, m.t), m.v, f.acquired)
      BY <3>2 DEF Shows
    <3>4. m.v + f.acquired \in Int
      BY <1>2, <1>5
    <3> QED BY <1>2, <1>4, <1>5, <3>1, <3>2, <3>3, <3>4
  <2>2. CASE ~addCheck(f.h, m.t)
    <3>1. SetElement(r, f.h, f.innate, f.acquired, f.zset)
      BY <1>6, <2>2 DEF rwfzaddEffect, f
    <3>2. Winner(M \cup {m}, f.h, f.innate)
      BY <1>2, <1>6, <2>2, AddLoses
    <3> QED BY <1>2, <1>3, <1>4, <3>1, <3>2
  <2> QED BY <2>1, <2>2
<1>7. CASE m.op = "incr" /\ rwfzincrbyEffect(r, m.v, m.t)
  <2>1. CASE updateCheck(f.h, m.t)
    <3>1. SetElement(r, updateHeader(f.h), f.innate, f.acquired + m.v, f.innate + f.acquired + m.v)
      BY <1>7, <2>1 DEF rwfzincrbyEffect, f
    <3>2. /\ updateHeader(f.h) \in REH /\ updateHeader(f.h).current = f.h.current
          /\ EXISTS(updateHeader(f.h)) /\ Winner(M \cup {m}, updateHeader(f.h), f.innate)
      BY <1>2, <1>7, <2>1, IncrWinner DEF EXISTS
    <3>3. f.innate + f.acquired + m.v = f.innate + (f.acquired + m.v) /\ f.acquired + m.v \in Int
      BY <1>2, <1>5
    <3>4. Shows(f.innate + f.acquired + m.v, updateHeader(f.h), f.innate, f.acquired + m.v)
      BY <3>2, <3>3 DEF Shows
    <3>5. f.innate + f.acquired + m.v \in Int
      BY <1>2, <1>5
    <3> QED BY <1>2, <1>4, <3>1, <3>2, <3>3, <3>4, <3>5
  <2>2. CASE ~updateCheck(f.h, m.t)
    <3>1. SetElement(r, f.h, f.innate, f.acquired, f.zset)
      BY <1>7, <2>2 DEF rwfzincrbyEffect, f
    <3>2. Winner(M \cup {m}, f.h, f.innate)
      BY <1>2, <2>2, SameWinner DEF updateCheck, vc_equal
    <3> QED BY <1>2, <1>3, <1>4, <3>1, <3>2
  <2> QED BY <2>1, <2>2
<1>8. CASE m.op = "rem" /\ rwfzremEffect(r, m.t)
  <2>1. SetElement(r, f.h, f.innate, f.acquired, f.zset)
    BY <1>8 DEF rwfzremEffect, f
  <2>2. Winner(M \cup {m}, f.h, f.innate)
    BY <1>2, <1>8, SameWinner
  <2> QED BY <1>2, <1>3, <1>4, <2>1, <2>2
<1> QED BY <1>6, <1>7, <1>8 DEF Effect
-----------------------------------------------------------------------------
(* The invariant.                                                          *)

\* TypeOK and ZsetAgrees in terms of the lemmas above.
LEMMA TypeSplit == TypeOK <=> ElementType /\ P2PType(Command)
  BY DEF TypeOK, ElementType, P2PType

\* ZsetAgrees is Shows at every server.
LEMMA ShowsEverywhere ==
  ZsetAgrees <=> \A r \in Server : Shows(zset[r], e[r], innate[r], acquired[r])
  BY DEF ZsetAgrees, Shows

\* The invariant holds when the servers start.
LEMMA InitIInv == Init => IInv
<1> SUFFICES ASSUME Init PROVE IInv
  OBVIOUS
<1>1. \A i \in Server : /\ e[i] \in REH /\ e[i].pid = PID_NEXIST /\ e[i].current.id = i
                        /\ innate[i] = 0 /\ acquired[i] = 0 /\ zset[i] = NULL
                        /\ \A j \in Server : e[i].current.vector[j] = 0
  BY DEF Init, REH_INIT, REH, VC, Vector, vc_new, PID_NEXIST
<1>2. P2PType(Command) /\ Streams
  BY DEF Init, P2PInit, P2PType, Streams, Vector
<1>3. \A r \in Server : Msgs(r) = {}
  BY InCollect DEF Init, P2PInit, Msgs
<1>4. PID_NEXIST \notin Server
  BY NAssumption DEF PID_NEXIST, Server
<1>5. \A r \in Server : Bounds(Msgs(r), e[r]) /\ Winner(Msgs(r), e[r], innate[r])
  BY <1>1, <1>3, <1>4 DEF Bounds, Winner, Updates
<1>6. ElementType
  BY <1>1 DEF Init, ElementType
<1>7. ZsetAgrees
  BY <1>1 DEF ZsetAgrees, EXISTS
<1>8. StampedByOrigin /\ OneAddPerLife
  BY <1>1 DEF Init, P2PInit, StampedByOrigin, OneAddPerLife
<1> QED BY <1>2, <1>5, <1>6, <1>7, <1>8, TypeSplit DEF IInv, Inv

\* Executing a command at r, by whichever step, keeps every element a summary.
LEMMA ExecuteInv ==
  ASSUME IInv, NEW r \in Server, NEW m \in Command, Effect(r, m),
         P2PType(Command)', Streams', Msgs(r)' = Msgs(r) \cup {m},
         \A s \in Server \ {r} : Msgs(s)' = Msgs(s)
  PROVE  /\ Inv'
         /\ (\A s \in Server : Bounds(Msgs(s), e[s]) /\ Winner(Msgs(s), e[s], innate[s]))'
         /\ \A s \in Server : e'[s].current.id = e[s].current.id
<1>1. /\ ElementType /\ P2PType(Command) /\ Streams
      /\ \A s \in Server : Shows(zset[s], e[s], innate[s], acquired[s])
      /\ \A s \in Server : Bounds(Msgs(s), e[s]) /\ Winner(Msgs(s), e[s], innate[s])
  BY TypeSplit, ShowsEverywhere DEF IInv, Inv
<1>2. Msgs(r) \in SUBSET Command
  BY <1>1, MsgsType
<1>3. /\ ElementType'
      /\ Bounds(Msgs(r) \cup {m}, e'[r]) /\ Winner(Msgs(r) \cup {m}, e'[r], innate'[r])
      /\ Shows(zset'[r], e'[r], innate'[r], acquired'[r])
      /\ e'[r].current.id = e[r].current.id
      /\ \A s \in Server \ {r} : /\ e'[s] = e[s] /\ innate'[s] = innate[s]
                                 /\ acquired'[s] = acquired[s] /\ zset'[s] = zset[s]
  BY <1>1, <1>2, EffectStep
<1>4. \A s \in Server : Bounds(Msgs(s)', e'[s]) /\ Winner(Msgs(s)', e'[s], innate'[s])
  BY <1>1, <1>3
<1>5. (\A s \in Server : Bounds(Msgs(s), e[s]) /\ Winner(Msgs(s), e[s], innate[s]))'
  BY <1>4 DEF Bounds, Winner, Updates
<1>6. ZsetAgrees'
  <2>1. \A s \in Server : Shows(zset'[s], e'[s], innate'[s], acquired'[s])
    BY <1>1, <1>3
  <2> QED BY <2>1 DEF Shows, ZsetAgrees, EXISTS
<1>7. TypeOK'
  BY <1>3 DEF TypeOK, ElementType, P2PType
<1> QED BY <1>3, <1>5, <1>6, <1>7 DEF Inv

\* Issuing a command keeps what is known of all commands issued: an add finds no
\* other add of its server in the current life.
LEMMA IssueStep ==
  ASSUME IInv, NEW i \in Server, NEW m \in Command, replicationBroadcast(i, m), m.t.id = i,
         m.op = "add" => m.t.vector = e[i].current.vector /\ ~EXISTS(e[i])
  PROVE  /\ OneAddPerLife'
         /\ \A k \in Server : \A n \in 1..Len(sent'[k]) : sent'[k][n].t.id = k
<1> DEFINE L == Len(sent[i])
<1>1. P2PType(Command) /\ Streams /\ StampedByOrigin /\ OneAddPerLife
  BY TypeSplit DEF IInv, Inv
<1>2. /\ L \in Nat /\ L = rcvd[i][i]
      /\ \A k \in Server \ {i} : sent'[k] = sent[k]
      /\ Len(sent'[i]) = L + 1 /\ sent'[i][L + 1] = m
      /\ \A n \in 1..L : sent'[i][n] = sent[i][n]
  <2>1. sent' = [sent EXCEPT ![i] = Append(sent[i], m)] /\ sent[i] \in Seq(Command)
    BY <1>1 DEF replicationBroadcast, P2PType
  <2>2. sent'[i] = Append(sent[i], m) /\ \A k \in Server \ {i} : sent'[k] = sent[k]
    BY <1>1, <2>1 DEF P2PType
  <2>3. L = rcvd[i][i]
    BY <1>1 DEF Streams
  <2> QED BY <2>1, <2>2, <2>3
<1> HIDE DEF L
<1>3. ASSUME m.op = "add"
      PROVE  \A p \in 1..L : ~(sent[i][p].op = "add" /\ sent[i][p].t.vector = m.t.vector)
  <2> SUFFICES ASSUME NEW p \in 1..L, sent[i][p].op = "add", sent[i][p].t.vector = m.t.vector
               PROVE  FALSE
    OBVIOUS
  <2>1. sent[i][p] \in Msgs(i)
    BY <1>2, InCollect DEF Msgs
  <2>2. sent[i][p] \in Updates(Msgs(i), e[i])
    BY <1>3, <2>1 DEF Updates
  <2> QED BY <1>3, <2>2 DEF IInv, Winner, EXISTS
<1>4. \A n : n \in 1..Len(sent'[i]) <=> n \in 1..L \/ n = L + 1
  BY <1>2
<1>5. OneAddPerLife'
  <2> SUFFICES ASSUME NEW k \in Server, NEW n \in 1..Len(sent'[k]), NEW p \in 1..Len(sent'[k]),
                      sent'[k][n].op = "add", sent'[k][p].op = "add",
                      sent'[k][n].t.vector = sent'[k][p].t.vector
               PROVE  n = p
    BY DEF OneAddPerLife
  <2>1. CASE k # i
    <3>1. sent'[k] = sent[k]
      BY <1>2, <2>1
    <3> QED BY <1>1, <3>1 DEF OneAddPerLife
  <2>2. CASE k = i /\ n \in 1..L /\ p \in 1..L
    <3>1. sent'[i][n] = sent[i][n] /\ sent'[i][p] = sent[i][p]
      BY <1>2, <2>2
    <3>2. n \in 1..Len(sent[i]) /\ p \in 1..Len(sent[i])
      BY <2>2 DEF L
    <3> QED BY <1>1, <2>2, <3>1, <3>2 DEF OneAddPerLife
  <2>3. CASE k = i /\ (n = L + 1 \/ p = L + 1)
    <3>1. \A q \in 1..L : sent'[i][q] = sent[i][q]
      BY <1>2
    <3>2. CASE n = L + 1 /\ p \in 1..L
      <4>1. m.op = "add" /\ sent[i][p].op = "add" /\ sent[i][p].t.vector = m.t.vector
        BY <1>2, <2>3, <3>1, <3>2
      <4> QED BY <1>3, <3>2, <4>1
    <3>3. CASE p = L + 1 /\ n \in 1..L
      <4>1. m.op = "add" /\ sent[i][n].op = "add" /\ sent[i][n].t.vector = m.t.vector
        BY <1>2, <2>3, <3>1, <3>3
      <4> QED BY <1>3, <3>3, <4>1
    <3> QED BY <1>4, <2>3, <3>2, <3>3
  <2> QED BY <1>4, <2>1, <2>2, <2>3
<1>6. ASSUME NEW k \in Server, NEW n \in 1..Len(sent'[k]) PROVE sent'[k][n].t.id = k
  <2>1. CASE k # i
    <3>1. sent'[k] = sent[k]
      BY <1>2, <2>1
    <3> QED BY <1>1, <1>6, <3>1 DEF StampedByOrigin
  <2>2. CASE k = i /\ n \in 1..L
    <3>1. sent'[i][n] = sent[i][n]
      BY <1>2, <2>2
    <3>2. n \in 1..Len(sent[i])
      BY <2>2 DEF L
    <3> QED BY <1>1, <2>2, <3>1, <3>2 DEF StampedByOrigin
  <2>3. CASE k = i /\ n = L + 1
    BY <1>2, <2>3
  <2> QED BY <1>4, <1>6, <2>1, <2>2, <2>3
<1> QED BY <1>5, <1>6

\* Every step keeps the invariant.
LEMMA NextIInv == IInv /\ [Next]_vars => IInv'
<1> SUFFICES ASSUME IInv, [Next]_vars PROVE IInv'
  OBVIOUS
<1>1. ElementType /\ P2PType(Command) /\ Streams /\ StampedByOrigin /\ OneAddPerLife
  BY TypeSplit DEF IInv, Inv
<1>2. \A i \in Server : /\ e[i].current \in VC /\ vc_now(e[i].current) \in VC
                        /\ e[i].current.id = i /\ vc_now(e[i].current).id = i
  BY <1>1, VcNow, PidInt DEF ElementType, StampedByOrigin
<1>3. ASSUME NEW i \in Server, NEW m \in Command, Issue(i, m), m.t.id = i,
             m.op = "add" => m.t.vector = e[i].current.vector /\ ~EXISTS(e[i])
      PROVE  IInv'
  <2>1. Effect(i, m) /\ replicationBroadcast(i, m)
    BY <1>3 DEF Issue
  <2>2. /\ P2PType(Command)' /\ Streams' /\ Msgs(i)' = Msgs(i) \cup {m}
        /\ \A s \in Server \ {i} : Msgs(s)' = Msgs(s)
    BY <1>1, <2>1, BroadcastMsgs
  <2>3. /\ Inv'
        /\ (\A s \in Server : Bounds(Msgs(s), e[s]) /\ Winner(Msgs(s), e[s], innate[s]))'
        /\ \A s \in Server : e'[s].current.id = e[s].current.id
    BY <2>1, <2>2, ExecuteInv
  <2>4. OneAddPerLife' /\ \A k \in Server : \A n \in 1..Len(sent'[k]) : sent'[k][n].t.id = k
    BY <1>3, <2>1, IssueStep
  <2>5. StampedByOrigin'
    BY <1>2, <2>3, <2>4 DEF StampedByOrigin
  <2> QED BY <2>2, <2>3, <2>4, <2>5 DEF IInv
<1>4. ASSUME NEW i \in Server, NEW v \in AddValue, rwfzaddCommand(i, v) PROVE IInv'
  <2> DEFINE m == [op |-> "add", v |-> v, t |-> e[i].current]
  <2>1. /\ m \in Command /\ Issue(i, m) /\ m.t.id = i
        /\ m.op = "add" => m.t.vector = e[i].current.vector /\ ~EXISTS(e[i])
    BY <1>2, <1>4 DEF rwfzaddCommand, Command
  <2> HIDE DEF m
  <2> QED BY <1>3, <2>1
<1>5. ASSUME NEW i \in Server, NEW v \in IncrValue, rwfzincrbyCommand(i, v) PROVE IInv'
  <2> DEFINE m == [op |-> "incr", v |-> v, t |-> e[i].current]
  <2>1. m \in Command /\ Issue(i, m) /\ m.t.id = i /\ m.op # "add"
    BY <1>2, <1>5 DEF rwfzincrbyCommand, Command
  <2> HIDE DEF m
  <2> QED BY <1>3, <2>1
<1>6. ASSUME NEW i \in Server, rwfzremCommand(i) PROVE IInv'
  <2> DEFINE m == [op |-> "rem", v |-> 0, t |-> vc_now(e[i].current)]
  <2>1. m \in Command /\ Issue(i, m) /\ m.t.id = i /\ m.op # "add"
    BY <1>2, <1>6 DEF rwfzremCommand, Command
  <2> HIDE DEF m
  <2> QED BY <1>3, <2>1
<1>7. ASSUME NEW i \in Server, NEW j \in Server, Deliver(i, j) PROVE IInv'
  <2>1. InFlight(i, j) /\ Effect(j, NextCmd(i, j)) /\ ReadFromReplica(i, j) /\ sent' = sent
    BY <1>7 DEF Deliver, ReadFromReplica
  <2>2. /\ NextCmd(i, j) \in Command /\ P2PType(Command)' /\ Streams'
        /\ Msgs(j)' = Msgs(j) \cup {NextCmd(i, j)} /\ \A s \in Server \ {j} : Msgs(s)' = Msgs(s)
    BY <1>1, <2>1, ReadMsgs
  <2>3. /\ Inv'
        /\ (\A s \in Server : Bounds(Msgs(s), e[s]) /\ Winner(Msgs(s), e[s], innate[s]))'
        /\ \A s \in Server : e'[s].current.id = e[s].current.id
    BY <2>1, <2>2, ExecuteInv
  <2>4. StampedByOrigin' /\ OneAddPerLife'
    BY <1>1, <2>1, <2>3 DEF StampedByOrigin, OneAddPerLife
  <2> QED BY <2>2, <2>3, <2>4 DEF IInv
<1>8. CASE UNCHANGED vars
  <2>1. /\ e' = e /\ innate' = innate /\ acquired' = acquired /\ zset' = zset
        /\ sent' = sent /\ rcvd' = rcvd /\ seen' = seen
    BY <1>8 DEF vars
  <2>2. Inv' /\ Streams'
    BY <2>1 DEF IInv, Inv, TypeOK, ZsetAgrees, EXISTS, Streams
  <2>3. StampedByOrigin' /\ OneAddPerLife'
    BY <1>1, <2>1 DEF StampedByOrigin, OneAddPerLife
  <2>4. (\A s \in Server : Bounds(Msgs(s), e[s]) /\ Winner(Msgs(s), e[s], innate[s]))'
    BY <2>1 DEF IInv, Bounds, Winner, Updates, Msgs, Collect
  <2> QED BY <2>2, <2>3, <2>4 DEF IInv
<1> QED BY <1>4, <1>5, <1>6, <1>7, <1>8 DEF Next

\* The invariant holds in every behaviour of the priority queue.
THEOREM SummaryInvariance == Spec => []IInv
  BY InitIInv, NextIInv, PTL DEF Spec

\* For every number of servers, the state is well typed and what rwfzscore and
\* rwfzmax read follows the header and both values; removeFunc leaves none behind.
THEOREM ReadersAgree == Spec => []Inv
<1>1. IInv => Inv
  BY DEF IInv
<1> QED BY <1>1, SummaryInvariance, PTL

\* Two elements that summarise the same commands agree on the header, and on the
\* innate value if no two adds of one server share a remove history.
LEMMA UniqueSummary ==
  ASSUME NEW M \in SUBSET Command, NEW g \in REH, NEW h \in REH, NEW v, NEW w,
         Bounds(M, g), Bounds(M, h), Winner(M, g, v), Winner(M, h, w),
         \A x, y \in M : x.op = "add" /\ y.op = "add" /\ x.t = y.t => x = y
  PROVE  g.current.vector = h.current.vector /\ g.pid = h.pid /\ v = w
<1>1. /\ \A x \in M : x.t \in VC /\ x.t.vector \in Vector /\ x.t.id \in Server
      /\ g.current.vector \in Vector /\ h.current.vector \in Vector
      /\ g.pid \in Int /\ h.pid \in Int
  BY PidInt DEF Command, VC
<1>2. \A j \in Server : g.current.vector[j] <= h.current.vector[j]
  BY <1>1 DEF Bounds, Vector
<1>3. \A j \in Server : h.current.vector[j] <= g.current.vector[j]
  BY <1>1 DEF Bounds, Vector
<1>4. g.current.vector = h.current.vector
  <2>1. \A j \in Server : g.current.vector[j] = h.current.vector[j]
    BY <1>1, <1>2, <1>3 DEF Vector
  <2> QED BY <1>1, <2>1 DEF Vector
<1> DEFINE U == Updates(M, g)
<1>5. U = Updates(M, h)
  BY <1>4 DEF Updates
<1>6. /\ \A x \in U : x \in M /\ x.t.vector = g.current.vector
      /\ \A x \in U : x.op = "add" => x.t.id <= g.pid /\ x.t.id <= h.pid
      /\ g.pid \in Server => \E x \in U : x.op = "add" /\ x.t.id = g.pid /\ x.v = v
      /\ h.pid \in Server => \E x \in U : x.op = "add" /\ x.t.id = h.pid /\ x.v = w
      /\ g.pid \notin Server => v = 0
      /\ h.pid \notin Server => w = 0
      /\ g.pid # PID_NEXIST <=> h.pid # PID_NEXIST
  BY <1>5 DEF Winner, Updates
<1> HIDE DEF U
<1>7. g.pid \in Server <=> h.pid \in Server
  <2>1. \A x \in U : x.t.id >= 0 /\ x.t.id \in Int
    BY <1>1, <1>6, NAssumption DEF Server
  <2>2. g.pid \in Server => h.pid >= 0
    BY <1>1, <1>6, <2>1
  <2>3. h.pid \in Server => g.pid >= 0
    BY <1>1, <1>6, <2>1
  <2> QED BY <2>2, <2>3, PidInt
<1>8. CASE g.pid \in Server
  <2>1. PICK x \in U : x.op = "add" /\ x.t.id = g.pid /\ x.v = v
    BY <1>6, <1>8
  <2>2. PICK y \in U : y.op = "add" /\ y.t.id = h.pid /\ y.v = w
    BY <1>6, <1>7, <1>8
  <2>3. g.pid = h.pid
    BY <1>1, <1>6, <2>1, <2>2
  <2>4. x.t = y.t
    <3>1. x.t \in VC /\ y.t \in VC /\ x.t.vector = y.t.vector /\ x.t.id = y.t.id
      BY <1>1, <1>6, <2>1, <2>2, <2>3
    <3> QED BY <3>1 DEF VC
  <2>5. x = y
    BY <1>6, <2>1, <2>2, <2>4
  <2> QED BY <1>4, <2>1, <2>2, <2>3, <2>5
<1>9. CASE g.pid \notin Server
  <2>1. v = w
    BY <1>6, <1>7, <1>9
  <2>2. g.pid \in {PID_NEXIST, PID_WAIT_INNATE} /\ h.pid \in {PID_NEXIST, PID_WAIT_INNATE}
    BY <1>7, <1>9, PidInt
  <2> QED BY <1>4, <1>6, <2>1, <2>2
<1> QED BY <1>8, <1>9

\* What convergence of the priority queue comes to without its sum: servers that
\* have executed the same commands hold the same remove history, the same
\* winning add with the same innate value, and agree on whether it is a member.
MemberConverges ==
  \A r, s \in Server :
    SameOps(r, s) => /\ vc_equal(e[r].current, e[s].current)
                     /\ e[r].pid = e[s].pid
                     /\ innate[r] = innate[s]
                     /\ zset[r] = NULL <=> zset[s] = NULL

\* It holds for every number of servers and operations, although an increment or
\* a remove may overtake the add it follows.
THEOREM WinnerConverges == Spec => []MemberConverges
<1>1. IInv => MemberConverges
  <2> SUFFICES ASSUME IInv, NEW r \in Server, NEW s \in Server, SameOps(r, s)
               PROVE  /\ vc_equal(e[r].current, e[s].current)
                      /\ e[r].pid = e[s].pid
                      /\ innate[r] = innate[s]
                      /\ zset[r] = NULL <=> zset[s] = NULL
    BY DEF MemberConverges
  <2>1. /\ ElementType /\ P2PType(Command) /\ Streams /\ StampedByOrigin /\ OneAddPerLife
        /\ \A i \in Server : Shows(zset[i], e[i], innate[i], acquired[i])
    BY TypeSplit, ShowsEverywhere DEF IInv, Inv
  <2>2. Msgs(r) \in SUBSET Command /\ Msgs(s) = Msgs(r)
    BY <2>1, MsgsType DEF SameOps, Msgs
  <2>3. ASSUME NEW x \in Msgs(r), NEW y \in Msgs(r), x.op = "add", y.op = "add", x.t = y.t
        PROVE  x = y
    <3>1. PICK i \in Server : \E n \in 1..rcvd[r][i] : x = sent[i][n]
      BY InCollect DEF Msgs
    <3>2. PICK n \in 1..rcvd[r][i] : x = sent[i][n]
      BY <3>1
    <3>3. PICK k \in Server : \E p \in 1..rcvd[r][k] : y = sent[k][p]
      BY InCollect DEF Msgs
    <3>4. PICK p \in 1..rcvd[r][k] : y = sent[k][p]
      BY <3>3
    <3>5. n \in 1..Len(sent[i]) /\ p \in 1..Len(sent[k])
      <4>1. \A q \in Server : /\ rcvd[r][q] \in Nat /\ Len(sent[q]) \in Nat
                              /\ rcvd[r][q] <= Len(sent[q])
        BY <2>1 DEF Streams, P2PType, Vector
      <4> QED BY <4>1
    <3>6. i = k
      BY <2>1, <2>3, <3>2, <3>4, <3>5 DEF StampedByOrigin
    <3>7. n = p
      BY <2>1, <2>3, <3>2, <3>4, <3>5, <3>6 DEF OneAddPerLife
    <3> QED BY <3>2, <3>4, <3>6, <3>7
  <2>4. /\ e[r] \in REH /\ e[s] \in REH
        /\ Bounds(Msgs(r), e[r]) /\ Winner(Msgs(r), e[r], innate[r])
        /\ Bounds(Msgs(r), e[s]) /\ Winner(Msgs(r), e[s], innate[s])
    BY <2>1, <2>2 DEF IInv, ElementType
  <2>5. e[r].current.vector = e[s].current.vector /\ e[r].pid = e[s].pid /\ innate[r] = innate[s]
    BY <2>2, <2>3, <2>4, UniqueSummary
  <2>6. \A i \in Server : zset[i] = NULL <=> ~EXISTS(e[i])
    <3> SUFFICES ASSUME NEW i \in Server PROVE zset[i] = NULL <=> ~EXISTS(e[i])
      OBVIOUS
    <3>1. innate[i] + acquired[i] \in Int
      BY <2>1 DEF ElementType
    <3>2. innate[i] + acquired[i] # NULL
      BY <3>1, ValueAssumption
    <3> QED BY <2>1, <3>2 DEF Shows
  <2> QED BY <2>5, <2>6 DEF vc_equal, EXISTS
<1> QED BY <1>1, SummaryInvariance, PTL
=============================================================================
