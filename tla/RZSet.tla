-------------------------------- MODULE RZSet --------------------------------
(***************************************************************************)
(* t_rzset.c: the remove-win priority queue, for one element.  Every       *)
(* operation on the element is stamped with the element's vector clock and *)
(* held back in ops until it is causally ready.  aset holds the adds no    *)
(* later add or remove covers, rset the removes no later add covers, and   *)
(* value is the stamp of the add whose score counts (NULL: none).          *)
(* zset is the score in the sorted set that rzscore and rzmax read, NULL   *)
(* when the element is not in it.                                          *)
(* aset and rset are sets here: their order is never observable, because   *)
(* every loop filters, updates each entry or takes the one of greatest id. *)
(***************************************************************************)
EXTENDS P2P, FiniteSetsExt, SequencesExt

CONSTANTS
  NULL,
  AddValue,     \* the scores each server's clients add the element with
  IncrValue     \* the amounts clients increment it by

ASSUME ValueAssumption ==
  AddValue \in [Server -> SUBSET Int] /\ IncrValue \subseteq Int /\ NULL \notin Int

Score == UNION {AddValue[i] : i \in Server}

VARIABLE rze

vars == <<rze, sent, rcvd, seen>>

Command == [op : {"add", "incr", "rem"}, v : Score \cup IncrValue \cup {0}, t : VC]

rzeNew(i) == [current |-> vc_new(i), value |-> NULL, aset |-> {}, rset |-> {},
              ops |-> <<>>, zset |-> NULL]

Init == rze = [i \in Server |-> rzeNew(i)] /\ P2PInit

LOOKUP(e) == e.aset # {} /\ e.rset = {}

Less(t, u) == vc_cmp(t, u) = VC_LESS

\* The entry value points to.
ValueEntry(e) == CHOOSE a \in e.aset : a.t = e.value

SCORE(e) == ValueEntry(e).x + ValueEntry(e).inc

\* The stamp of greatest id in aset.
HighestId(aset) == (CHOOSE a \in aset : \A b \in aset : b.t.id <= a.t.id).t

\* value after aset shrank: kept if its entry is still there.  (It is NULL only
\* when aset was empty, see ValueIsWinner, so that addFunc's test for a removed
\* entry changes nothing.)
reselect(value, aset) ==
  IF \E a \in aset : a.t = value THEN value
  ELSE IF aset = {} THEN NULL ELSE HighestId(aset)

\* Mutants of addFunc: the newest add takes over whatever its server, and the
\* removes it has seen are not dropped.
addFunc_last(e, m) ==
  LET live == {a \in e.aset : ~Less(a.t, m.t)} \cup {[t |-> m.t, x |-> m.v, inc |-> 0]}
      new == [e EXCEPT !.aset = live, !.rset = {r \in @ : ~Less(r, m.t)},
                       !.value = m.t, !.current = vc_update(@, m.t)]
  IN  [new EXCEPT !.zset = IF LOOKUP(new) THEN SCORE(new) ELSE @]

addFunc_keeps_rset(e, m) ==
  LET live == {a \in e.aset : ~Less(a.t, m.t)} \cup {[t |-> m.t, x |-> m.v, inc |-> 0]}
      kept == reselect(e.value, live)
      new == [e EXCEPT !.aset = live, !.value = IF kept.id < m.t.id THEN m.t ELSE kept,
                       !.current = vc_update(@, m.t)]
  IN  [new EXCEPT !.zset = IF LOOKUP(new) THEN SCORE(new) ELSE @]

addFunc(e, m) ==
  LET live == {a \in e.aset : ~Less(a.t, m.t)} \cup {[t |-> m.t, x |-> m.v, inc |-> 0]}
      kept == reselect(e.value, live)
      new == [e EXCEPT !.aset = live,
                       !.rset = {r \in @ : ~Less(r, m.t)},
                       !.value = IF kept.id < m.t.id THEN m.t ELSE kept,
                       !.current = vc_update(@, m.t)]
  IN  [new EXCEPT !.zset = IF LOOKUP(new) THEN SCORE(new) ELSE @]

\* Mutant of increaseFunc: every live add is incremented, seen or not.
increaseFunc_all(e, m) ==
  LET new == [e EXCEPT !.aset = {[a EXCEPT !.inc = @ + m.v] : a \in @},
                       !.current = vc_update(@, m.t)]
  IN  [new EXCEPT !.zset = IF LOOKUP(new) THEN SCORE(new) ELSE @]

increaseFunc(e, m) ==
  LET new == [e EXCEPT
                !.aset = {[a EXCEPT !.inc = IF Less(a.t, m.t) THEN @ + m.v ELSE @] : a \in @},
                !.current = vc_update(@, m.t)]
  IN  [new EXCEPT !.zset = IF LOOKUP(new) /\ Less(new.value, m.t) THEN SCORE(new) ELSE @]

removeFunc(e, m) ==
  LET live == {a \in e.aset : ~Less(a.t, m.t)}
      new == [e EXCEPT !.aset = live,
                       !.rset = @ \cup {m.t},
                       !.value = reselect(@, live),
                       !.current = vc_update(@, m.t)]
  IN  [new EXCEPT !.zset = IF LOOKUP(new) THEN @ ELSE NULL]

Apply(e, m) == CASE m.op = "add" -> addFunc(e, m)
                 [] m.op = "incr" -> increaseFunc(e, m)
                 [] m.op = "rem" -> removeFunc(e, m)

\* One round of notifyLoop: the first command of ops that is ready is applied.
notifyOnce(e) ==
  LET ready == {k \in DOMAIN e.ops : vc_causally_ready(e.current, e.ops[k].t)}
      k == Min(ready)
  IN  IF ready = {} THEN e
      ELSE [Apply(e, e.ops[k]) EXCEPT !.ops = RemoveAt(@, k)]

\* Mutant of notifyLoop: one pass over the queue, applying only its head.
notifyLoop_head(e) ==
  IF e.ops # <<>> /\ vc_causally_ready(e.current, Head(e.ops).t)
  THEN [Apply(e, Head(e.ops)) EXCEPT !.ops = Tail(@)] ELSE e

\* Each round but the last removes one command, so Len(ops) rounds suffice.
notifyLoop(e) == FoldLeft(LAMBDA acc, k : notifyOnce(acc), e, e.ops)

Effect(r, m) ==
  rze' = [rze EXCEPT ![r] = IF vc_causally_ready(@.current, m.t)
                            THEN notifyLoop(Apply(@, m))
                            ELSE [@ EXCEPT !.ops = Append(@, m)]]

Issue(i, op, v) ==
  LET m == [op |-> op, v |-> v, t |-> vc_now(rze[i].current)]
  IN  CanIssue(i) /\ Effect(i, m) /\ replicationBroadcast(i, m)

rzaddCommand(i, v) == ~LOOKUP(rze[i]) /\ Issue(i, "add", v)

rzincrbyCommand(i, v) == LOOKUP(rze[i]) /\ Issue(i, "incr", v)

rzremCommand(i) == LOOKUP(rze[i]) /\ Issue(i, "rem", 0)

\* What a client reads.
rzscoreCommand(r) == rze[r].zset

\* Server j runs the effect phase of the next command of its peer i.
Deliver(i, j) ==
  /\ InFlight(i, j)
  /\ Effect(j, NextCmd(i, j))
  /\ ReadFromReplica(i, j)

Next ==
  \/ \E i \in Server : \E v \in AddValue[i] : rzaddCommand(i, v)
  \/ \E i \in Server, v \in IncrValue : rzincrbyCommand(i, v)
  \/ \E i \in Server : rzremCommand(i)
  \/ \E i, j \in Server : Deliver(i, j)

Spec == Init /\ [][Next]_vars

FairSpec == Spec /\ FairStreams
-----------------------------------------------------------------------------
TypeOK ==
  /\ \A i \in Server :
       /\ rze[i].current \in VC
       /\ rze[i].value \in {a.t : a \in rze[i].aset} \cup {NULL}
       /\ \A a \in rze[i].aset : a.t \in VC /\ a.x \in Score /\ a.inc \in Int
       /\ rze[i].rset \subseteq VC
       /\ \A k \in DOMAIN rze[i].ops : rze[i].ops[k] \in Command
       /\ rze[i].zset \in Int \cup {NULL}
  /\ rcvd \in [Server -> Vector]

\* The operations applied at r.  The clock counts them per origin.
Applied(r) == Covered(rze[r].current.vector)

\* p happened before o: the stamp of o covers p.
Before(p, o) == p # o /\ p \in Covered(Cmd(o).t.vector)

\* Causal delivery: what is applied at a server includes all that it depends
\* on, and the queue holds exactly what was received and is not yet applied.
CausalDelivery ==
  \A r \in Server :
    /\ \A o \in Applied(r) : Covered(Cmd(o).t.vector) \subseteq Applied(r)
    /\ {Cmd(o) : o \in Executed(r) \ Applied(r)} = ToSet(rze[r].ops)
    /\ Cardinality(Executed(r) \ Applied(r)) = Len(rze[r].ops)

\* Strong convergence: servers that applied the same operations hold the same
\* adds, removes, winning add and score.
Convergence ==
  \A r, s \in Server :
    vc_equal(rze[r].current, rze[s].current) =>
      /\ rze[r].aset = rze[s].aset
      /\ rze[r].rset = rze[s].rset
      /\ rze[r].value = rze[s].value
      /\ rze[r].zset = rze[s].zset

\* The pointer that SCORE follows leads to a live add, the one of the highest
\* server, whenever there is one; no two live adds are of the same server.
ValueIsWinner ==
  \A r \in Server :
    /\ rze[r].value = IF rze[r].aset = {} THEN NULL ELSE HighestId(rze[r].aset)
    /\ \A a, b \in rze[r].aset : a.t.id = b.t.id => a = b

Ops(r, op) == {o \in Applied(r) : Cmd(o).op = op}

\* Remove wins: the element is in the queue iff an add is applied and every
\* applied remove happened before an applied add.  Its score is that of the
\* add of the highest server, among those no later add or remove covers, plus
\* the increments that saw this add.
RemoveWinsScore ==
  \A r \in Server :
    LET member == /\ Ops(r, "add") # {}
                  /\ \A q \in Ops(r, "rem") : \E o \in Ops(r, "add") : Before(q, o)
        latest == {o \in Ops(r, "add") :
                     \A p \in Ops(r, "add") \cup Ops(r, "rem") : ~Before(o, p)}
        win == CHOOSE o \in latest : \A p \in latest : p[1] <= o[1]
    IN  rzscoreCommand(r) =
          IF ~member THEN NULL
          ELSE Cmd(win).v + MapThenSumSet(LAMBDA o : Cmd(o).v,
                                          {o \in Ops(r, "incr") : Before(win, o)})

\* Every command received is applied in the end, however late what it waits
\* for arrives.
EventuallyApplied ==
  \A r \in Server : rze[r].ops # <<>> ~> rze[r].ops = <<>>

\* The state is well typed, and SCORE can follow its pointer.
Inv == TypeOK /\ ValueIsWinner
=============================================================================
