-------------------------------- MODULE RList --------------------------------
(***************************************************************************)
(* t_rlist.c: the remove-win list.  One record per server:                 *)
(*   el[x]    position of x, its live inserts (aset), the removes no later *)
(*            insert covers (rset) and the stamp of the insert whose       *)
(*            properties count (value, Null: none)                         *)
(*   order    the linked list, invisible elements included                 *)
(*   len      the length kept under the key "length"                       *)
(*   current  the clock of the whole list, and ops the commands held back  *)
(*            until they are causally ready                                *)
(* An entry of aset has one property here, v, with its own clock vt; the   *)
(* code's six are handled alike and independently of each other.  aset and *)
(* rset are sets: each loop filters, updates each entry or takes the one   *)
(* of greatest id.                                                         *)
(***************************************************************************)
EXTENDS ListBasics

CONSTANT Value    \* the values of the property

VARIABLE rl

vars == <<rl, sent, rcvd, seen>>

rleNew == [pos |-> <<>>, value |-> Null, aset |-> {}, rset |-> {}]

Init ==
  /\ rl = [i \in Server |-> [el |-> [x \in Elem |-> rleNew], order |-> <<>>, len |-> 0,
                             current |-> vc_new(i), ops |-> <<>>]]
  /\ P2PInit

Pos(s) == [x \in Elem |-> s.el[x].pos]

LOOKUP(e) == e.aset # {} /\ e.rset = {}

Less(t, u) == vc_cmp(t, u) = VC_LESS

rl_aseNew(t, v) == [t |-> t, v |-> v, vt |-> t]

HighestId(aset) == (CHOOSE a \in aset : \A b \in aset : b.t.id <= a.t.id).t

\* value once aset has changed: kept while its entry is there.
reselect(value, aset) ==
  IF \E a \in aset : a.t = value THEN value
  ELSE IF aset = {} THEN Null ELSE HighestId(aset)

\* Gives x its position, unless it has had one since an earlier insert.
place(s, m) ==
  IF s.el[m.x].pos # <<>> THEN s
  ELSE [s EXCEPT !.el[m.x].pos = m.pos,
                 !.order = link(@, Pos(s), m.x, m.pos, m.pre)]

\* The list with element x replaced by e, its length following the visibility.
store(s, x, e) ==
  [s EXCEPT !.el[x] = e,
            !.len = IF LOOKUP(e) = LOOKUP(s.el[x]) THEN @
                    ELSE IF LOOKUP(e) THEN @ + 1 ELSE @ - 1]

\* Mutants of insertFunc: the removes it has seen are not dropped, and the
\* newest insert takes over whatever its server.
insertFunc_keeps_rset(s0, m) ==
  LET s == place(s0, m)
      e == s.el[m.x]
      live == {a \in e.aset : ~Less(a.t, m.t)} \cup {rl_aseNew(m.t, m.v)}
      kept == reselect(e.value, live)
  IN  store(s, m.x, [e EXCEPT !.aset = live,
                              !.value = IF kept.id < m.t.id THEN m.t ELSE kept])

insertFunc_last(s0, m) ==
  LET s == place(s0, m)
      e == s.el[m.x]
  IN  store(s, m.x, [e EXCEPT !.aset = {a \in @ : ~Less(a.t, m.t)} \cup {rl_aseNew(m.t, m.v)},
                              !.rset = {r \in @ : ~Less(r, m.t)},
                              !.value = m.t])

insertFunc(s0, m) ==
  LET s == place(s0, m)
      e == s.el[m.x]
      live == {a \in e.aset : ~Less(a.t, m.t)} \cup {rl_aseNew(m.t, m.v)}
      kept == reselect(e.value, live)
  IN  store(s, m.x, [e EXCEPT !.aset = live,
                              !.rset = {r \in @ : ~Less(r, m.t)},
                              !.value = IF kept.id < m.t.id THEN m.t ELSE kept])

\* Mutant of updateFunc: the last write to arrive stays.
updateFunc_last(s, m) ==
  [s EXCEPT !.el[m.x].aset =
     {IF Less(a.t, m.t) THEN [a EXCEPT !.v = m.v, !.vt = m.t] ELSE a : a \in @}]

\* The write is kept by each live insert it saw whose property clock is below
\* it.  That clock becomes the join of both, under the writer's id.
updateFunc(s, m) ==
  [s EXCEPT !.el[m.x].aset =
     {IF Less(a.t, m.t) /\ vc_cmp(a.vt, m.t) < VC_CMP_ERR
      THEN [a EXCEPT !.v = m.v, !.vt = [vc_update(@, m.t) EXCEPT !.id = m.t.id]]
      ELSE a : a \in @}]

\* Mutant of removeFunc: the length goes down even if x was not visible.
removeFunc_always_counts(s, m) ==
  LET e == s.el[m.x]
      live == {a \in e.aset : ~Less(a.t, m.t)}
  IN  [s EXCEPT !.el[m.x] = [e EXCEPT !.aset = live, !.rset = @ \cup {m.t},
                                      !.value = reselect(@, live)],
                !.len = @ - 1]

removeFunc(s, m) ==
  LET e == s.el[m.x]
      live == {a \in e.aset : ~Less(a.t, m.t)}
  IN  store(s, m.x, [e EXCEPT !.aset = live, !.rset = @ \cup {m.t},
                              !.value = reselect(@, live)])

Apply(s0, m) ==
  LET s == [s0 EXCEPT !.current = vc_update(@, m.t)]
  IN  CASE m.op = "insert" -> insertFunc(s, m)
        [] m.op = "update" -> updateFunc(s, m)
        [] m.op = "rem" -> removeFunc(s, m)

\* One round of notifyLoop: the first command of ops that is ready is applied.
notifyOnce(s) ==
  LET ready == {k \in DOMAIN s.ops : vc_causally_ready(s.current, s.ops[k].t)}
      k == Min(ready)
  IN  IF ready = {} THEN s
      ELSE [Apply(s, s.ops[k]) EXCEPT !.ops = RemoveAt(@, k)]

\* Mutant of notifyLoop: it stops after one command.
notifyLoop_once(s) == notifyOnce(s)

\* Each round but the last removes one command, so Len(ops) rounds suffice.
notifyLoop(s) == FoldLeft(LAMBDA acc, k : notifyOnce(acc), s, s.ops)

Effect(r, m) ==
  rl' = [rl EXCEPT ![r] = IF vc_causally_ready(@.current, m.t)
                          THEN notifyLoop(Apply(@, m))
                          ELSE [@ EXCEPT !.ops = Append(@, m)]]

Issue(i, m) == CanIssue(i) /\ Effect(i, m) /\ replicationBroadcast(i, m)

\* constructLeid's count: the sum of the list's clock.
ClockSum(s) == MapThenSumSet(LAMBDA j : s.current.vector[j], Server)

\* rlinsert of an element that has no position here yet.
rlinsertCommand(i, pre, x, v) ==
  LET s == rl[i]
      left == IF pre = Null THEN <<>> ELSE s.el[pre].pos
  IN  /\ pre # Null => LOOKUP(s.el[pre]) /\ left # <<>>
      /\ ~LOOKUP(s.el[x])
      /\ s.el[x].pos = <<>>
      /\ \E id \in constructLeid(left, rightOf(s.order, Pos(s), pre), i, ClockSum(s)) :
           Issue(i, [op |-> "insert", x |-> x, pre |-> pre, pos |-> id, v |-> v,
                     t |-> vc_now(s.current)])

\* rlinsert with "readd" in place of the predecessor.
readdCommand(i, x, v) ==
  LET e == rl[i].el[x]
  IN  /\ ~LOOKUP(e)
      /\ e.pos # <<>>
      /\ Issue(i, [op |-> "insert", x |-> x, pre |-> Null, pos |-> e.pos, v |-> v,
                   t |-> vc_now(rl[i].current)])

rlupdateCommand(i, x, v) ==
  /\ LOOKUP(rl[i].el[x])
  /\ Issue(i, [op |-> "update", x |-> x, v |-> v, t |-> vc_now(rl[i].current)])

rlremCommand(i, x) ==
  /\ LOOKUP(rl[i].el[x])
  /\ Issue(i, [op |-> "rem", x |-> x, t |-> vc_now(rl[i].current)])

\* Server j runs the effect phase of the next command of its peer i.
Deliver(i, j) ==
  /\ InFlight(i, j)
  /\ Effect(j, NextCmd(i, j))
  /\ ReadFromReplica(i, j)

Next ==
  \/ \E i \in Server, pre \in Elem \cup {Null}, x \in Elem, v \in Value :
       i \in Creators[x] /\ rlinsertCommand(i, pre, x, v)
  \/ \E i \in Server, x \in Elem, v \in Value : readdCommand(i, x, v)
  \/ \E i \in Server, x \in Elem, v \in Value : rlupdateCommand(i, x, v)
  \/ \E i \in Server, x \in Elem : rlremCommand(i, x)
  \/ \E i, j \in Server : Deliver(i, j)

Spec == Init /\ [][Next]_vars

\* What clients read: the length, and the entries that follow it.
rllenCommand(r) == rl[r].len

rllistCommand(r) == SelectSeq(rl[r].order, LAMBDA x : LOOKUP(rl[r].el[x]))
-----------------------------------------------------------------------------
TypeOK ==
  /\ \A r \in Server :
       /\ rl[r].current \in VC
       /\ rl[r].len \in Nat
       /\ \A x \in Elem :
            LET e == rl[r].el[x]
            IN  /\ \A k \in DOMAIN e.pos : e.pos[k] \in Position
                /\ e.value \in {a.t : a \in e.aset} \cup {Null}
                /\ \A a \in e.aset : {a.t, a.vt} \subseteq VC /\ a.v \in Value
                /\ e.rset \subseteq VC
  /\ rcvd \in [Server -> Vector]

SameApplied(r, s) == vc_equal(rl[r].current, rl[s].current)

\* The linked list stays sorted by position and loses or repeats no element,
\* and each client gets as many entries as the length announces.
ListSorted ==
  \A r \in Server : Ordered(rl[r].order, Pos(rl[r])) /\ rllenCommand(r) = Len(rllistCommand(r))

\* Servers that applied the same operations have the same list, positions, live
\* inserts, removes and winning insert, whatever order they applied them in.
Convergence ==
  \A r, s \in Server :
    SameApplied(r, s) =>
      /\ rl[r].order = rl[s].order
      /\ \A x \in Elem :
           LET e == rl[r].el[x]
               f == rl[s].el[x]
           IN  /\ e.pos = f.pos
               /\ e.rset = f.rset
               /\ e.value = f.value
               /\ {a.t : a \in e.aset} = {a.t : a \in f.aset}

\* Servers that applied the same operations show the same properties.
PropertyConverges ==
  \A r, s \in Server :
    SameApplied(r, s) =>
      \A x \in Elem : {<<a.t, a.v>> : a \in rl[r].el[x].aset} =
                      {<<a.t, a.v>> : a \in rl[s].el[x].aset}

\* The list has one clock for all its elements: a command that waits for one on
\* another element is released in the handler that applies that one.
QueueDrains ==
  \A r \in Server : (\A i \in Server : ~InFlight(i, r)) => rl[r].ops = <<>>

Applied(r) == Covered(rl[r].current.vector)

\* p happened before o: the stamp of o covers p.
Before(p, o) == p # o /\ p \in Covered(Cmd(o).t.vector)

\* Remove wins: an element is shown iff an insert of it is applied and every
\* applied remove of it happened before an applied insert of it.
RemoveWins ==
  \A r \in Server, x \in Elem :
    LET ops(op) == {o \in Applied(r) : Cmd(o).op = op /\ Cmd(o).x = x}
    IN  x \in ToSet(rllistCommand(r)) <=>
          /\ ops("insert") # {}
          /\ \A q \in ops("rem") : \E o \in ops("insert") : Before(q, o)

\* The state is well typed, and the linked list and its length are in order.
Inv == TypeOK /\ ListSorted
=============================================================================
