------------------------------- MODULE RWFList -------------------------------
(***************************************************************************)
(* t_rwflist.c: the list of the RWF framework.  One record per server:     *)
(*   el[x]  header, position, properties and Lamport counter of element x  *)
(*   order  the linked list, elements whose header says "removed" included *)
(*   len    the length kept under the key "length"                         *)
(*   ins    the sum of the vector kept under "current"; only the server's  *)
(*          own entry ever moves, once per position it creates             *)
(*   early  history variable: an update was run here before the insert of  *)
(*          its element                                                    *)
(* A property has a value and the timestamp of the update that wrote it,   *)
(* Null when the value is an insert's.  The code's six properties differ   *)
(* only in how the value is stored.  Unset is what zmalloc left there.     *)
(***************************************************************************)
EXTENDS ListBasics, LamportClock

CONSTANTS
  Property,   \* the properties of an element (font, size, ...)
  Value,      \* their values
  Unset       \* the indeterminate value of a property never written

VARIABLE rwfl

vars == <<rwfl, sent, rcvd, seen>>

rwfleNew(i) ==
  [h |-> REH_INIT(i), pos |-> <<>>, x |-> 0,
   prop |-> [p \in Property |-> [v |-> Unset, t |-> Null]]]

Init ==
  /\ rwfl = [i \in Server |-> [el |-> [x \in Elem |-> rwfleNew(i)],
                               order |-> <<>>, len |-> 0, ins |-> 0, early |-> FALSE]]
  /\ P2PInit

Pos(s) == [x \in Elem |-> s.el[x].pos]

\* Mutant of removeFunc: the timestamps of the properties survive.
removeFunc_keeps_lc(s, x, t) ==
  LET e == s.el[x]
  IN  IF ~removeCheck(e.h, t) THEN s
      ELSE [s EXCEPT !.el[x].h = REH_RMV_FUNC(e.h, t), !.el[x].x = 0,
                     !.len = IF EXISTS(e.h) THEN @ - 1 ELSE @]

\* Mutant of removeFunc: every remove that is new shortens the list.
removeFunc_always_counts(s, x, t) ==
  LET e == s.el[x]
  IN  IF ~removeCheck(e.h, t) THEN s
      ELSE [s EXCEPT !.el[x] = [e EXCEPT !.h = REH_RMV_FUNC(e.h, t), !.x = 0,
                                         !.prop = [p \in Property |-> [@[p] EXCEPT !.t = Null]]],
                     !.len = @ - 1]

removeFunc(s, x, t) ==
  LET e == s.el[x]
  IN  IF ~removeCheck(e.h, t) THEN s
      ELSE [s EXCEPT !.el[x] = [e EXCEPT !.h = REH_RMV_FUNC(e.h, t), !.x = 0,
                                         !.prop = [p \in Property |-> [@[p] EXCEPT !.t = Null]]],
                     !.len = IF EXISTS(e.h) THEN @ - 1 ELSE @]

\* Gives x its position, unless it has had one since an earlier insert.
place(s, m) ==
  IF s.el[m.x].pos # <<>> THEN s
  ELSE [s EXCEPT !.el[m.x].pos = m.pos,
                 !.order = link(@, Pos(s), m.x, m.pos, m.pre)]

rwflinsertEffect(s0, m) ==
  LET s == place(removeFunc(s0, m.x, m.t), m)
      e == s.el[m.x]
  IN  IF ~addCheck(e.h, m.t) THEN s
      ELSE [s EXCEPT !.el[m.x] = [e EXCEPT !.h = addHeader(e.h, m.t),
                       !.prop = [p \in Property |->
                         IF @[p].t = Null THEN [v |-> m.v, t |-> Null] ELSE @[p]]],
                     !.len = IF EXISTS(e.h) THEN @ ELSE @ + 1]

\* The write of the greatest timestamp stays.
acquired_update(e, p, lt, v) ==
  IF e.prop[p].t # Null /\ lc_cmp(e.prop[p].t, lt) > 0 THEN e
  ELSE [e EXCEPT !.prop[p] = [v |-> v, t |-> lt], !.x = IF lt.x > @ THEN lt.x ELSE @]

rwflupdateEffect(s0, m) ==
  LET s == removeFunc(s0, m.x, m.t)
      e == s.el[m.x]
  IN  IF ~updateCheck(e.h, m.t) THEN s
      ELSE [s EXCEPT !.el[m.x] =
              acquired_update([e EXCEPT !.h = updateHeader(e.h)], m.p, m.lt, m.v),
                     !.early = @ \/ ~EXISTS(e.h)]

effect(s, m) == CASE m.op = "insert" -> rwflinsertEffect(s, m)
                  [] m.op = "update" -> rwflupdateEffect(s, m)
                  [] m.op = "rem" -> removeFunc(s, m.x, m.t)

\* Server i, whose prepare phase left it in state s, runs and broadcasts m.
Issue(i, s, m) ==
  /\ CanIssue(i)
  /\ rwfl' = [rwfl EXCEPT ![i] = effect(s, m)]
  /\ replicationBroadcast(i, m)

Existing(i, x) == EXISTS(rwfl[i].el[x].h)

\* rwflinsert of an element that has no position here yet.
rwflinsertCommand(i, pre, x, v) ==
  LET s == rwfl[i]
      left == IF pre = Null THEN <<>> ELSE s.el[pre].pos
  IN  /\ pre # Null => Existing(i, pre) /\ left # <<>>
      /\ ~Existing(i, x)
      /\ s.el[x].pos = <<>>
      /\ \E id \in constructLeid(left, rightOf(s.order, Pos(s), pre), i, s.ins) :
           Issue(i, [s EXCEPT !.ins = @ + 1],
                 [op |-> "insert", x |-> x, pre |-> pre, pos |-> id, v |-> v,
                  t |-> s.el[x].h.current])

\* rwflinsert with "readd" in place of the predecessor.
readdCommand(i, x, v) ==
  LET e == rwfl[i].el[x]
  IN  /\ ~Existing(i, x)
      /\ e.pos # <<>>
      /\ Issue(i, rwfl[i], [op |-> "insert", x |-> x, pre |-> Null, pos |-> e.pos,
                            v |-> v, t |-> e.h.current])

rwflupdateCommand(i, x, p, v) ==
  LET e == rwfl[i].el[x]
  IN  /\ Existing(i, x)
      /\ Issue(i, rwfl[i], [op |-> "update", x |-> x, p |-> p, v |-> v,
                            lt |-> [x |-> e.x + 1, id |-> i], t |-> e.h.current])

rwflremCommand(i, x) ==
  /\ Existing(i, x)
  /\ Issue(i, rwfl[i], [op |-> "rem", x |-> x, t |-> vc_now(rwfl[i].el[x].h.current)])

\* Server j runs the effect phase of the next command of its peer i.
Deliver(i, j) ==
  /\ InFlight(i, j)
  /\ rwfl' = [rwfl EXCEPT ![j] = effect(@, NextCmd(i, j))]
  /\ ReadFromReplica(i, j)

Next ==
  \/ \E i \in Server, pre \in Elem \cup {Null}, x \in Elem, v \in Value :
       i \in Creators[x] /\ rwflinsertCommand(i, pre, x, v)
  \/ \E i \in Server, x \in Elem, v \in Value : readdCommand(i, x, v)
  \/ \E i \in Server, x \in Elem, p \in Property, v \in Value : rwflupdateCommand(i, x, p, v)
  \/ \E i \in Server, x \in Elem : rwflremCommand(i, x)
  \/ \E i, j \in Server : Deliver(i, j)

Spec == Init /\ [][Next]_vars

\* What clients read: the length, and the entries that follow it.
rwfllenCommand(r) == rwfl[r].len

rwfllistCommand(r) == SelectSeq(rwfl[r].order, LAMBDA x : Existing(r, x))
-----------------------------------------------------------------------------
TypeOK ==
  /\ \A r \in Server :
       /\ rwfl[r].len \in Int /\ rwfl[r].ins \in Nat
       /\ \A x \in Elem :
            LET e == rwfl[r].el[x]
            IN  /\ e.h \in REH
                /\ e.x \in Nat
                /\ \A k \in DOMAIN e.pos : e.pos[k] \in Position
                /\ \A p \in Property : e.prop[p].v \in Value \cup {Unset}
  /\ rcvd \in [Server -> Vector]

\* Wherever an insert arrives from and whatever it overtook, the linked list
\* stays sorted by position and loses or repeats no element.
ListSorted == \A r \in Server : Ordered(rwfl[r].order, Pos(rwfl[r]))

\* Servers that executed the same operations have the same list, tombstones
\* included, and the same entries to show.
OrderConverges ==
  \A r, s \in Server :
    SameOps(r, s) => /\ rwfl[r].order = rwfl[s].order
                     /\ Pos(rwfl[r]) = Pos(rwfl[s])
                     /\ rwfllistCommand(r) = rwfllistCommand(s)

On(r, x, op) == {o \in Executed(r) : Cmd(o).op = op /\ Cmd(o).x = x}

\* The operations on the same element that o builds on, directly or not.  News
\* of a remove travels in the headers of one element only.
Past[o \in Server \X Nat] ==
  UNION {{p} \cup Past[p] : p \in {q \in Observed(o) : Cmd(q).x = Cmd(o).x}}

KnownRemoves(r, x) ==
  {o \in UNION {{p} \cup Past[p] : p \in {q \in Executed(r) : Cmd(q).x = x}} : Cmd(o).op = "rem"}

\* The executed operations of one kind on x prepared with every known remove of
\* x known.
Current(r, x, op) == {o \in On(r, x, op) : KnownRemoves(r, x) \subseteq Past[o]}

\* What a client should read of an element that some current insert created:
\* a property has the value of its last update, by Lamport order, and without
\* one the value of the insert of the highest server.
LastWriteWins ==
  \A r \in Server, x \in Elem, p \in Property :
    LET inserts == Current(r, x, "insert")
        updates == {o \in Current(r, x, "update") : Cmd(o).p = p}
        write == IF updates = {}
                 THEN CHOOSE o \in inserts : \A q \in inserts : q[1] <= o[1]
                 ELSE CHOOSE o \in updates :
                        \A q \in updates : lc_cmp(Cmd(q).lt, Cmd(o).lt) <= 0
    IN  inserts # {} => /\ Existing(r, x)
                        /\ rwfl[r].el[x].prop[p].v = Cmd(write).v

\* The length that rwfllen returns, and that rwfllist announces, is the number of
\* entries rwfllist writes, where no update has overtaken the insert of its
\* element.  Such an update makes the element exist without counting it.
LenAgrees ==
  \A r \in Server : ~rwfl[r].early => rwfllenCommand(r) = Len(rwfllistCommand(r))

\* The state is well typed and the linked list in order.
Inv == TypeOK /\ ListSorted
=============================================================================
