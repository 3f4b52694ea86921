------------------------------- MODULE RWFZSet -------------------------------
(***************************************************************************)
(* t_rwfzset.c: the priority queue of the RWF framework, for one element.  *)
(* The score is the innate value set by the winning add plus the acquired  *)
(* value accumulated by increments; zset[i] is the score in the sorted set *)
(* that rwfzscore and rwfzmax read, NULL when the element is not in it.    *)
(* Scores are integers here: the code's doubles are exact on them.         *)
(***************************************************************************)
EXTENDS RWFramework, FiniteSetsExt

CONSTANTS
  NULL,
  AddValue,     \* the scores clients add the element with
  IncrValue     \* the amounts clients increment it by

ASSUME ValueAssumption ==
  AddValue \subseteq Int /\ IncrValue \subseteq Int /\ NULL \notin Int

VARIABLES e, innate, acquired, zset

vars == <<e, innate, acquired, zset, sent, rcvd, seen>>

Command == [op : {"add", "incr", "rem"}, v : AddValue \cup IncrValue \cup {0}, t : VC]

Init ==
  /\ e = [i \in Server |-> REH_INIT(i)]
  /\ innate = [i \in Server |-> 0]
  /\ acquired = [i \in Server |-> 0]
  /\ zset = [i \in Server |-> NULL]
  /\ P2PInit

\* Mutant of removeFunc: the acquired value survives a remove.
removeFunc_keeps_acquired(r, t) ==
  IF removeCheck(e[r], t)
  THEN [h |-> REH_RMV_FUNC(e[r], t), innate |-> 0, acquired |-> acquired[r], zset |-> NULL]
  ELSE [h |-> e[r], innate |-> innate[r], acquired |-> acquired[r], zset |-> zset[r]]

\* The element after removeFunc(t), which resets the values and deletes it from
\* the sorted set when t brings removes the server had not heard of.
removeFunc(r, t) ==
  IF removeCheck(e[r], t)
  THEN [h |-> REH_RMV_FUNC(e[r], t), innate |-> 0, acquired |-> 0, zset |-> NULL]
  ELSE [h |-> e[r], innate |-> innate[r], acquired |-> acquired[r], zset |-> zset[r]]

SetElement(r, h, in, ac, z) ==
  /\ e' = [e EXCEPT ![r] = h]
  /\ innate' = [innate EXCEPT ![r] = in]
  /\ acquired' = [acquired EXCEPT ![r] = ac]
  /\ zset' = [zset EXCEPT ![r] = z]

rwfzaddEffect(r, v, t) ==
  LET f == removeFunc(r, t)
  IN  IF addCheck(f.h, t)
      THEN SetElement(r, addHeader(f.h, t), v, f.acquired, v + f.acquired)
      ELSE SetElement(r, f.h, f.innate, f.acquired, f.zset)

\* Mutant of rwfzincrbyEffect: an increment needs the element to exist already.
rwfzincrbyEffect_existing(r, v, t) ==
  LET f == removeFunc(r, t)
  IN  IF updateCheck(f.h, t) /\ EXISTS(f.h)
      THEN SetElement(r, f.h, f.innate, f.acquired + v, f.innate + f.acquired + v)
      ELSE SetElement(r, f.h, f.innate, f.acquired, f.zset)

rwfzincrbyEffect(r, v, t) ==
  LET f == removeFunc(r, t)
  IN  IF updateCheck(f.h, t)
      THEN SetElement(r, updateHeader(f.h), f.innate, f.acquired + v,
                      f.innate + f.acquired + v)
      ELSE SetElement(r, f.h, f.innate, f.acquired, f.zset)

rwfzremEffect(r, t) ==
  LET f == removeFunc(r, t)
  IN  SetElement(r, f.h, f.innate, f.acquired, f.zset)

Effect(r, m) ==
  \/ m.op = "add" /\ rwfzaddEffect(r, m.v, m.t)
  \/ m.op = "incr" /\ rwfzincrbyEffect(r, m.v, m.t)
  \/ m.op = "rem" /\ rwfzremEffect(r, m.t)

Issue(i, m) == CanIssue(i) /\ Effect(i, m) /\ replicationBroadcast(i, m)

rwfzaddCommand(i, v) ==
  /\ ~EXISTS(e[i])
  /\ Issue(i, [op |-> "add", v |-> v, t |-> e[i].current])

rwfzincrbyCommand(i, v) ==
  /\ EXISTS(e[i])
  /\ Issue(i, [op |-> "incr", v |-> v, t |-> e[i].current])

rwfzremCommand(i) ==
  /\ EXISTS(e[i])
  /\ Issue(i, [op |-> "rem", v |-> 0, t |-> vc_now(e[i].current)])

\* What a client reads.
rwfzscoreCommand(r) == zset[r]

\* Server j runs the effect phase of the next command of its peer i.
Deliver(i, j) ==
  /\ InFlight(i, j)
  /\ Effect(j, NextCmd(i, j))
  /\ ReadFromReplica(i, j)

Next ==
  \/ \E i \in Server, v \in AddValue : rwfzaddCommand(i, v)
  \/ \E i \in Server, v \in IncrValue : rwfzincrbyCommand(i, v)
  \/ \E i \in Server : rwfzremCommand(i)
  \/ \E i, j \in Server : Deliver(i, j)

Spec == Init /\ [][Next]_vars
-----------------------------------------------------------------------------
TypeOK ==
  /\ e \in [Server -> REH]
  /\ innate \in [Server -> Int]
  /\ acquired \in [Server -> Int]
  /\ zset \in [Server -> Int \cup {NULL}]
  /\ sent \in [Server -> Seq(Command)]
  /\ rcvd \in [Server -> Vector]
  /\ seen \in [Server -> Seq(Vector)]

\* Readers see the element iff its header says it exists, with the score its
\* metadata adds up to, and a removed element keeps no value behind.
ZsetAgrees ==
  \A r \in Server :
    /\ zset[r] = IF EXISTS(e[r]) THEN innate[r] + acquired[r] ELSE NULL
    /\ ~EXISTS(e[r]) => innate[r] = 0 /\ acquired[r] = 0

\* Strong convergence of the header and of both parts of the score.
Convergence ==
  \A r, s \in Server :
    SameOps(r, s) => /\ vc_equal(e[r].current, e[s].current)
                     /\ e[r].pid = e[s].pid
                     /\ innate[r] = innate[s]
                     /\ acquired[r] = acquired[s]
                     /\ zset[r] = zset[s]

Past[o \in Server \X Nat] == UNION {{p} \cup Past[p] : p \in Observed(o)}

KnownRemoves(r) ==
  {o \in UNION {{p} \cup Past[p] : p \in Executed(r)} : Cmd(o).op = "rem"}

\* The executed operations of one kind prepared with every known remove known.
Current(r, op) ==
  {o \in Executed(r) : Cmd(o).op = op /\ KnownRemoves(r) \subseteq Past[o]}

\* What a client should read: the value of the current add of the highest
\* server plus the sum of the current increments; nothing if there is neither.
\* An increment that overtook its add already counts.
ScoreIsSumOfCurrent ==
  \A r \in Server :
    LET adds == Current(r, "add")
        incrs == Current(r, "incr")
        base == IF adds = {} THEN 0
                ELSE Cmd(CHOOSE o \in adds : \A p \in adds : p[1] <= o[1]).v
    IN  rwfzscoreCommand(r) =
          IF adds \cup incrs = {} THEN NULL
          ELSE MapThenSumSet(LAMBDA o : Cmd(o).v, incrs) + base

\* The state is well typed, and the four pieces a remove or an add changes agree.
Inv == TypeOK /\ ZsetAgrees
=============================================================================
