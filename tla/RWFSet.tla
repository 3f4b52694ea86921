------------------------------- MODULE RWFSet -------------------------------
(***************************************************************************)
(* t_rwfset.c: the set of the RWF framework, for one element of one        *)
(* container.  The handlers touch only the metadata and the zset entry of  *)
(* the element they name, so the elements do not interact.                 *)
(* e[i] is the element's header at server i; zset[i] says whether the      *)
(* element is in the sorted set that rwfscontains and rwfssize read.       *)
(***************************************************************************)
EXTENDS RWFramework

VARIABLES e, zset

vars == <<e, zset, sent, rcvd, seen>>

Command == [op : {"add", "rem"}, t : VC]

Init ==
  /\ e = [i \in Server |-> REH_INIT(i)]
  /\ zset = [i \in Server |-> FALSE]
  /\ P2PInit

\* The header after removeFunc(t): the remove history of t is merged in.
afterRemove(h, t) == IF removeCheck(h, t) THEN REH_RMV_FUNC(h, t) ELSE h

\* Mutant of rwfsaddEffect: an add does not merge its remove history first.
rwfsaddEffect_no_merge(r, t) ==
  /\ e' = [e EXCEPT ![r] = IF addCheck(@, t) THEN addHeader(@, t) ELSE @]
  /\ zset' = [zset EXCEPT ![r] = @ \/ addCheck(e[r], t)]

rwfsaddEffect(r, t) ==
  LET h == afterRemove(e[r], t)
  IN  /\ e' = [e EXCEPT ![r] = IF addCheck(h, t) THEN addHeader(h, t) ELSE h]
      /\ zset' = [zset EXCEPT ![r] = \/ addCheck(h, t)
                                     \/ @ /\ ~removeCheck(e[r], t)]

rwfsremEffect(r, t) ==
  /\ e' = [e EXCEPT ![r] = afterRemove(@, t)]
  /\ zset' = [zset EXCEPT ![r] = @ /\ ~removeCheck(e[r], t)]

Effect(r, m) ==
  \/ m.op = "add" /\ rwfsaddEffect(r, m.t)
  \/ m.op = "rem" /\ rwfsremEffect(r, m.t)

rwfsaddCommand(i) ==
  LET m == [op |-> "add", t |-> e[i].current]
  IN  /\ CanIssue(i)
      /\ ~EXISTS(e[i])
      /\ Effect(i, m)
      /\ replicationBroadcast(i, m)

rwfsremCommand(i) ==
  LET m == [op |-> "rem", t |-> vc_now(e[i].current)]
  IN  /\ CanIssue(i)
      /\ EXISTS(e[i])
      /\ Effect(i, m)
      /\ replicationBroadcast(i, m)

\* What a client reads.
rwfscontainsCommand(r) == zset[r]

\* Server j runs the effect phase of the next command of its peer i.
Deliver(i, j) ==
  /\ InFlight(i, j)
  /\ Effect(j, NextCmd(i, j))
  /\ ReadFromReplica(i, j)

Next ==
  \/ \E i \in Server : rwfsaddCommand(i) \/ rwfsremCommand(i)
  \/ \E i, j \in Server : Deliver(i, j)

Spec == Init /\ [][Next]_vars

FairSpec == Spec /\ FairStreams
-----------------------------------------------------------------------------
TypeOK ==
  /\ e \in [Server -> REH]
  /\ zset \in [Server -> BOOLEAN]
  /\ sent \in [Server -> Seq(Command)]
  /\ rcvd \in [Server -> Vector]
  /\ seen \in [Server -> Seq(Vector)]

\* The sorted set the readers see agrees with the header the updates use.
ZsetAgrees == \A r \in Server : zset[r] <=> EXISTS(e[r])

\* Strong convergence: two servers that have executed the same operations, in
\* whatever orders the streams allowed, hold the same remove history, the same
\* winning add and the same membership.
Convergence ==
  \A r, s \in Server :
    SameOps(r, s) => /\ vc_equal(e[r].current, e[s].current)
                     /\ e[r].pid = e[s].pid
                     /\ zset[r] = zset[s]

\* The causal past of an operation: what its origin had executed, what the
\* origins of those had executed, and so on.
Past[o \in Server \X Nat] ==
  UNION {{p} \cup Past[p] : p \in Observed(o)}

\* The removes a server knows of: those it executed and those in their past.
KnownRemoves(r) ==
  {o \in UNION {{p} \cup Past[p] : p \in Executed(r)} : Cmd(o).op = "rem"}

\* Remove wins: the element is in the set iff the server has executed an add
\* that was prepared with knowledge of every remove the server knows of.  The
\* remove-history vector is a faithful summary of those sets of removes.
RemoveWins ==
  \A r \in Server :
    rwfscontainsCommand(r) <=>
      \E o \in Executed(r) : Cmd(o).op = "add" /\ KnownRemoves(r) \subseteq Past[o]

\* Once clients stop, every stream drains and all servers agree for ever.
EventuallyAgree ==
  <>[](\A r, s \in Server : rwfscontainsCommand(r) = rwfscontainsCommand(s))
=============================================================================
