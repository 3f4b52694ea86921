-------------------------------- MODULE OSet --------------------------------
(***************************************************************************)
(* t_oset.c: the add-win set, for one element of one container.  An add    *)
(* draws a tag; a remove lists the tags its server holds and cancels them. *)
(* At each server, current is the local tag counter, aset the live tags,   *)
(* rset the cancelled ones, exist the tag that represents the element      *)
(* (NULL for the null pointer) and zset the element's presence in the      *)
(* sorted set that oscontains and ossize read.                             *)
(* Lists are sets here: their order is never observable, because every     *)
(* loop either searches for a tag or takes the greatest one.               *)
(***************************************************************************)
EXTENDS P2P, LamportClock

CONSTANT NULL

VARIABLES current, exist, aset, rset, zset

oseVars == <<current, exist, aset, rset, zset>>
vars == <<current, exist, aset, rset, zset, sent, rcvd, seen>>

Tag == [x : Nat, id : Server]

ASSUME NULLAssumption == NULL \notin Tag

\* An add carries its own tag, a remove the tags it cancels.
Command == [op : {"add", "rem"}, tags : SUBSET Tag]

Init ==
  /\ current = [i \in Server |-> 0]
  /\ exist = [i \in Server |-> NULL]
  /\ aset = [i \in Server |-> {}]
  /\ rset = [i \in Server |-> {}]
  /\ zset = [i \in Server |-> FALSE]
  /\ P2PInit

LOOKUP(i) == aset[i] # {}

\* Mutant of Represents: any tag becomes the representative.
Represents_last(r, t) == TRUE

\* update_exist changes the representative, and then the sorted set is updated.
Represents(r, t) == exist[r] = NULL \/ lc_cmp_as_tag(exist[r], t) < 0

\* Mutant of osaddEffect: the cancelled tags are not consulted.
osaddEffect_no_rset(r, t) ==
  /\ aset' = [aset EXCEPT ![r] = @ \cup {t}]
  /\ exist' = [exist EXCEPT ![r] = IF Represents(r, t) THEN t ELSE @]
  /\ zset' = [zset EXCEPT ![r] = @ \/ Represents(r, t)]
  /\ UNCHANGED rset

osaddEffect(r, t) ==
  /\ IF t \in rset[r]
     THEN UNCHANGED <<aset, exist, zset>>
     ELSE /\ aset' = [aset EXCEPT ![r] = @ \cup {t}]
          /\ exist' = [exist EXCEPT ![r] = IF Represents(r, t) THEN t ELSE @]
          /\ zset' = [zset EXCEPT ![r] = @ \/ Represents(r, t)]
  /\ UNCHANGED rset

\* Mutant of osremEffect: the element is dropped whatever tags are left.
osremEffect_all(r, tags) ==
  /\ rset' = [rset EXCEPT ![r] = @ \cup tags]
  /\ aset' = [aset EXCEPT ![r] = {}]
  /\ exist' = [exist EXCEPT ![r] = NULL]
  /\ zset' = [zset EXCEPT ![r] = FALSE]

\* set_remove_tag for every tag, then set_resort if the representative is gone.
osremEffect(r, tags) ==
  LET live == aset[r] \ tags
      kept == exist[r] # NULL /\ exist[r] \notin tags
  IN  /\ rset' = [rset EXCEPT ![r] = @ \cup tags]
      /\ aset' = [aset EXCEPT ![r] = live]
      /\ exist' = [exist EXCEPT ![r] = IF kept THEN @
                                       ELSE IF live = {} THEN NULL
                                       ELSE NewestTag(live)]
      /\ zset' = [zset EXCEPT ![r] = IF kept THEN @ ELSE live # {}]

Effect(r, m) ==
  \/ m.op = "add" /\ \E t \in m.tags : osaddEffect(r, t)
  \/ m.op = "rem" /\ osremEffect(r, m.tags)

osaddCommand(i) ==
  LET m == [op |-> "add", tags |-> {[x |-> current[i], id |-> i]}]
  IN  /\ CanIssue(i)
      /\ ~LOOKUP(i)
      /\ current' = [current EXCEPT ![i] = @ + 1]
      /\ Effect(i, m)
      /\ replicationBroadcast(i, m)

osremCommand(i) ==
  LET m == [op |-> "rem", tags |-> aset[i]]
  IN  /\ CanIssue(i)
      /\ LOOKUP(i)
      /\ Effect(i, m)
      /\ UNCHANGED current
      /\ replicationBroadcast(i, m)

\* What a client reads.
oscontainsCommand(r) == zset[r]

\* Server j runs the effect phase of the next command of its peer i.
Deliver(i, j) ==
  /\ InFlight(i, j)
  /\ Effect(j, NextCmd(i, j))
  /\ UNCHANGED current
  /\ ReadFromReplica(i, j)

Next ==
  \/ \E i \in Server : osaddCommand(i) \/ osremCommand(i)
  \/ \E i, j \in Server : Deliver(i, j)

Spec == Init /\ [][Next]_vars
-----------------------------------------------------------------------------
TypeOK ==
  /\ current \in [Server -> Nat]
  /\ exist \in [Server -> Tag \cup {NULL}]
  /\ aset \in [Server -> SUBSET Tag]
  /\ rset \in [Server -> SUBSET Tag]
  /\ zset \in [Server -> BOOLEAN]
  /\ sent \in [Server -> Seq(Command)]
  /\ rcvd \in [Server -> Vector]
  /\ seen \in [Server -> Seq(Vector)]

\* The representative is the greatest live tag, so that the element is in the
\* sorted set exactly as long as one of its tags is live.
ExistIsNewest ==
  \A r \in Server :
    /\ zset[r] <=> LOOKUP(r)
    /\ exist[r] = IF LOOKUP(r) THEN NewestTag(aset[r]) ELSE NULL

\* Strong convergence: servers that have executed the same operations hold the
\* same tags, the same representative and the same membership.
Convergence ==
  \A r, s \in Server :
    SameOps(r, s) => /\ aset[r] = aset[s]
                     /\ rset[r] = rset[s]
                     /\ exist[r] = exist[s]
                     /\ zset[r] = zset[s]

\* The adds a server has executed and no remove it has executed had observed.
UnobservedAdds(r) ==
  {o \in Executed(r) :
     /\ Cmd(o).op = "add"
     /\ \A q \in Executed(r) : Cmd(q).op = "rem" => o \notin Observed(q)}

\* Whatever the operations executed at r depend on has been executed there too.
CausallyClosed(r) == \A q \in Executed(r) : Observed(q) \subseteq Executed(r)

\* Add wins: an add that no executed remove observed keeps the element in the
\* set.  Conversely, once what the removes had observed has arrived too, in
\* whatever order, only such adds do: a remove that overtook the add it
\* cancels still cancels it.
AddWins ==
  \A r \in Server :
    /\ UnobservedAdds(r) # {} => oscontainsCommand(r)
    /\ oscontainsCommand(r) /\ CausallyClosed(r) => UnobservedAdds(r) # {}
=============================================================================
