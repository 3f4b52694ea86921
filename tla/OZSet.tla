-------------------------------- MODULE OZSet --------------------------------
(***************************************************************************)
(* t_ozset.c: the add-win priority queue, for one element.  Every live tag *)
(* carries the value x of its add and the increments it has received (inc, *)
(* and count, the sum of their absolute values).  The score is the x of    *)
(* the tag innate plus the inc of the tag acquired.                        *)
(* add_ase allocates an entry without setting x.  An increment that        *)
(* overtakes its add creates such an entry, and its x is then whatever the *)
(* allocator returns: a choice from Garbage.                               *)
(***************************************************************************)
EXTENDS P2P, LamportClock, SequencesExt

CONSTANTS
  NULL,
  AddValue,     \* the scores clients add the element with
  IncrValue,    \* the amounts clients increment it by
  Garbage       \* what uninitialised memory may hold

ASSUME ValueAssumption ==
  /\ AddValue \subseteq Int /\ IncrValue \subseteq Int /\ Garbage \subseteq Int
  /\ NULL \notin Int

VARIABLES oze, zset

vars == <<oze, zset, sent, rcvd, seen>>

Tag == [x : Nat, id : Server]

Entry == [x : Int, inc : Int, count : Nat]

\* aset is a function from the live tags to their entries; innate and acquired
\* are the tags the code's pointers lead to.  blind is a history variable: an
\* increment has created an entry here, whose x was not set.
ozeNew == [current |-> 0, innate |-> NULL, acquired |-> NULL,
           aset |-> <<>>, rset |-> {}, blind |-> FALSE]

Init ==
  /\ oze = [i \in Server |-> ozeNew]
  /\ zset = [i \in Server |-> NULL]
  /\ P2PInit

Tags(e) == DOMAIN e.aset

LOOKUP(e) == Tags(e) # {}

SCORE(e) == (IF e.innate = NULL THEN 0 ELSE e.aset[e.innate].x)
          + (IF e.acquired = NULL THEN 0 ELSE e.aset[e.acquired].inc)

\* The entry of t: the one it has, or the one add_ase makes.
EntryOf(e, t, garbage) ==
  IF t \in Tags(e) THEN e.aset[t] ELSE [x |-> garbage, inc |-> 0, count |-> 0]

put(aset, t, entry) == [u \in DOMAIN aset \cup {t} |-> IF u = t THEN entry ELSE aset[u]]

Abs(v) == IF v > 0 THEN v ELSE -v

\* The order in which an entry with more increments, then a newer tag, wins.
acquiredBefore(aset, t, u) ==
  \/ aset[t].count < aset[u].count
  \/ aset[t].count = aset[u].count /\ lc_cmp_as_tag(t, u) < 0

\* Mutant of update_innate_value: the last add executed becomes innate.
update_innate_value_last(e, t, v) ==
  IF t \in e.rset THEN e
  ELSE [e EXCEPT !.aset = put(@, t, [EntryOf(e, t, v) EXCEPT !.x = v]), !.innate = t]

update_innate_value(e, t, v) ==
  IF t \in e.rset THEN e
  ELSE [e EXCEPT
          !.aset = put(@, t, [EntryOf(e, t, v) EXCEPT !.x = v]),
          !.innate = IF @ = NULL \/ lc_cmp_as_tag(@, t) < 0 THEN t ELSE @]

\* Mutant of update_acquired_value: the cancelled tags are not consulted.
update_acquired_value_no_rset(e, t, v, garbage) ==
  LET new == put(e.aset, t,
                 [EntryOf(e, t, garbage) EXCEPT !.inc = @ + v, !.count = @ + Abs(v)])
  IN  [e EXCEPT
         !.aset = new,
         !.acquired = IF @ = NULL \/ acquiredBefore(new, @, t) THEN t ELSE @,
         !.blind = @ \/ t \notin Tags(e)]

update_acquired_value(e, t, v, garbage) ==
  IF t \in e.rset THEN e
  ELSE LET new == put(e.aset, t,
                      [EntryOf(e, t, garbage) EXCEPT !.inc = @ + v, !.count = @ + Abs(v)])
       IN  [e EXCEPT
              !.aset = new,
              !.acquired = IF @ = NULL \/ acquiredBefore(new, @, t) THEN t ELSE @,
              !.blind = @ \/ t \notin Tags(e)]

\* Mutant of removeTags: a tag that is not live yet is not recorded as cancelled.
removeTags_live_only(e, tags) ==
  [e EXCEPT !.rset = @ \cup (tags \cap DOMAIN e.aset),
            !.aset = [u \in DOMAIN @ \ tags |-> @[u]],
            !.innate = IF @ \in tags THEN NULL ELSE @,
            !.acquired = IF @ \in tags THEN NULL ELSE @]

\* remove_tag for every listed tag.
removeTags(e, tags) ==
  [e EXCEPT !.rset = @ \cup tags,
            !.aset = [u \in DOMAIN @ \ tags |-> @[u]],
            !.innate = IF @ \in tags THEN NULL ELSE @,
            !.acquired = IF @ \in tags THEN NULL ELSE @]

\* With both pointers set, nothing; else both move to the best of all entries.
resort(e) ==
  IF Tags(e) = {} \/ (e.innate # NULL /\ e.acquired # NULL) THEN e
  ELSE [e EXCEPT
          !.innate = NewestTag(Tags(e)),
          !.acquired = CHOOSE t \in Tags(e) :
                         \A u \in Tags(e) \ {t} : acquiredBefore(e.aset, u, t)]

\* e is the element the effect finds at r.  The sorted set changes if innate did.
ozaddEffect(r, e, t, v) ==
  LET new == update_innate_value(e, t, v)
  IN  /\ oze' = [oze EXCEPT ![r] = new]
      /\ zset' = [zset EXCEPT ![r] = IF new.innate # e.innate THEN SCORE(new) ELSE @]

\* The tags are visited in the order of the list at their origin, which the
\* score does not depend on; any order is allowed.  The sorted set changes if
\* acquired moved or if the entry it points to was incremented.
ozincrbyEffect(r, tags, v) ==
  \E order \in SetToSeqs(tags), garbage \in [tags -> Garbage] :
    LET new == FoldLeft(LAMBDA e, t : update_acquired_value(e, t, v, garbage[t]),
                        oze[r], order)
        changed == new.acquired # oze[r].acquired \/ new.acquired \in tags
    IN  /\ oze' = [oze EXCEPT ![r] = new]
        /\ zset' = [zset EXCEPT ![r] = IF changed THEN SCORE(new) ELSE @]

ozremEffect(r, tags) ==
  LET cut == removeTags(oze[r], tags)
      new == resort(cut)
  IN  /\ oze' = [oze EXCEPT ![r] = new]
      /\ zset' = [zset EXCEPT ![r] =
                    IF cut.innate # NULL /\ cut.acquired # NULL THEN @
                    ELSE IF LOOKUP(new) THEN SCORE(new) ELSE NULL]

Effect(r, m) ==
  \/ m.op = "add" /\ \E t \in m.tags : ozaddEffect(r, oze[r], t, m.v)
  \/ m.op = "incr" /\ ozincrbyEffect(r, m.tags, m.v)
  \/ m.op = "rem" /\ ozremEffect(r, m.tags)

-----------------------------------------------------------------------------
\* ozadd draws its tag in the prepare phase, before the effect looks it up.
ozaddCommand(i, v) ==
  LET t == [x |-> oze[i].current, id |-> i]
      e == [oze[i] EXCEPT !.current = @ + 1]
  IN  /\ CanIssue(i)
      /\ ~LOOKUP(oze[i])
      /\ ozaddEffect(i, e, t, v)
      /\ replicationBroadcast(i, [op |-> "add", v |-> v, tags |-> {t}])

ozincrbyCommand(i, v) ==
  LET m == [op |-> "incr", v |-> v, tags |-> Tags(oze[i])]
  IN  /\ CanIssue(i)
      /\ LOOKUP(oze[i])
      /\ Effect(i, m)
      /\ replicationBroadcast(i, m)

ozremCommand(i) ==
  LET m == [op |-> "rem", v |-> 0, tags |-> Tags(oze[i])]
  IN  /\ CanIssue(i)
      /\ LOOKUP(oze[i])
      /\ Effect(i, m)
      /\ replicationBroadcast(i, m)

\* What a client reads.
ozscoreCommand(r) == zset[r]

\* Server j runs the effect phase of the next command of its peer i.
Deliver(i, j) ==
  /\ InFlight(i, j)
  /\ Effect(j, NextCmd(i, j))
  /\ ReadFromReplica(i, j)

Next ==
  \/ \E i \in Server, v \in AddValue : ozaddCommand(i, v)
  \/ \E i \in Server, v \in IncrValue : ozincrbyCommand(i, v)
  \/ \E i \in Server : ozremCommand(i)
  \/ \E i, j \in Server : Deliver(i, j)

Spec == Init /\ [][Next]_vars
-----------------------------------------------------------------------------
TypeOK ==
  /\ \A i \in Server :
       /\ oze[i].current \in Nat
       /\ oze[i].innate \in Tags(oze[i]) \cup {NULL}
       /\ oze[i].acquired \in Tags(oze[i]) \cup {NULL}
       /\ Tags(oze[i]) \in SUBSET Tag
       /\ \A t \in Tags(oze[i]) : oze[i].aset[t] \in Entry
       /\ oze[i].rset \in SUBSET Tag
  /\ zset \in [Server -> Int \cup {NULL}]
  /\ rcvd \in [Server -> Vector]

\* Whether the element is in the queue converges, whatever order the streams
\* deliver adds, increments and removes in: servers that executed the same
\* operations hold the same live and cancelled tags, and the sorted set has
\* the element iff a tag is live.
MembershipConverges ==
  \A r, s \in Server :
    /\ zset[r] # NULL <=> LOOKUP(oze[r])
    /\ SameOps(r, s) => /\ Tags(oze[r]) = Tags(oze[s])
                        /\ oze[r].rset = oze[s].rset

\* The score that ozscore and ozmax read converges too, at servers where no
\* increment has overtaken its add.  Where one has, the entry it created may be
\* the innate one, with an unset x, when its add arrives.
ScoreConverges ==
  \A r, s \in Server :
    SameOps(r, s) /\ ~oze[r].blind /\ ~oze[s].blind => ozscoreCommand(r) = ozscoreCommand(s)

\* No cancelled tag is live: an add or increment that arrives after the remove
\* that cancels its tag does not bring the tag back.
NoResurrection == \A r \in Server : Tags(oze[r]) \cap oze[r].rset = {}

\* The sorted set holds the score that the metadata adds up to, again where no
\* increment has overtaken its add.
ScoreIsCurrent ==
  \A r \in Server : LOOKUP(oze[r]) /\ ~oze[r].blind => zset[r] = SCORE(oze[r])

\* The metadata of an element is sound: pointers lead to live entries, nothing
\* cancelled is live and the sorted set is up to date.
Inv == TypeOK /\ NoResurrection /\ ScoreIsCurrent
=============================================================================
