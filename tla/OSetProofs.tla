----------------------------- MODULE OSetProofs -----------------------------
(***************************************************************************)
(* Proofs about OSet for every number of servers and of operations.        *)
(*                                                                         *)
(* The argument: the tags a server holds are a function of the SET of the  *)
(* commands it has executed: the live ones are those of the adds without   *)
(* those of the removes.  A remove lists the tags that were live where it  *)
(* was prepared, so its tags too are a function of what it had observed,   *)
(* and no tag is drawn twice: together they turn a statement about tags    *)
(* into one about the causal history.                                      *)
(***************************************************************************)
EXTENDS OSet, P2PProofs, WellFoundedInduction

\* The tags of the adds and of the removes among the commands M.
Added(M) == UNION {m.tags : m \in {c \in M : c.op = "add"}}
Cancelled(M) == UNION {m.tags : m \in {c \in M : c.op = "rem"}}
Live(M) == Added(M) \ Cancelled(M)

IsNewest(S, t) == t \in S /\ \A u \in S : lc_cmp_as_tag(u, t) <= 0

\* The pointer x follows the live tags S.
PointsTo(S, x) == IF S = {} THEN x = NULL ELSE IsNewest(S, x)

\* The prepare phases: an add draws a tag below the counter, and a remove lists
\* the tags that are live given what its server had executed.
Issued ==
  \A i \in Server : \A n \in 1..Len(sent[i]) :
    /\ sent[i][n].op = "add" =>
         \E x \in 0..(current[i] - 1) : sent[i][n].tags = {[x |-> x, id |-> i]}
    /\ sent[i][n].op = "rem" => sent[i][n].tags = Live(Collect(sent, seen[i][n]))

\* Later adds of a server draw greater tags.
Fresh ==
  \A i \in Server : \A p, n \in 1..Len(sent[i]) :
    p < n /\ sent[i][p].op = "add" /\ sent[i][n].op = "add" =>
      \A t \in sent[i][p].tags, u \in sent[i][n].tags : t.x < u.x

\* What a command had observed had been sent.
SeenWasSent ==
  \A i \in Server :
    /\ Len(seen[i]) = Len(sent[i])
    /\ \A n \in 1..Len(seen[i]), k \in Server : seen[i][n][k] <= Len(sent[k])

\* The metadata of the element at r summarise the commands M.
Summarises(r, M) ==
  /\ aset[r] = Live(M)
  /\ rset[r] = Cancelled(M)
  /\ PointsTo(aset[r], exist[r])
  /\ zset[r] <=> aset[r] # {}

\* The inductive invariant of OSet: tags summarise what was executed, removes
\* summarise what they observed, tags are fresh, and the pointer and the sorted
\* set follow the tags.
Inv ==
  /\ TypeOK
  /\ Streams
  /\ Issued
  /\ Fresh
  /\ SeenWasSent
  /\ \A r \in Server : Summarises(r, Msgs(r))
-----------------------------------------------------------------------------
(* Lemmas about tags.                                                      *)

\* A non-empty set of numbers has a least element.
LEMMA LeastNatural ==
  ASSUME NEW T \in SUBSET Nat, T # {}
  PROVE  \E x \in T : \A y \in T : x <= y
<1>1. \E x \in T : \A y \in T : ~(<<y, x>> \in OpToRel(<, Nat))
  BY NatLessThanWellFounded, WFMin
<1>2. PICK x \in T : \A y \in T : ~(<<y, x>> \in OpToRel(<, Nat))
  BY <1>1
<1>3. \A y \in T : ~(y < x)
  BY <1>2 DEF OpToRel
<1> QED BY <1>3

\* A non-empty set of tags whose counters are bounded has a newest one.
LEMMA HasNewest ==
  ASSUME NEW S \in SUBSET Tag, S # {}, NEW b \in [Server -> Nat],
         \A t \in S : t.x < b[t.id]
  PROVE  \E t \in S : IsNewest(S, t)
<1>1. \A t \in S : t.id \in Server /\ t.id \in Int /\ t.x \in Nat /\ N - t.id \in Nat
  BY NAssumption DEF Tag, Server
<1>2. PICK p \in {N - t.id : t \in S} : \A y \in {N - t.id : t \in S} : p <= y
  <2>1. {N - t.id : t \in S} \in SUBSET Nat /\ {N - t.id : t \in S} # {}
    BY <1>1
  <2> QED BY <2>1, LeastNatural
<1>3. PICK i \in Server : p = N - i /\ \E t \in S : t.id = i
  BY <1>1, <1>2
<1>4. \A t \in S : t.id <= i
  <2> SUFFICES ASSUME NEW t \in S PROVE t.id <= i
    OBVIOUS
  <2>1. p <= N - t.id
    BY <1>2
  <2>2. N \in Int /\ i \in Int /\ t.id \in Int
    BY <1>1, NAssumption DEF Server
  <2> QED BY <1>3, <2>1, <2>2
<1> DEFINE T == {t \in S : t.id = i}
           D == {b[i] - t.x : t \in T}
<1>5. D \in SUBSET Nat /\ D # {}
  BY <1>1, <1>3
<1>6. PICK d \in D : \A y \in D : d <= y
  BY <1>5, LeastNatural
<1>7. PICK t \in T : d = b[i] - t.x
  BY <1>6
<1>8. \A u \in T : u.x <= t.x
  BY <1>1, <1>5, <1>6, <1>7
<1>9. \A u \in S : lc_cmp_as_tag(u, t) <= 0
  BY <1>1, <1>4, <1>7, <1>8 DEF lc_cmp_as_tag
<1> QED BY <1>7, <1>9 DEF IsNewest

\* The newest tag is unique, so that it is the one set_resort finds.
LEMMA NewestIsUnique ==
  ASSUME NEW S \in SUBSET Tag, NEW t, IsNewest(S, t)
  PROVE  NewestTag(S) = t
<1>1. \A u \in S : u.x \in Nat /\ u.id \in Int /\ u = [x |-> u.x, id |-> u.id]
  BY DEF Tag, Server
<1>2. \A u, v \in S : lc_cmp_as_tag(u, v) <= 0 /\ lc_cmp_as_tag(v, u) <= 0 => u.x = v.x /\ u.id = v.id
  BY <1>1 DEF lc_cmp_as_tag
<1>3. \A u \in S : IsNewest(S, u) => u = t
  BY <1>1, <1>2 DEF IsNewest
<1>4. NewestTag(S) = CHOOSE u \in S : \A v \in S : lc_cmp_as_tag(v, u) <= 0
  BY DEF NewestTag
<1> QED BY <1>3, <1>4 DEF IsNewest

\* What a command adds to the tags of the commands before it.
LEMMA OneMoreTag ==
  ASSUME NEW M \in SUBSET Command, NEW m \in Command
  PROVE  /\ m.op = "add" => /\ Added(M \cup {m}) = Added(M) \cup m.tags
                            /\ Cancelled(M \cup {m}) = Cancelled(M)
         /\ m.op = "rem" => /\ Added(M \cup {m}) = Added(M)
                            /\ Cancelled(M \cup {m}) = Cancelled(M) \cup m.tags
<1>1. m.tags \in SUBSET Tag
  BY DEF Command
<1>2. ASSUME m.op = "add"
      PROVE  /\ Added(M \cup {m}) = Added(M) \cup m.tags
             /\ Cancelled(M \cup {m}) = Cancelled(M)
  BY <1>1, <1>2 DEF Added, Cancelled
<1>3. ASSUME m.op = "rem"
      PROVE  /\ Added(M \cup {m}) = Added(M)
             /\ Cancelled(M \cup {m}) = Cancelled(M) \cup m.tags
  BY <1>1, <1>3 DEF Added, Cancelled
<1> QED BY <1>2, <1>3
-----------------------------------------------------------------------------
(* The effect phases.                                                      *)

\* The effect phase of an add of tag t: the pointer moves only to a newer tag.
LEMMA AddPointer ==
  ASSUME NEW S \in SUBSET Tag, NEW x \in Tag \cup {NULL}, PointsTo(S, x), NEW t \in Tag
  PROVE  /\ x = NULL \/ lc_cmp_as_tag(x, t) < 0 => PointsTo(S \cup {t}, t)
         /\ ~(x = NULL \/ lc_cmp_as_tag(x, t) < 0) => S # {} /\ PointsTo(S \cup {t}, x)
<1>1. \A u \in Tag : u.x \in Nat /\ u.id \in Int
  BY DEF Tag, Server
<1>2. \A u, v, w \in Tag : lc_cmp_as_tag(u, v) <= 0 /\ lc_cmp_as_tag(v, w) <= 0 =>
                            lc_cmp_as_tag(u, w) <= 0
  BY <1>1 DEF lc_cmp_as_tag
<1>3. \A u, v \in Tag : /\ lc_cmp_as_tag(u, v) \in Int
                        /\ lc_cmp_as_tag(u, u) = 0
                        /\ ~(lc_cmp_as_tag(u, v) < 0) => lc_cmp_as_tag(v, u) <= 0
  BY <1>1 DEF lc_cmp_as_tag
<1>4. CASE S = {}
  <2>1. x = NULL
    BY <1>4 DEF PointsTo
  <2>2. IsNewest(S \cup {t}, t)
    BY <1>3, <1>4 DEF IsNewest
  <2> QED BY <2>1, <2>2 DEF PointsTo
<1>5. CASE S # {}
  <2>1. IsNewest(S, x) /\ x \in Tag
    BY <1>5 DEF PointsTo, IsNewest
  <2>2. x # NULL
    BY <2>1, NULLAssumption
  <2>3. ASSUME lc_cmp_as_tag(x, t) < 0 PROVE IsNewest(S \cup {t}, t)
    <3>1. lc_cmp_as_tag(x, t) <= 0
      BY <1>3, <2>1, <2>3
    <3> QED BY <1>2, <1>3, <2>1, <3>1 DEF IsNewest
  <2>4. ASSUME ~(lc_cmp_as_tag(x, t) < 0) PROVE IsNewest(S \cup {t}, x)
    <3>1. lc_cmp_as_tag(t, x) <= 0
      BY <1>3, <2>1, <2>4
    <3> QED BY <2>1, <3>1 DEF IsNewest
  <2> QED BY <1>5, <2>2, <2>3, <2>4 DEF PointsTo
<1> QED BY <1>4, <1>5

\* The effect phase of a remove: the pointer stays or is sought again.
LEMMA RemovePointer ==
  ASSUME NEW S \in SUBSET Tag, NEW x \in Tag \cup {NULL}, PointsTo(S, x),
         NEW tags \in SUBSET Tag,
         NEW b \in [Server -> Nat], \A t \in S : t.x < b[t.id]
  PROVE  /\ x # NULL /\ x \notin tags => S \ tags # {} /\ PointsTo(S \ tags, x)
         /\ S \ tags # {} => PointsTo(S \ tags, NewestTag(S \ tags))
<1> DEFINE live == S \ tags
<1>1. ASSUME x # NULL, x \notin tags PROVE live # {} /\ PointsTo(live, x)
  <2>1. S # {} /\ IsNewest(S, x)
    BY <1>1 DEF PointsTo
  <2>2. live # {} /\ IsNewest(live, x)
    BY <1>1, <2>1 DEF IsNewest
  <2> QED BY <2>2 DEF PointsTo
<1>2. ASSUME live # {} PROVE PointsTo(live, NewestTag(live))
  <2>1. PICK t \in live : IsNewest(live, t)
    <3>1. live \in SUBSET Tag /\ \A t \in live : t.x < b[t.id]
      OBVIOUS
    <3> QED BY <1>2, <3>1, HasNewest
  <2>2. NewestTag(live) = t
    BY <2>1, NewestIsUnique
  <2> QED BY <1>2, <2>1, <2>2 DEF PointsTo
<1> QED BY <1>1, <1>2

\* The types of the element's metadata.
EntryType ==
  /\ exist \in [Server -> Tag \cup {NULL}]
  /\ aset \in [Server -> SUBSET Tag]
  /\ rset \in [Server -> SUBSET Tag]
  /\ zset \in [Server -> BOOLEAN]

\* The effect phase of a command makes the tags of r those of one command more.
LEMMA EffectStep ==
  ASSUME EntryType, NEW r \in Server,
         NEW M \in SUBSET Command, NEW m \in Command,
         m.op = "add" => \E t \in Tag : m.tags = {t},
         NEW b \in [Server -> Nat], \A t \in Added(M) : t.x < b[t.id],
         Summarises(r, M), Effect(r, m)
  PROVE  /\ EntryType'
         /\ aset'[r] = Live(M \cup {m})
         /\ rset'[r] = Cancelled(M \cup {m})
         /\ PointsTo(aset'[r], exist'[r])
         /\ zset'[r] <=> aset'[r] # {}
         /\ \A s \in Server \ {r} : /\ aset'[s] = aset[s] /\ rset'[s] = rset[s]
                                    /\ exist'[s] = exist[s] /\ zset'[s] = zset[s]
<1>0. /\ aset[r] \in SUBSET Tag /\ exist[r] \in Tag \cup {NULL} /\ m.tags \in SUBSET Tag
      /\ aset[r] = Live(M) /\ rset[r] = Cancelled(M) /\ PointsTo(aset[r], exist[r])
  BY DEF EntryType, Command, Summarises
<1>1. CASE m.op = "add"
  <2>1. PICK t \in Tag : m.tags = {t} /\ osaddEffect(r, t)
    BY <1>1 DEF Effect
  <2>2. Cancelled(M \cup {m}) = Cancelled(M) /\ Added(M \cup {m}) = Added(M) \cup {t}
    BY <1>1, <2>1, OneMoreTag
  <2>3. rset' = rset
    BY <2>1 DEF osaddEffect
  <2>4. CASE t \in rset[r]
    <3>1. aset' = aset /\ exist' = exist /\ zset' = zset
      BY <2>1, <2>4 DEF osaddEffect
    <3>2. Live(M \cup {m}) = Live(M)
      BY <1>0, <2>2, <2>4 DEF Live
    <3> QED BY <1>0, <2>2, <2>3, <3>1, <3>2 DEF EntryType, Summarises
  <2>5. CASE t \notin rset[r]
    <3>1. /\ aset' = [aset EXCEPT ![r] = aset[r] \cup {t}]
          /\ exist' = [exist EXCEPT ![r] = IF Represents(r, t) THEN t ELSE exist[r]]
          /\ zset' = [zset EXCEPT ![r] = zset[r] \/ Represents(r, t)]
      BY <2>1, <2>5 DEF osaddEffect
    <3>2. /\ Represents(r, t) => PointsTo(aset[r] \cup {t}, t)
          /\ ~Represents(r, t) => aset[r] # {} /\ PointsTo(aset[r] \cup {t}, exist[r])
      BY <1>0, AddPointer DEF Represents
    <3>3. /\ aset'[r] = aset[r] \cup {t}
          /\ Represents(r, t) => exist'[r] = t
          /\ ~Represents(r, t) => exist'[r] = exist[r]
      BY <3>1 DEF EntryType
    <3>4. zset'[r] <=> zset[r] \/ Represents(r, t)
      BY <3>1 DEF EntryType
    <3>5. PointsTo(aset'[r], exist'[r])
      BY <3>2, <3>3
    <3>6. zset'[r]
      BY <3>2, <3>4 DEF Summarises
    <3>7. Live(M \cup {m}) = aset[r] \cup {t}
      BY <1>0, <2>2, <2>5 DEF Live
    <3>8. aset' \in [Server -> SUBSET Tag] /\ exist' \in [Server -> Tag \cup {NULL}]
      BY <1>0, <3>1 DEF EntryType
    <3>9. zset' \in [Server -> BOOLEAN]
      BY <3>1 DEF EntryType
    <3>10. \A s \in Server \ {r} : /\ aset'[s] = aset[s] /\ rset'[s] = rset[s]
                                   /\ exist'[s] = exist[s] /\ zset'[s] = zset[s]
      BY <2>3, <3>1 DEF EntryType
    <3>11. EntryType'
      BY <2>3, <3>8, <3>9 DEF EntryType
    <3>12. aset'[r] # {}
      BY <3>3
    <3> QED BY <1>0, <2>2, <2>3, <3>3, <3>5, <3>6, <3>7, <3>10, <3>11, <3>12
  <2> QED BY <2>4, <2>5
<1>2. CASE m.op = "rem"
  <2> DEFINE live == aset[r] \ m.tags
             kept == exist[r] # NULL /\ exist[r] \notin m.tags
  <2>1. /\ rset' = [rset EXCEPT ![r] = rset[r] \cup m.tags]
        /\ aset' = [aset EXCEPT ![r] = live]
        /\ exist' = [exist EXCEPT ![r] = IF kept THEN exist[r]
                                         ELSE IF live = {} THEN NULL ELSE NewestTag(live)]
        /\ zset' = [zset EXCEPT ![r] = IF kept THEN zset[r] ELSE live # {}]
    BY <1>2 DEF Effect, osremEffect
  <2>2. Cancelled(M \cup {m}) = Cancelled(M) \cup m.tags /\ Added(M \cup {m}) = Added(M)
    BY <1>2, OneMoreTag
  <2>3. /\ kept => live # {} /\ PointsTo(live, exist[r])
        /\ live # {} => PointsTo(live, NewestTag(live))
    <3>1. \A t \in aset[r] : t.x < b[t.id]
      BY <1>0 DEF Live
    <3> QED BY <1>0, <3>1, RemovePointer
  <2>4. live \in SUBSET Tag /\ (live # {} => NewestTag(live) \in Tag)
    BY <1>0, <2>3 DEF PointsTo, IsNewest
  <2>5. Live(M \cup {m}) = live
    BY <1>0, <2>2 DEF Live
  <2>6. kept => zset[r]
    BY <2>3 DEF Summarises
  <2> HIDE DEF live, kept
  <2>7. /\ aset'[r] = live /\ rset'[r] = rset[r] \cup m.tags
        /\ exist'[r] = IF kept THEN exist[r] ELSE IF live = {} THEN NULL ELSE NewestTag(live)
    BY <2>1 DEF EntryType
  <2>8. zset'[r] <=> IF kept THEN zset[r] ELSE live # {}
    BY <2>1 DEF EntryType
  <2>9. PointsTo(aset'[r], exist'[r])
    BY <2>3, <2>7 DEF PointsTo
  <2>10. zset'[r] <=> aset'[r] # {}
    BY <2>3, <2>6, <2>7, <2>8
  <2>11. /\ rset' \in [Server -> SUBSET Tag] /\ aset' \in [Server -> SUBSET Tag]
         /\ exist' \in [Server -> Tag \cup {NULL}]
    BY <1>0, <2>1, <2>4 DEF EntryType
  <2>12. zset' \in [Server -> BOOLEAN]
    BY <2>1 DEF EntryType
  <2>13. \A s \in Server \ {r} : /\ aset'[s] = aset[s] /\ rset'[s] = rset[s]
                                 /\ exist'[s] = exist[s] /\ zset'[s] = zset[s]
    BY <2>1 DEF EntryType
  <2>14. EntryType'
    BY <2>11, <2>12 DEF EntryType
  <2> QED BY <1>0, <2>2, <2>5, <2>7, <2>9, <2>10, <2>13, <2>14
<1> QED BY <1>1, <1>2 DEF Command
-----------------------------------------------------------------------------
(* The prepare phases.                                                     *)

\* Tags in use are below the counters they were drawn from.
LEMMA TagsBelow ==
  ASSUME P2PType(Command), Streams, Issued, current \in [Server -> Nat], NEW r \in Server
  PROVE  \A t \in Added(Msgs(r)) : t.x < current[t.id]
<1> SUFFICES ASSUME NEW t \in Added(Msgs(r)) PROVE t.x < current[t.id]
  OBVIOUS
<1>1. PICK m \in Msgs(r) : m.op = "add" /\ t \in m.tags
  BY DEF Added
<1>2. PICK k \in Server : \E n \in 1..rcvd[r][k] : m = sent[k][n]
  BY InCollect DEF Msgs
<1>3. PICK n \in 1..rcvd[r][k] : m = sent[k][n]
  BY <1>2
<1>4. n \in 1..Len(sent[k])
  BY DEF P2PType, Streams, Vector
<1>5. PICK x \in Nat : x < current[k] /\ m.tags = {[x |-> x, id |-> k]}
  BY <1>1, <1>3, <1>4, SMTT(30) DEF Issued
<1> QED BY <1>1, <1>5

\* A broadcast only appends to the sender's stream and history.
LEMMA BroadcastAppends ==
  ASSUME P2PType(Command), SeenWasSent, NEW i \in Server, NEW m \in Command,
         replicationBroadcast(i, m)
  PROVE  /\ Len(sent[i]) \in Nat
         /\ \A k \in Server : Len(sent'[k]) = IF k = i THEN Len(sent[i]) + 1 ELSE Len(sent[k])
         /\ \A k \in Server : Len(seen'[k]) = Len(sent'[k])
         /\ \A k \in Server : \A n \in 1..Len(sent[k]) :
              sent'[k][n] = sent[k][n] /\ seen'[k][n] = seen[k][n]
         /\ sent'[i][Len(sent[i]) + 1] = m
         /\ seen'[i][Len(sent[i]) + 1] = rcvd[i]
<1>1. /\ sent' = [sent EXCEPT ![i] = Append(sent[i], m)]
      /\ seen' = [seen EXCEPT ![i] = Append(seen[i], rcvd[i])]
  BY DEF replicationBroadcast
<1>2. \A k \in Server : /\ sent[k] \in Seq(Command) /\ rcvd[k] \in Vector
                        /\ seen[k] \in Seq(Vector) /\ Len(seen[k]) = Len(sent[k])
  BY DEF P2PType, SeenWasSent
<1>3. /\ sent'[i] = Append(sent[i], m) /\ seen'[i] = Append(seen[i], rcvd[i])
      /\ \A k \in Server \ {i} : sent'[k] = sent[k] /\ seen'[k] = seen[k]
  BY <1>1 DEF P2PType
<1>4. Len(sent[i]) \in Nat
  BY <1>2
<1>5. /\ Len(sent'[i]) = Len(sent[i]) + 1 /\ Len(seen'[i]) = Len(sent[i]) + 1
      /\ sent'[i][Len(sent[i]) + 1] = m /\ seen'[i][Len(sent[i]) + 1] = rcvd[i]
      /\ \A n \in 1..Len(sent[i]) : sent'[i][n] = sent[i][n] /\ seen'[i][n] = seen[i][n]
  BY <1>2, <1>3
<1> QED BY <1>2, <1>3, <1>4, <1>5

\* Issuing a command keeps what is known of all commands issued.
LEMMA IssueStep ==
  ASSUME P2PType(Command), Streams, Issued, Fresh, SeenWasSent,
         current \in [Server -> Nat], current' \in [Server -> Nat],
         \A k \in Server : current[k] <= current'[k],
         NEW i \in Server, NEW m \in Command, replicationBroadcast(i, m),
         m.op = "add" => /\ m.tags = {[x |-> current[i], id |-> i]}
                         /\ current'[i] = current[i] + 1,
         m.op = "rem" => m.tags = Live(Msgs(i))
  PROVE  Issued' /\ Fresh' /\ SeenWasSent'
<1> DEFINE L == Len(sent[i])
<1>1. /\ L \in Nat
      /\ \A k \in Server : Len(sent'[k]) = IF k = i THEN L + 1 ELSE Len(sent[k])
      /\ \A k \in Server : Len(seen'[k]) = Len(sent'[k])
      /\ \A k \in Server : \A n \in 1..Len(sent[k]) :
           sent'[k][n] = sent[k][n] /\ seen'[k][n] = seen[k][n]
      /\ sent'[i][L + 1] = m
      /\ seen'[i][L + 1] = rcvd[i]
  BY BroadcastAppends
<1>2. \A k \in Server : Len(sent[k]) \in Nat /\ Len(seen[k]) = Len(sent[k])
  BY DEF P2PType, SeenWasSent
<1>3. \A k, j \in Server : rcvd[j][k] \in Nat /\ rcvd[j][k] <= Len(sent[k])
  BY DEF P2PType, Streams, Vector
<1>4. \A k, j \in Server : \A n \in 1..Len(sent[k]) :
        seen[k][n][j] \in Nat /\ seen[k][n][j] <= Len(sent[j])
  <2> SUFFICES ASSUME NEW k \in Server, NEW j \in Server, NEW n \in 1..Len(sent[k])
               PROVE  seen[k][n][j] \in Nat /\ seen[k][n][j] <= Len(sent[j])
    OBVIOUS
  <2>1. n \in 1..Len(seen[k]) /\ seen[k] \in Seq(Vector)
    BY <1>2 DEF P2PType
  <2>2. seen[k][n] \in Vector
    BY <2>1
  <2>3. seen[k][n][j] \in Nat
    BY <2>2 DEF Vector
  <2>4. seen[k][n][j] <= Len(sent[j])
    BY <2>1 DEF SeenWasSent
  <2> QED BY <2>3, <2>4
<1> HIDE DEF L
<1>5. \A k \in Server : \A n \in 1..Len(sent'[k]) :
        n \in 1..Len(sent[k]) \/ (k = i /\ n = L + 1)
  BY <1>1, <1>2 DEF L
<1>6. SeenWasSent'
  <2> SUFFICES ASSUME NEW k \in Server, NEW n \in 1..Len(sent'[k]), NEW j \in Server
               PROVE  seen'[k][n][j] <= Len(sent'[j])
    BY <1>1 DEF SeenWasSent
  <2>1. \A d \in Nat : d <= Len(sent[j]) => d <= Len(sent'[j])
    <3>1. Len(sent[j]) \in Nat /\ Len(sent[i]) \in Nat
      BY <1>2
    <3>2. Len(sent'[j]) = IF j = i THEN Len(sent[i]) + 1 ELSE Len(sent[j])
      BY <1>1 DEF L
    <3>3. CASE j = i
      BY <3>1, <3>2, <3>3
    <3>4. CASE j # i
      BY <3>2, <3>4
    <3> QED BY <3>3, <3>4
  <2>2. CASE n \in 1..Len(sent[k])
    <3>1. seen'[k][n] = seen[k][n]
      BY <1>1, <2>2
    <3>2. seen[k][n][j] \in Nat /\ seen[k][n][j] <= Len(sent[j])
      BY <1>4, <2>2
    <3> QED BY <2>1, <3>1, <3>2
  <2>3. CASE k = i /\ n = L + 1
    <3>1. seen'[k][n] = rcvd[i]
      BY <1>1, <2>3
    <3>2. rcvd[i][j] \in Nat /\ rcvd[i][j] <= Len(sent[j])
      BY <1>3
    <3> QED BY <2>1, <3>1, <3>2
  <2> QED BY <1>5, <2>2, <2>3
<1>7. ASSUME NEW c, \A j \in Server : c[j] \in Nat /\ c[j] <= Len(sent[j])
      PROVE  Collect(sent', c) = Collect(sent, c)
  <2>1. \A j \in Server : \A p \in 1..c[j] : sent'[j][p] = sent[j][p]
    BY <1>1, <1>2, <1>7
  <2> DEFINE s1 == sent'
  <2>2. \A j \in Server : \A p \in 1..c[j] : s1[j][p] = sent[j][p]
    BY <2>1
  <2> HIDE DEF s1
  <2>3. Collect(s1, c) = Collect(sent, c)
    BY <2>2, CollectSame
  <2> QED BY <2>3 DEF s1
<1>8. Issued'
  <2> SUFFICES ASSUME NEW k \in Server, NEW n \in 1..Len(sent'[k])
               PROVE  /\ sent'[k][n].op = "add" =>
                           \E x \in 0..(current'[k] - 1) : sent'[k][n].tags = {[x |-> x, id |-> k]}
                      /\ sent'[k][n].op = "rem" =>
                           sent'[k][n].tags = Live(Collect(sent', seen'[k][n]))
    BY DEF Issued, Live, Added, Cancelled, Collect
  <2>1. CASE n \in 1..Len(sent[k])
    <3>1. sent'[k][n] = sent[k][n] /\ seen'[k][n] = seen[k][n]
      BY <1>1, <2>1
    <3>2. Collect(sent', seen'[k][n]) = Collect(sent, seen[k][n])
      BY <1>4, <1>7, <2>1, <3>1
    <3>3. current[k] \in Nat /\ current'[k] \in Nat /\ current[k] <= current'[k]
      OBVIOUS
    <3>4. ASSUME sent[k][n].op = "add"
          PROVE  \E x \in 0..(current'[k] - 1) : sent[k][n].tags = {[x |-> x, id |-> k]}
      <4>1. PICK x \in 0..(current[k] - 1) : sent[k][n].tags = {[x |-> x, id |-> k]}
        BY <2>1, <3>4 DEF Issued
      <4>2. x \in 0..(current'[k] - 1)
        BY <3>3
      <4> QED BY <4>1, <4>2
    <3>5. sent[k][n].op = "rem" => sent[k][n].tags = Live(Collect(sent, seen[k][n]))
      BY <2>1 DEF Issued
    <3> QED BY <3>1, <3>2, <3>4, <3>5
  <2>2. CASE k = i /\ n = L + 1
    <3>1. sent'[k][n] = m /\ seen'[k][n] = rcvd[i]
      BY <1>1, <2>2
    <3>2. Collect(sent', rcvd[i]) = Msgs(i)
      BY <1>3, <1>7 DEF Msgs
    <3>3. current[i] \in 0..((current[i] + 1) - 1)
      OBVIOUS
    <3>4. m.op = "add" =>
            \E x \in 0..(current'[k] - 1) : m.tags = {[x |-> x, id |-> k]}
      BY <2>2, <3>3
    <3> QED BY <3>1, <3>2, <3>4
  <2> QED BY <1>5, <2>1, <2>2
<1>9. Fresh'
  <2> SUFFICES ASSUME NEW k \in Server, NEW p \in 1..Len(sent'[k]), NEW n \in 1..Len(sent'[k]),
                      p < n, sent'[k][p].op = "add", sent'[k][n].op = "add",
                      NEW t \in sent'[k][p].tags, NEW u \in sent'[k][n].tags
               PROVE  t.x < u.x
    BY DEF Fresh
  <2>1. p \in 1..Len(sent[k]) /\ sent'[k][p] = sent[k][p]
    <3>1. p \in 1..Len(sent[k])
      <4>1. Len(sent[k]) \in Nat /\ p \in Nat /\ n \in Nat
        BY <1>2, <1>5
      <4>2. CASE k # i
        BY <1>5, <4>2
      <4>3. CASE k = i
        BY <1>1, <1>5, <4>1, <4>3 DEF L
      <4> QED BY <4>2, <4>3
    <3> QED BY <1>1, <3>1
  <2>2. CASE n \in 1..Len(sent[k])
    <3>1. sent'[k][n] = sent[k][n]
      BY <1>1, <2>2
    <3> QED BY <2>1, <2>2, <3>1 DEF Fresh
  <2>3. CASE k = i /\ n = L + 1
    <3>1. u = [x |-> current[i], id |-> i]
      BY <1>1, <2>3
    <3>2. PICK x \in 0..(current[k] - 1) : sent[k][p].tags = {[x |-> x, id |-> k]}
      BY <2>1 DEF Issued
    <3> QED BY <2>1, <2>3, <3>1, <3>2
  <2> QED BY <1>5, <2>2, <2>3
<1> QED BY <1>6, <1>8, <1>9
-----------------------------------------------------------------------------
(* The invariant.                                                          *)

\* TypeOK in terms of the lemmas above.
LEMMA TypeSplit == TypeOK <=> current \in [Server -> Nat] /\ EntryType /\ P2PType(Command)
  BY DEF TypeOK, EntryType, P2PType

\* The invariant holds when the servers start.
LEMMA InitInv == Init => Inv
<1> SUFFICES ASSUME Init PROVE Inv
  OBVIOUS
<1>1. TypeOK
  <2>1. current \in [Server -> Nat] /\ EntryType
    BY DEF Init, EntryType
  <2>2. P2PType(Command)
    BY DEF Init, P2PInit, P2PType, Vector
  <2> QED BY <2>1, <2>2, TypeSplit
<1>2. Streams /\ Issued /\ Fresh /\ SeenWasSent
  BY DEF Init, P2PInit, Streams, Issued, Fresh, SeenWasSent
<1>3. \A r \in Server : Msgs(r) = {}
  BY InCollect DEF Init, P2PInit, Msgs
<1>4. Live({}) = {} /\ Cancelled({}) = {}
  BY DEF Live, Added, Cancelled
<1>5. \A r \in Server : aset[r] = {} /\ rset[r] = {} /\ exist[r] = NULL /\ zset[r] = FALSE
  BY DEF Init
<1>6. \A r \in Server : Summarises(r, Msgs(r))
  BY <1>3, <1>4, <1>5 DEF Summarises, PointsTo
<1> QED BY <1>1, <1>2, <1>6 DEF Inv

\* Executing a command at r, by whichever step, keeps the tags a summary.
LEMMA ExecuteInv ==
  ASSUME Inv, NEW r \in Server, NEW m \in Command, Effect(r, m),
         m.op = "add" => \E t \in Tag : m.tags = {t},
         Msgs(r)' = Msgs(r) \cup {m}, \A s \in Server \ {r} : Msgs(s)' = Msgs(s)
  PROVE  EntryType' /\ \A s \in Server : Summarises(s, Msgs(s))'
<1>1. /\ current \in [Server -> Nat] /\ EntryType /\ P2PType(Command)
      /\ Streams /\ Issued /\ \A s \in Server : Summarises(s, Msgs(s))
  BY TypeSplit DEF Inv
<1>2. Msgs(r) \in SUBSET Command /\ \A t \in Added(Msgs(r)) : t.x < current[t.id]
  BY <1>1, MsgsType, TagsBelow
<1>3. /\ EntryType'
      /\ aset'[r] = Live(Msgs(r) \cup {m})
      /\ rset'[r] = Cancelled(Msgs(r) \cup {m})
      /\ PointsTo(aset'[r], exist'[r])
      /\ zset'[r] <=> aset'[r] # {}
      /\ \A s \in Server \ {r} : /\ aset'[s] = aset[s] /\ rset'[s] = rset[s]
                                 /\ exist'[s] = exist[s] /\ zset'[s] = zset[s]
  BY <1>1, <1>2, EffectStep
<1>4. ASSUME NEW s \in Server, NEW M, M = Msgs(s)'
      PROVE  /\ aset'[s] = Live(M) /\ rset'[s] = Cancelled(M)
             /\ PointsTo(aset'[s], exist'[s])
             /\ zset'[s] <=> aset'[s] # {}
  <2>1. CASE s = r
    BY <1>3, <1>4, <2>1
  <2>2. CASE s # r
    <3>1. M = Msgs(s) /\ Summarises(s, Msgs(s))
      BY <1>1, <1>4, <2>2
    <3> QED BY <1>3, <2>2, <3>1 DEF Summarises
  <2> QED BY <2>1, <2>2
<1>5. \A s \in Server : Summarises(s, Msgs(s))'
  BY <1>4 DEF Summarises, Live, Added, Cancelled, PointsTo, IsNewest
<1> QED BY <1>3, <1>5

\* A step that sends nothing leaves what was issued as it was.
LEMMA IssuedSame ==
  ASSUME Issued, sent' = sent, seen' = seen, current' = current
  PROVE  Issued'
<1> SUFFICES ASSUME NEW k \in Server, NEW n \in 1..Len(sent'[k])
             PROVE  /\ sent'[k][n].op = "add" =>
                         \E x \in 0..(current'[k] - 1) : sent'[k][n].tags = {[x |-> x, id |-> k]}
                    /\ sent'[k][n].op = "rem" =>
                         sent'[k][n].tags = Live(Collect(sent', seen'[k][n]))
  BY DEF Issued, Live, Added, Cancelled, Collect
<1>1. /\ sent[k][n].op = "add" =>
           \E x \in 0..(current[k] - 1) : sent[k][n].tags = {[x |-> x, id |-> k]}
      /\ sent[k][n].op = "rem" => sent[k][n].tags = Live(Collect(sent, seen[k][n]))
  BY DEF Issued
<1> QED BY <1>1

\* Every step keeps the invariant.
LEMMA NextInv == Inv /\ [Next]_vars => Inv'
<1> SUFFICES ASSUME Inv, [Next]_vars PROVE Inv'
  OBVIOUS
<1>1. /\ current \in [Server -> Nat] /\ EntryType /\ P2PType(Command) /\ Streams
      /\ Issued /\ Fresh /\ SeenWasSent
  BY TypeSplit DEF Inv
<1>2. ASSUME NEW i \in Server, osaddCommand(i) PROVE Inv'
  <2> DEFINE t == [x |-> current[i], id |-> i]
             m == [op |-> "add", tags |-> {t}]
  <2>1. t \in Tag /\ m \in Command /\ m.op = "add" /\ m.tags = {t}
    BY <1>1 DEF Tag, Command
  <2>2. /\ current' = [current EXCEPT ![i] = current[i] + 1]
        /\ Effect(i, m) /\ replicationBroadcast(i, m)
    BY <1>2 DEF osaddCommand
  <2>3. /\ current' \in [Server -> Nat] /\ current'[i] = current[i] + 1
        /\ \A k \in Server : current[k] <= current'[k]
    BY <1>1, <2>2
  <2> HIDE DEF m
  <2>4. /\ P2PType(Command)' /\ Streams'
        /\ Msgs(i)' = Msgs(i) \cup {m} /\ \A s \in Server \ {i} : Msgs(s)' = Msgs(s)
    BY <1>1, <2>1, <2>2, BroadcastMsgs
  <2>5. Issued' /\ Fresh' /\ SeenWasSent'
    BY <1>1, <2>1, <2>2, <2>3, IssueStep
  <2>6. EntryType' /\ \A s \in Server : Summarises(s, Msgs(s))'
    BY <2>1, <2>2, <2>4, ExecuteInv
  <2>7. TypeOK'
    BY <2>3, <2>4, <2>6 DEF TypeOK, EntryType, P2PType
  <2> QED BY <2>4, <2>5, <2>6, <2>7 DEF Inv
<1>3. ASSUME NEW i \in Server, osremCommand(i) PROVE Inv'
  <2> DEFINE m == [op |-> "rem", tags |-> aset[i]]
  <2>1. m \in Command /\ m.op = "rem" /\ m.tags = Live(Msgs(i))
    BY <1>1 DEF EntryType, Command, Inv, Summarises
  <2>2. current' = current /\ Effect(i, m) /\ replicationBroadcast(i, m)
    BY <1>3 DEF osremCommand
  <2>3. current' \in [Server -> Nat] /\ \A k \in Server : current[k] <= current'[k]
    BY <1>1, <2>2
  <2> HIDE DEF m
  <2>4. /\ P2PType(Command)' /\ Streams'
        /\ Msgs(i)' = Msgs(i) \cup {m} /\ \A s \in Server \ {i} : Msgs(s)' = Msgs(s)
    BY <1>1, <2>1, <2>2, BroadcastMsgs
  <2>5. Issued' /\ Fresh' /\ SeenWasSent'
    BY <1>1, <2>1, <2>2, <2>3, IssueStep
  <2>6. EntryType' /\ \A s \in Server : Summarises(s, Msgs(s))'
    BY <2>1, <2>2, <2>4, ExecuteInv
  <2>7. TypeOK'
    BY <2>3, <2>4, <2>6 DEF TypeOK, EntryType, P2PType
  <2> QED BY <2>4, <2>5, <2>6, <2>7 DEF Inv
<1>4. ASSUME NEW i \in Server, NEW j \in Server, Deliver(i, j) PROVE Inv'
  <2>1. InFlight(i, j) /\ Effect(j, NextCmd(i, j)) /\ ReadFromReplica(i, j) /\ current' = current
    BY <1>4 DEF Deliver
  <2>2. /\ NextCmd(i, j) \in Command /\ P2PType(Command)' /\ Streams'
        /\ Msgs(j)' = Msgs(j) \cup {NextCmd(i, j)} /\ \A s \in Server \ {j} : Msgs(s)' = Msgs(s)
    BY <1>1, <2>1, ReadMsgs
  <2>3. sent' = sent /\ seen' = seen /\ current' = current
    BY <2>1 DEF ReadFromReplica
  <2>4. Issued' /\ Fresh' /\ SeenWasSent'
    <3>1. Fresh' /\ SeenWasSent'
      BY <1>1, <2>3 DEF Fresh, SeenWasSent
    <3>2. Issued'
      BY <1>1, <2>3, IssuedSame
    <3> QED BY <3>1, <3>2
  <2>5. NextCmd(i, j).op = "add" => \E t \in Tag : NextCmd(i, j).tags = {t}
    <3>1. rcvd[j][i] + 1 \in 1..Len(sent[i])
      BY <1>1, <2>1 DEF InFlight, P2PType, Vector
    <3>2. NextCmd(i, j).op = "add" =>
            \E x \in 0..(current[i] - 1) : NextCmd(i, j).tags = {[x |-> x, id |-> i]}
      BY <1>1, <3>1 DEF Issued, NextCmd
    <3>3. \A x \in 0..(current[i] - 1) : [x |-> x, id |-> i] \in Tag
      BY <1>1 DEF Tag
    <3> QED BY <3>2, <3>3
  <2>6. EntryType' /\ \A s \in Server : Summarises(s, Msgs(s))'
    BY <2>1, <2>2, <2>5, ExecuteInv
  <2>7. TypeOK'
    BY <1>1, <2>1, <2>2, <2>6 DEF TypeOK, EntryType, P2PType
  <2> QED BY <2>2, <2>4, <2>6, <2>7 DEF Inv
<1>5. CASE UNCHANGED vars
  <2>1. /\ current' = current /\ exist' = exist /\ aset' = aset /\ rset' = rset /\ zset' = zset
        /\ sent' = sent /\ rcvd' = rcvd /\ seen' = seen
    BY <1>5 DEF vars
  <2>2. TypeOK' /\ Streams' /\ Fresh' /\ SeenWasSent'
    BY <2>1 DEF Inv, TypeOK, Streams, Fresh, SeenWasSent
  <2>3. Issued'
    BY <1>1, <2>1, IssuedSame
  <2>4. \A r \in Server : Summarises(r, Msgs(r))'
    <3>1. \A r \in Server : Msgs(r)' = Msgs(r)
      BY <2>1 DEF Msgs, Collect
    <3>2. ASSUME NEW r \in Server
          PROVE  /\ aset'[r] = Live(Msgs(r)') /\ rset'[r] = Cancelled(Msgs(r)')
                 /\ PointsTo(aset'[r], exist'[r])
                 /\ zset'[r] <=> aset'[r] # {}
      BY <2>1, <3>1 DEF Inv, Summarises
    <3> QED BY <3>2 DEF Summarises, PointsTo, IsNewest, Live, Added, Cancelled
  <2> QED BY <2>2, <2>3, <2>4 DEF Inv
<1> QED BY <1>2, <1>3, <1>4, <1>5 DEF Next

\* The invariant holds in every behaviour of the set.
THEOREM TagInvariance == Spec => []Inv
  BY InitInv, NextInv, PTL DEF Spec

\* The pointer to the representative and the sorted set always follow the live
\* tags, although update_exist, set_remove_tag and set_resort each move only part.
THEOREM PointerIsNewest == Spec => []ExistIsNewest
<1>1. Inv => ExistIsNewest
  <2> SUFFICES ASSUME Inv, NEW r \in Server
               PROVE  /\ zset[r] <=> LOOKUP(r)
                      /\ exist[r] = IF LOOKUP(r) THEN NewestTag(aset[r]) ELSE NULL
    BY DEF ExistIsNewest
  <2>1. PointsTo(aset[r], exist[r]) /\ (zset[r] <=> aset[r] # {}) /\ aset[r] \in SUBSET Tag
    BY DEF Inv, Summarises, TypeOK
  <2>2. aset[r] # {} => NewestTag(aset[r]) = exist[r]
    BY <2>1, NewestIsUnique DEF PointsTo
  <2> QED BY <2>1, <2>2 DEF LOOKUP, PointsTo
<1> QED BY <1>1, TagInvariance, PTL

\* Strong convergence of the add-win set, for any number of servers, any number
\* of operations and any interleaving the streams allow.
THEOREM TagsConverge == Spec => []Convergence
<1>1. Inv => Convergence
  <2> SUFFICES ASSUME Inv, NEW r \in Server, NEW s \in Server, SameOps(r, s)
               PROVE  /\ aset[r] = aset[s] /\ rset[r] = rset[s]
                      /\ exist[r] = exist[s] /\ zset[r] = zset[s]
    BY DEF Convergence
  <2>1. Msgs(r) = Msgs(s)
    BY DEF SameOps, Msgs
  <2>2. aset[r] = aset[s] /\ rset[r] = rset[s]
    BY <2>1 DEF Inv, Summarises
  <2>3. /\ PointsTo(aset[r], exist[r]) /\ PointsTo(aset[s], exist[s])
        /\ aset[r] \in SUBSET Tag
    BY DEF Inv, Summarises, TypeOK
  <2>4. exist[r] = exist[s]
    <3>1. CASE aset[r] = {}
      BY <2>2, <2>3, <3>1 DEF PointsTo
    <3>2. CASE aset[r] # {}
      <4>1. IsNewest(aset[r], exist[r]) /\ IsNewest(aset[r], exist[s])
        BY <2>2, <2>3, <3>2 DEF PointsTo
      <4> QED BY <2>3, <4>1, NewestIsUnique
    <3> QED BY <3>1, <3>2
  <2>5. zset[r] <=> zset[s]
    BY <2>2 DEF Inv, Summarises
  <2>6. zset[r] \in BOOLEAN /\ zset[s] \in BOOLEAN
    BY DEF Inv, TypeOK
  <2> QED BY <2>2, <2>4, <2>5, <2>6
<1> QED BY <1>1, TagInvariance, PTL

\* No tag is drawn twice: an add is known by its tag.
LEMMA TagsAreUnique ==
  ASSUME Inv, NEW i \in Server, NEW n \in 1..Len(sent[i]), sent[i][n].op = "add",
         NEW k \in Server, NEW p \in 1..Len(sent[k]), sent[k][p].op = "add",
         NEW t, t \in sent[i][n].tags, t \in sent[k][p].tags
  PROVE  i = k /\ n = p
<1>1. PICK x \in Nat : sent[i][n].tags = {[x |-> x, id |-> i]}
  BY DEF Inv, Issued
<1>2. PICK y \in Nat : sent[k][p].tags = {[x |-> y, id |-> k]}
  BY DEF Inv, Issued
<1>3. i = k
  BY <1>1, <1>2
<1>4. t.x = x /\ t.x = y
  BY <1>1, <1>2
<1>5. ~(n < p) /\ ~(p < n)
  <2>1. ASSUME n < p PROVE FALSE
    <3>1. t.x < t.x
      BY <1>3, <2>1 DEF Inv, Fresh
    <3> QED BY <1>4, <3>1
  <2>2. ASSUME p < n PROVE FALSE
    <3>1. t.x < t.x
      BY <1>3, <2>2 DEF Inv, Fresh
    <3> QED BY <1>4, <3>1
  <2> QED BY <2>1, <2>2
<1>6. n \in Int /\ p \in Int
  BY DEF Inv, TypeOK
<1> QED BY <1>3, <1>5, <1>6

\* An operation is covered by counts iff its rank is.
LEMMA InCovered ==
  ASSUME NEW counts
  PROVE  \A o : o \in Covered(counts) <=>
           \E i \in Server : \E n \in 1..counts[i] : o = <<i, n>>
  BY DEF Covered

\* Tags of the adds and removes covered by counts.
LEMMA InAdded ==
  ASSUME NEW counts, NEW t
  PROVE  /\ t \in Added(Collect(sent, counts)) <=>
              \E i \in Server : \E n \in 1..counts[i] :
                sent[i][n].op = "add" /\ t \in sent[i][n].tags
         /\ t \in Cancelled(Collect(sent, counts)) <=>
              \E i \in Server : \E n \in 1..counts[i] :
                sent[i][n].op = "rem" /\ t \in sent[i][n].tags
  BY InCollect DEF Added, Cancelled

\* Add wins, for any number of servers: what oscontains answers is decided by the
\* causal history, which the code never stores, through the tags alone.
THEOREM AddWinsEverywhere == Spec => []AddWins
<1>1. Inv => AddWins
  <2> SUFFICES ASSUME Inv, NEW r \in Server
               PROVE  /\ UnobservedAdds(r) # {} => oscontainsCommand(r)
                      /\ oscontainsCommand(r) /\ CausallyClosed(r) => UnobservedAdds(r) # {}
    BY DEF AddWins
  <2>1. /\ P2PType(Command) /\ Streams /\ Issued /\ SeenWasSent
        /\ Summarises(r, Msgs(r))
    BY TypeSplit DEF Inv
  <2>2. \A k \in Server : \A n \in 1..rcvd[r][k] : n \in 1..Len(sent[k])
    BY <2>1 DEF P2PType, Streams, Vector
  <2>3. \A k, j \in Server : \A n \in 1..Len(sent[k]) : \A p \in 1..seen[k][n][j] : p \in 1..Len(sent[j])
    <3> SUFFICES ASSUME NEW k \in Server, NEW j \in Server, NEW n \in 1..Len(sent[k]),
                        NEW p \in 1..seen[k][n][j]
                 PROVE  p \in 1..Len(sent[j])
      OBVIOUS
    <3>1. n \in 1..Len(seen[k]) /\ seen[k] \in Seq(Vector) /\ Len(sent[j]) \in Nat
      BY <2>1 DEF P2PType, SeenWasSent
    <3>2. seen[k][n] \in Vector
      BY <3>1
    <3>3. seen[k][n][j] \in Nat
      BY <3>2 DEF Vector
    <3>4. seen[k][n][j] <= Len(sent[j])
      BY <2>1, <3>1 DEF SeenWasSent
    <3> QED BY <3>1, <3>3, <3>4
  <2>4. \A o : o \in Executed(r) <=> \E i \in Server : \E n \in 1..rcvd[r][i] : o = <<i, n>>
    BY InCovered DEF Executed
  <2>5. \A k \in Server, p \in Nat : \A o : o \in Observed(<<k, p>>) <=>
          \E i \in Server : \E n \in 1..seen[k][p][i] : o = <<i, n>>
    BY InCovered DEF Observed
  <2>6. \A k \in Server, n \in Nat : Cmd(<<k, n>>) = sent[k][n]
    BY DEF Cmd
  <2>7. ASSUME NEW o \in UnobservedAdds(r) PROVE oscontainsCommand(r)
    <3>1. PICK i \in Server : \E n \in 1..rcvd[r][i] : o = <<i, n>>
      BY <2>4 DEF UnobservedAdds
    <3>2. PICK n \in 1..rcvd[r][i] : o = <<i, n>>
      BY <3>1
    <3>3. n \in 1..Len(sent[i]) /\ n \in Nat /\ sent[i][n].op = "add"
      BY <2>2, <2>6, <3>2 DEF UnobservedAdds
    <3>4. PICK x \in 0..(current[i] - 1) : sent[i][n].tags = {[x |-> x, id |-> i]}
      BY <2>1, <3>3 DEF Issued
    <3> DEFINE t == [x |-> x, id |-> i]
    <3>5. t \in sent[i][n].tags
      BY <3>4
    <3> HIDE DEF t
    <3>6. t \in Added(Msgs(r))
      BY <3>3, <3>5, InAdded DEF Msgs
    <3>7. t \notin Cancelled(Msgs(r))
      <4> SUFFICES ASSUME t \in Cancelled(Msgs(r)) PROVE FALSE
        OBVIOUS
      <4>1. PICK k \in Server : \E p \in 1..rcvd[r][k] : sent[k][p].op = "rem" /\ t \in sent[k][p].tags
        BY <3>5, InAdded DEF Msgs
      <4>2. PICK p \in 1..rcvd[r][k] : sent[k][p].op = "rem" /\ t \in sent[k][p].tags
        BY <4>1
      <4>3. p \in 1..Len(sent[k]) /\ p \in Nat /\ <<k, p>> \in Executed(r) /\ Cmd(<<k, p>>).op = "rem"
        BY <2>2, <2>4, <2>6, <4>2
      <4>4. t \in Added(Collect(sent, seen[k][p]))
        <5>1. sent[k][p].tags = Live(Collect(sent, seen[k][p]))
          BY <2>1, <4>2, <4>3 DEF Issued
        <5> QED BY <4>2, <5>1 DEF Live
      <4>5. PICK l \in Server : \E q \in 1..seen[k][p][l] : sent[l][q].op = "add" /\ t \in sent[l][q].tags
        BY <3>5, <4>4, InAdded
      <4>6. PICK q \in 1..seen[k][p][l] : sent[l][q].op = "add" /\ t \in sent[l][q].tags
        BY <4>5
      <4>7. q \in 1..Len(sent[l])
        BY <2>3, <4>3, <4>6
      <4>8. i = l /\ n = q
        BY <3>3, <3>5, <4>6, <4>7, TagsAreUnique
      <4>9. o \in Observed(<<k, p>>)
        BY <2>5, <3>2, <4>3, <4>6, <4>8
      <4> QED BY <4>3, <4>9 DEF UnobservedAdds
    <3>8. t \in aset[r]
      BY <2>1, <3>6, <3>7 DEF Summarises, Live
    <3> QED BY <2>1, <3>8 DEF Summarises, oscontainsCommand
  <2>8. ASSUME oscontainsCommand(r), CausallyClosed(r) PROVE UnobservedAdds(r) # {}
    <3>1. PICK t \in Live(Msgs(r)) : TRUE
      BY <2>1, <2>8 DEF Summarises, oscontainsCommand
    <3>2. t \in Added(Msgs(r)) /\ t \notin Cancelled(Msgs(r))
      BY <3>1 DEF Live
    <3>3. PICK i \in Server : \E n \in 1..rcvd[r][i] : sent[i][n].op = "add" /\ t \in sent[i][n].tags
      BY <3>2, InAdded DEF Msgs
    <3>4. PICK n \in 1..rcvd[r][i] : sent[i][n].op = "add" /\ t \in sent[i][n].tags
      BY <3>3
    <3>5. n \in Nat /\ n \in 1..Len(sent[i]) /\ <<i, n>> \in Executed(r) /\ Cmd(<<i, n>>).op = "add"
      BY <2>2, <2>4, <2>6, <3>4
    <3>6. ASSUME NEW z \in Executed(r), Cmd(z).op = "rem", <<i, n>> \in Observed(z) PROVE FALSE
      <4>1. PICK k \in Server : \E p \in 1..rcvd[r][k] : z = <<k, p>>
        BY <2>4, <3>6
      <4>2. PICK p \in 1..rcvd[r][k] : z = <<k, p>>
        BY <4>1
      <4>3. p \in Nat /\ p \in 1..Len(sent[k]) /\ sent[k][p].op = "rem"
        BY <2>2, <2>6, <3>6, <4>2, SMTT(30)
      <4>4. sent[k][p].tags = Live(Collect(sent, seen[k][p]))
        BY <2>1, <4>3 DEF Issued
      <4>5. n \in 1..seen[k][p][i]
        <5>1. <<i, n>> \in Observed(<<k, p>>)
          BY <3>6, <4>2
        <5>2. p \in Nat
          BY <4>3
        <5>3. \A o : o \in Observed(<<k, p>>) =>
                \E l \in Server : \E q \in 1..seen[k][p][l] : o = <<l, q>>
          BY <5>2, InCovered DEF Observed
        <5>4. \E l \in Server : \E q \in 1..seen[k][p][l] : <<i, n>> = <<l, q>>
          BY <5>1, <5>3, Zenon
        <5> QED BY <5>4
      <4>6. t \in Added(Collect(sent, seen[k][p]))
        BY <3>2, <3>4, <4>5, InAdded
      <4>7. t \notin sent[k][p].tags
        BY <3>2, <4>2, <4>3, InAdded DEF Msgs
      <4>8. t \in Cancelled(Collect(sent, seen[k][p]))
        BY <4>4, <4>6, <4>7 DEF Live
      <4>9. PICK l \in Server : \E q \in 1..seen[k][p][l] : sent[l][q].op = "rem" /\ t \in sent[l][q].tags
        BY <3>2, <4>8, InAdded
      <4>10. PICK q \in 1..seen[k][p][l] : sent[l][q].op = "rem" /\ t \in sent[l][q].tags
        BY <4>9
      <4>11. <<l, q>> \in Executed(r)
        <5>1. <<l, q>> \in Observed(z)
          BY <2>5, <4>2, <4>3, <4>10
        <5> QED BY <2>8, <3>6, <5>1 DEF CausallyClosed
      <4>12. q \in 1..rcvd[r][l]
        BY <2>4, <4>11
      <4> QED BY <3>2, <4>10, <4>12, InAdded DEF Msgs
    <3> QED BY <3>5, <3>6 DEF UnobservedAdds
  <2> QED BY <2>7, <2>8
<1> QED BY <1>1, TagInvariance, PTL
=============================================================================
