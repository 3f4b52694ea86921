------------------------------ MODULE P2PProofs ------------------------------
(***************************************************************************)
(* What the two steps of the replication layer do to the set of commands   *)
(* each server has executed.  The proofs about the containers rest on it.  *)
(***************************************************************************)
EXTENDS P2P, TLAPS

\* The commands covered by a count per origin, out of those sent.
Collect(s, counts) == UNION {{s[k][n] : n \in 1..counts[k]} : k \in Server}

\* The commands executed at r.
Msgs(r) == Collect(sent, rcvd[r])

\* Nothing is received that was not sent, and a server has executed all it sent.
Streams ==
  \A i, j \in Server : /\ rcvd[j][i] <= Len(sent[i])
                       /\ rcvd[i][i] = Len(sent[i])

\* The state of the streams is well typed, for commands taken from Msg.
P2PType(Msg) ==
  /\ sent \in [Server -> Seq(Msg)]
  /\ rcvd \in [Server -> Vector]
  /\ seen \in [Server -> Seq(Vector)]

\* Collect in terms of positions in the streams.
LEMMA InCollect ==
  ASSUME NEW s, NEW counts
  PROVE  \A m : m \in Collect(s, counts) <=>
           \E k \in Server : \E n \in 1..counts[k] : m = s[k][n]
  BY DEF Collect

\* Collect depends only on the counts and on the commands they cover.
LEMMA CollectSame ==
  ASSUME NEW s, NEW c, NEW s1, NEW c1,
         \A k \in Server : c1[k] = c[k],
         \A k \in Server : \A n \in 1..c[k] : s1[k][n] = s[k][n]
  PROVE  Collect(s1, c1) = Collect(s, c)
<1>1. \A m : m \in Collect(s1, c1) <=> m \in Collect(s, c)
  BY InCollect
<1> QED BY <1>1

\* One more command of i is covered.
LEMMA CollectOneMore ==
  ASSUME NEW s, NEW c \in Vector, NEW s1, NEW c1, NEW i \in Server,
         \A k \in Server : c1[k] = IF k = i THEN c[i] + 1 ELSE c[k],
         \A k \in Server : \A n \in 1..c[k] : s1[k][n] = s[k][n]
  PROVE  Collect(s1, c1) = Collect(s, c) \cup {s1[i][c[i] + 1]}
<1>1. c[i] \in Nat
  BY DEF Vector
<1>2. \A n : n \in 1..c1[i] <=> n \in 1..c[i] \/ n = c[i] + 1
  BY <1>1
<1>3. \A m : m \in Collect(s1, c1) <=> m \in Collect(s, c) \/ m = s1[i][c[i] + 1]
  <2> TAKE m
  <2>1. ASSUME m \in Collect(s1, c1) PROVE m \in Collect(s, c) \/ m = s1[i][c[i] + 1]
    BY <1>2, <2>1, InCollect
  <2>2. ASSUME m \in Collect(s, c) PROVE m \in Collect(s1, c1)
    <3>1. PICK k \in Server : \E n \in 1..c[k] : m = s[k][n]
      BY <2>2, InCollect
    <3>2. PICK n \in 1..c[k] : m = s1[k][n]
      BY <3>1
    <3>3. n \in 1..c1[k]
      BY <1>2
    <3> QED BY <3>2, <3>3, InCollect
  <2>3. s1[i][c[i] + 1] \in Collect(s1, c1)
    BY <1>2, InCollect
  <2> QED BY <2>1, <2>2, <2>3
<1> QED BY <1>3

\* Executed commands are commands that were sent.
LEMMA MsgsType ==
  ASSUME NEW Msg, P2PType(Msg), Streams, NEW r \in Server
  PROVE  Msgs(r) \subseteq Msg
<1> SUFFICES ASSUME NEW k \in Server, NEW n \in 1..rcvd[r][k] PROVE sent[k][n] \in Msg
  BY InCollect DEF Msgs
<1>1. rcvd[r][k] \in Nat /\ rcvd[r][k] <= Len(sent[k]) /\ sent[k] \in Seq(Msg)
  BY DEF P2PType, Streams, Vector
<1> QED BY <1>1

\* A broadcast makes its command executed at the sender and nowhere else.
LEMMA BroadcastMsgs ==
  ASSUME NEW Msg, P2PType(Msg), Streams, NEW i \in Server, NEW m \in Msg,
         replicationBroadcast(i, m)
  PROVE  /\ P2PType(Msg)'
         /\ Streams'
         /\ Msgs(i)' = Msgs(i) \cup {m}
         /\ \A s \in Server \ {i} : Msgs(s)' = Msgs(s)
<1>1. /\ sent' = [sent EXCEPT ![i] = Append(sent[i], m)]
      /\ rcvd' = [rcvd EXCEPT ![i] = [rcvd[i] EXCEPT ![i] = rcvd[i][i] + 1]]
      /\ seen' = [seen EXCEPT ![i] = Append(seen[i], rcvd[i])]
  BY DEF replicationBroadcast
<1>2. \A k \in Server : sent[k] \in Seq(Msg) /\ rcvd[k] \in Vector /\ seen[k] \in Seq(Vector)
  BY DEF P2PType
<1>3. \A j, k \in Server : rcvd[j][k] \in Nat /\ rcvd[j][k] <= Len(sent[k])
  BY <1>2 DEF Streams, Vector
<1>4. /\ Len(sent'[i]) = Len(sent[i]) + 1
      /\ sent'[i][Len(sent[i]) + 1] = m
      /\ \A k \in Server \ {i} : sent'[k] = sent[k]
      /\ \A k \in Server : \A n \in 1..Len(sent[k]) : sent'[k][n] = sent[k][n]
  BY <1>1, <1>2 DEF P2PType
<1>5. \A j, k \in Server : rcvd'[j][k] = IF j = i /\ k = i THEN rcvd[i][i] + 1 ELSE rcvd[j][k]
  BY <1>1, <1>2 DEF P2PType, Vector
<1>6. P2PType(Msg)'
  <2>1. sent' \in [Server -> Seq(Msg)]
    BY <1>1, <1>2 DEF P2PType
  <2>2. [rcvd[i] EXCEPT ![i] = rcvd[i][i] + 1] \in Vector
    BY <1>2, <1>3 DEF Vector
  <2>3. rcvd' \in [Server -> Vector]
    BY <1>1, <2>2 DEF P2PType
  <2>4. seen' \in [Server -> Seq(Vector)]
    BY <1>1, <1>2 DEF P2PType
  <2> QED BY <2>1, <2>3, <2>4 DEF P2PType
<1>7. Streams'
  <2> SUFFICES ASSUME NEW k \in Server, NEW j \in Server
               PROVE  rcvd'[j][k] <= Len(sent'[k]) /\ rcvd'[k][k] = Len(sent'[k])
    BY DEF Streams
  <2>1. Len(sent[i]) \in Nat /\ rcvd[i][i] = Len(sent[i]) /\ rcvd[k][k] = Len(sent[k])
    BY <1>2 DEF Streams
  <2> QED BY <1>3, <1>4, <1>5, <2>1
<1>8. \A s \in Server \ {i} : Msgs(s)' = Msgs(s)
  <2> SUFFICES ASSUME NEW s \in Server, s # i PROVE Msgs(s)' = Msgs(s)
    OBVIOUS
  <2>1. \A k \in Server : rcvd'[s][k] = rcvd[s][k]
    BY <1>5
  <2>2. \A k \in Server : \A n \in 1..rcvd[s][k] : sent'[k][n] = sent[k][n]
    BY <1>2, <1>3, <1>4, SMTT(30)
  <2> QED BY <2>1, <2>2, CollectSame DEF Msgs
<1>9. Msgs(i)' = Msgs(i) \cup {m}
  <2>1. \A k \in Server : \A n \in 1..rcvd[i][k] : sent'[k][n] = sent[k][n]
    BY <1>2, <1>3, <1>4
  <2>2. \A k \in Server : rcvd'[i][k] = IF k = i THEN rcvd[i][i] + 1 ELSE rcvd[i][k]
    BY <1>5
  <2>3. sent'[i][rcvd[i][i] + 1] = m
    BY <1>4 DEF Streams
  <2>4. rcvd[i] \in Vector
    BY <1>2
  <2>5. Collect(sent', rcvd'[i]) = Collect(sent, rcvd[i]) \cup {sent'[i][rcvd[i][i] + 1]}
    <3> DEFINE c == rcvd[i]
               c1 == rcvd'[i]
               s1 == sent'
    <3>1. /\ c \in Vector
          /\ \A k \in Server : c1[k] = IF k = i THEN c[i] + 1 ELSE c[k]
          /\ \A k \in Server : \A n \in 1..c[k] : s1[k][n] = sent[k][n]
      BY <2>1, <2>2, <2>4
    <3> HIDE DEF c, c1, s1
    <3>2. Collect(s1, c1) = Collect(sent, c) \cup {s1[i][c[i] + 1]}
      BY <3>1, CollectOneMore
    <3> QED BY <3>2 DEF c, c1, s1
  <2> QED BY <2>3, <2>5 DEF Msgs
<1> QED BY <1>6, <1>7, <1>8, <1>9

\* Reading a stream makes its next command executed at the reader.
LEMMA ReadMsgs ==
  ASSUME NEW Msg, P2PType(Msg), Streams, NEW i \in Server, NEW j \in Server,
         InFlight(i, j), ReadFromReplica(i, j)
  PROVE  /\ NextCmd(i, j) \in Msg
         /\ P2PType(Msg)'
         /\ Streams'
         /\ Msgs(j)' = Msgs(j) \cup {NextCmd(i, j)}
         /\ \A s \in Server \ {j} : Msgs(s)' = Msgs(s)
<1>1. /\ rcvd' = [rcvd EXCEPT ![j] = [rcvd[j] EXCEPT ![i] = rcvd[j][i] + 1]]
      /\ sent' = sent /\ seen' = seen
  BY DEF ReadFromReplica
<1>2. \A k \in Server : sent[k] \in Seq(Msg) /\ rcvd[k] \in Vector
  BY DEF P2PType
<1>3. \A s, k \in Server : rcvd[s][k] \in Nat /\ Len(sent[k]) \in Nat
  BY <1>2 DEF Vector
<1>4. rcvd[j][i] + 1 \in 1..Len(sent[i]) /\ i # j
  BY <1>3 DEF InFlight, Streams
<1>5. \A s, k \in Server : rcvd'[s][k] = IF s = j /\ k = i THEN rcvd[j][i] + 1 ELSE rcvd[s][k]
  BY <1>1, <1>2 DEF P2PType, Vector
<1>6. P2PType(Msg)'
  <2>1. [rcvd[j] EXCEPT ![i] = rcvd[j][i] + 1] \in Vector
    BY <1>2, <1>3 DEF Vector
  <2> QED BY <1>1, <2>1 DEF P2PType
<1>7. Streams'
  BY <1>1, <1>3, <1>4, <1>5 DEF Streams
<1>8. \A s \in Server \ {j} : Msgs(s)' = Msgs(s)
  BY <1>1, <1>5, CollectSame DEF Msgs
<1>9. Msgs(j)' = Msgs(j) \cup {NextCmd(i, j)}
  <2>1. \A k \in Server : rcvd'[j][k] = IF k = i THEN rcvd[j][i] + 1 ELSE rcvd[j][k]
    BY <1>5
  <2>2. rcvd[j] \in Vector
    BY <1>2
  <2>3. Collect(sent, rcvd'[j]) = Collect(sent, rcvd[j]) \cup {sent[i][rcvd[j][i] + 1]}
    <3> DEFINE c == rcvd[j]
               c1 == rcvd'[j]
    <3>1. c \in Vector /\ \A k \in Server : c1[k] = IF k = i THEN c[i] + 1 ELSE c[k]
      BY <2>1, <2>2
    <3> HIDE DEF c, c1
    <3>2. Collect(sent, c1) = Collect(sent, c) \cup {sent[i][c[i] + 1]}
      BY <3>1, CollectOneMore
    <3> QED BY <3>2 DEF c, c1
  <2> QED BY <1>1, <2>3 DEF Msgs, NextCmd
<1>10. NextCmd(i, j) \in Msg
  BY <1>2, <1>4 DEF NextCmd
<1> QED BY <1>6, <1>7, <1>8, <1>9, <1>10
-----------------------------------------------------------------------------
(* The streams keep the promise of module Streams.                         *)

\* Nothing has been issued or run at the start.
LEMMA InitPromise == P2PInit => Promise!Init
  BY DEF P2PInit, Promise!Init, Promise!Stream

\* A broadcast issues one command.
LEMMA BroadcastPromise ==
  ASSUME NEW Msg, P2PType(Msg), NEW i \in Server, NEW m, replicationBroadcast(i, m)
  PROVE  Promise!Next
<1>1. /\ sent \in [Server -> Seq(Msg)] /\ rcvd \in [Server -> Vector]
      /\ sent' = [sent EXCEPT ![i] = Append(@, m)]
      /\ rcvd' = [rcvd EXCEPT ![i][i] = @ + 1]
  BY DEF P2PType, replicationBroadcast
<1>2. [k \in Server |-> Len(sent'[k])] =
        [[k \in Server |-> Len(sent[k])] EXCEPT ![i] = Len(sent[i]) + 1]
  <2>1. \A k \in Server : Len(sent'[k]) = IF k = i THEN Len(sent[i]) + 1 ELSE Len(sent[k])
    BY <1>1
  <2> QED BY <2>1
<1>3. \A a, b \in Server : a # b => rcvd'[b][a] = rcvd[b][a]
  BY <1>1 DEF Vector
<1>4. Promise!Issue(i)
  BY <1>2, <1>3 DEF Promise!Issue
<1> QED BY <1>4 DEF Promise!Next

\* Running the next command of a peer delivers one command.
LEMMA ReadPromise ==
  ASSUME NEW Msg, P2PType(Msg), Streams, NEW i \in Server, NEW j \in Server,
         InFlight(i, j), ReadFromReplica(i, j)
  PROVE  Promise!Next
<1>1. /\ rcvd \in [Server -> Vector] /\ sent' = sent
      /\ rcvd' = [rcvd EXCEPT ![j][i] = @ + 1]
  BY DEF P2PType, ReadFromReplica
<1>2. i # j /\ rcvd[j][i] < Len(sent[i])
  <2>1. rcvd[j][i] < Len(sent[i])
    BY DEF InFlight
  <2>2. i # j
    <3> SUFFICES ASSUME i = j PROVE FALSE
      OBVIOUS
    <3>1. rcvd[i][i] = Len(sent[i]) /\ rcvd[i][i] \in Nat
      BY <1>1 DEF Streams, Vector
    <3> QED BY <2>1, <3>1
  <2> QED BY <2>1, <2>2
<1>3. \A a, b \in Server : rcvd'[b][a] = IF a = i /\ b = j THEN rcvd[b][a] + 1 ELSE rcvd[b][a]
  BY <1>1 DEF Vector
<1>4. <<i, j>> \in Promise!Stream
  BY <1>2 DEF Promise!Stream
<1>5. [s \in {t \in Server \X Server : t[1] # t[2]} |-> rcvd'[s[2]][s[1]]] =
        [[s \in {t \in Server \X Server : t[1] # t[2]} |-> rcvd[s[2]][s[1]]]
           EXCEPT ![<<i, j>>] = rcvd[j][i] + 1]
  <2> DEFINE Pairs == {t \in Server \X Server : t[1] # t[2]}
  <2>1. \A s \in Pairs : rcvd'[s[2]][s[1]] =
          IF s = <<i, j>> THEN rcvd[j][i] + 1 ELSE rcvd[s[2]][s[1]]
    BY <1>3
  <2> HIDE DEF Pairs
  <2>2. [s \in Pairs |-> rcvd'[s[2]][s[1]]] =
          [[s \in Pairs |-> rcvd[s[2]][s[1]]] EXCEPT ![<<i, j>>] = rcvd[j][i] + 1]
    BY <2>1
  <2> QED BY <2>2 DEF Pairs
<1>6. Promise!Deliver(<<i, j>>)
  BY <1>1, <1>2, <1>5 DEF Promise!Deliver
<1> QED BY <1>4, <1>6 DEF Promise!Next
=============================================================================
