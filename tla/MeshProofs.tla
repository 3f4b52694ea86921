----------------------------- MODULE MeshProofs -----------------------------
(***************************************************************************)
(* For any number of servers, commands and faults: the streams of the mesh *)
(* have no gaps, peers' commands run as effects, no update precedes the    *)
(* configuration, and the mesh implements module Streams.                  *)
(***************************************************************************)
EXTENDS Mesh, TLAPS

\* hs handshakes, then the commands d + 1 to lg.
Carry(ch, hs, d, lg) ==
  /\ Len(ch) = lg - d + hs
  /\ \A n \in 1..Len(ch) : ch[n] = IF n <= hs THEN 0 ELSE d + n - hs

\* What holds of one direction of a connection: of its link's state lk, whether
\* the reader is in the writer's list (joined) and the writer in the reader's
\* (back), what the reader has run g, where it joined at, what is in flight ch,
\* how many commands the writer has issued lg, and whether the writer opened it.
StreamOK(lk, joined, back, g, at, ch, lg, opens) ==
  LET d == IF g = <<>> THEN at ELSE g[Len(g)] IN
  /\ d \in Nat /\ d <= lg
  /\ joined => lk \in {"up", "broken"}
  /\ ~joined => g = <<>>
  /\ lk = "up" /\ opens => joined
  /\ ~(lk = "up" /\ joined) => ch = <<>>
  /\ lk = "up" /\ joined => Carry(ch, IF back THEN 0 ELSE 1, d, lg)

StreamInv(a, b) ==
  StreamOK(link[PairOf(a, b)], b \in replicas[a], a \in replicas[b], got[b][a],
           joinAt[a][b], chan[a][b], log[a], b < a)

\* The script reaches the servers in the order of their numbers.
Ordered ==
  /\ \A k \in Server : k < step => k \in known \cup down
  /\ \A p \in Pair : link[p] # "none" => p[2] < step /\ p[2] \in known
  /\ \A a \in Server : replicas[a] # {} => a \in known

Inv ==
  /\ TypeOK
  /\ Ordered
  /\ \A a \in Server : a \notin replicas[a] /\ chan[a][a] = <<>>
  /\ \A a, b \in Server : a # b => StreamInv(a, b)
-----------------------------------------------------------------------------
(* One stream.                                                             *)

\* The next command joins the end of the stream.
LEMMA CarryAppend ==
  ASSUME NEW ch \in Seq(Nat), NEW hs \in {0, 1}, NEW d \in Nat, NEW lg \in Nat,
         d <= lg, Carry(ch, hs, d, lg)
  PROVE  Carry(Append(ch, lg + 1), hs, d, lg + 1)
<1> DEFINE new == Append(ch, lg + 1)
<1>1. Len(new) = Len(ch) + 1 /\ Len(new) = lg + 1 - d + hs
  BY DEF Carry
<1>2. ASSUME NEW n \in 1..Len(new) PROVE new[n] = IF n <= hs THEN 0 ELSE d + n - hs
  <2>1. CASE n \in 1..Len(ch)
    BY <2>1, <1>1 DEF Carry
  <2>2. CASE n = Len(ch) + 1
    BY <2>2, <1>1 DEF Carry
  <2> QED BY <2>1, <2>2, <1>1
<1> QED BY <1>1, <1>2 DEF Carry

\* The handshake leaves the front of the stream.
LEMMA CarryHandshake ==
  ASSUME NEW ch \in Seq(Nat), NEW d \in Nat, NEW lg \in Nat, ch # <<>>,
         Carry(ch, 1, d, lg)
  PROVE  Carry(Tail(ch), 0, d, lg)
  BY DEF Carry

\* The first command of the stream is the one after the last that was run.
LEMMA CarryCommand ==
  ASSUME NEW ch \in Seq(Nat), NEW d \in Nat, NEW lg \in Nat, ch # <<>>,
         Carry(ch, 0, d, lg)
  PROVE  /\ Head(ch) = d + 1
         /\ d < lg
         /\ Carry(Tail(ch), 0, d + 1, lg)
  BY DEF Carry

\* A handshake is at the front exactly when the reader has not read it.
LEMMA CarryHead ==
  ASSUME NEW ch \in Seq(Nat), NEW hs \in {0, 1}, NEW d \in Nat, NEW lg \in Nat,
         ch # <<>>, Carry(ch, hs, d, lg)
  PROVE  Head(ch) = 0 <=> hs = 1
  BY DEF Carry

\* The two directions of a connection share it.
LEMMA PairOfServers ==
  ASSUME NEW a \in Server, NEW b \in Server, a # b
  PROVE  PairOf(a, b) \in Pair /\ PairOf(a, b) = PairOf(b, a)
  BY NAssumption DEF PairOf, Pair, Server

\* A stream of which nothing changes stays as it is.
LEMMA Untouched ==
  ASSUME NEW a, NEW b, StreamInv(a, b),
         link'[PairOf(a, b)] = link[PairOf(a, b)],
         (b \in replicas[a])' <=> (b \in replicas[a]),
         (a \in replicas[b])' <=> (a \in replicas[b]),
         got'[b][a] = got[b][a], joinAt'[a][b] = joinAt[a][b],
         chan'[a][b] = chan[a][b], log'[a] = log[a]
  PROVE  StreamInv(a, b)'
  BY DEF StreamInv, StreamOK

\* Nothing is connected at the start.
LEMMA InitInv == Init => Inv
  <1> SUFFICES ASSUME Init PROVE Inv
    OBVIOUS
  <1>1. TypeOK
    BY NAssumption DEF Init, TypeOK
  <1>2. Ordered
    BY DEF Init, Ordered, Server
  <1>3. ASSUME NEW a \in Server, NEW b \in Server, a # b PROVE StreamInv(a, b)
    BY <1>3, PairOfServers DEF Init, StreamInv, StreamOK
  <1> QED BY <1>1, <1>2, <1>3 DEF Inv, Init

\* REPLICATE opens connections that carry nothing yet.
LEMMA ReplicateInv ==
  ASSUME Inv, NEW k \in Server, Replicate(k)
  PROVE  Inv'
<1>1. TypeOK'
  <2>1. step' \in 0..N /\ known' \subseteq Server
    BY NAssumption DEF Inv, TypeOK, Replicate, Server
  <2>2. link' \in [Pair -> {"none", "connecting", "up", "broken"}]
    BY DEF Inv, TypeOK, Replicate
  <2> QED BY <2>1, <2>2 DEF Inv, TypeOK, Replicate
<1>2. \A p \in Pair : p[1] \in Server /\ p[2] \in Server /\ p[1] < p[2]
  BY DEF Pair
<1>3. \A p \in Pair : link[p] = "none" \/ link'[p] = link[p]
  BY <1>2 DEF Inv, Ordered, Replicate, TypeOK, Server
<1>4. Ordered'
  BY <1>2 DEF Inv, Ordered, Replicate, TypeOK, Server
<1>5. ASSUME NEW a \in Server, NEW b \in Server, a # b PROVE StreamInv(a, b)'
  <2>1. PairOf(a, b) \in Pair /\ StreamInv(a, b)
    BY <1>5, PairOfServers DEF Inv
  <2>2. CASE link'[PairOf(a, b)] = link[PairOf(a, b)]
    BY <2>1, <2>2, Untouched DEF Replicate
  <2>3. CASE link[PairOf(a, b)] = "none"
    <3>1. link'[PairOf(a, b)] \in {"none", "connecting"}
      BY <2>1, <2>3 DEF Replicate
    <3> QED BY <2>1, <2>3, <3>1 DEF StreamInv, StreamOK, Replicate
  <2> QED BY <1>3, <2>1, <2>2, <2>3
<1> QED BY <1>1, <1>4, <1>5 DEF Inv, Replicate

\* The opener joins, and its handshake is all that is in flight.
LEMMA HandlerInv ==
  ASSUME Inv, NEW i \in Server, NEW k \in Server, i < k, replicationHandler(i, k)
  PROVE  Inv'
<1>0. /\ <<i, k>> \in Pair /\ PairOf(i, k) = <<i, k>> /\ PairOf(k, i) = <<i, k>>
      /\ link[<<i, k>>] = "connecting"
      /\ \A p \in Pair : p # <<i, k>> => link'[p] = link[p]
      /\ link'[<<i, k>>] \in {"up", "broken"}
      /\ chan' = IF link'[<<i, k>>] = "up" THEN [chan EXCEPT ![k][i] = Append(@, 0)] ELSE chan
  <2>1. <<i, k>> \in Pair /\ PairOf(i, k) = <<i, k>> /\ PairOf(k, i) = <<i, k>>
    BY DEF Pair, PairOf, Server
  <2>2. link \in [Pair -> {"none", "connecting", "up", "broken"}]
    BY DEF Inv, TypeOK
  <2>3. CASE i \notin down
    BY <2>1, <2>2, <2>3 DEF replicationHandler
  <2>4. CASE i \in down
    BY <2>1, <2>2, <2>4 DEF replicationHandler
  <2> QED BY <2>3, <2>4
<1>1. TypeOK'
  <2>1. link' \in [Pair -> {"none", "connecting", "up", "broken"}]
    BY <1>0 DEF Inv, TypeOK, replicationHandler
  <2>2. chan' \in [Server -> [Server -> Seq(Nat)]]
    <3>1. chan \in [Server -> [Server -> Seq(Nat)]]
      BY DEF Inv, TypeOK
    <3>2. chan[k][i] \in Seq(Nat) /\ Append(chan[k][i], 0) \in Seq(Nat)
      BY <3>1
    <3>3. CASE link'[<<i, k>>] = "up"
      <4>1. chan' = [chan EXCEPT ![k][i] = Append(chan[k][i], 0)]
        BY <1>0, <3>1, <3>3
      <4> QED BY <3>1, <3>2, <4>1
    <3>4. CASE link'[<<i, k>>] # "up"
      BY <1>0, <3>1, <3>4
    <3> QED BY <3>3, <3>4
  <2>3. replicas' \in [Server -> SUBSET Server] /\ joinAt' \in [Server -> [Server -> Nat]]
    BY DEF Inv, TypeOK, replicationHandler, Join
  <2> QED BY <2>1, <2>2, <2>3 DEF Inv, TypeOK, replicationHandler
<1>2. Ordered'
  BY <1>0 DEF Inv, Ordered, TypeOK, replicationHandler, Join
<1>3. StreamInv(i, k) /\ StreamInv(k, i) /\ i # k
  BY DEF Inv, Server
<1>4. chan[i][k] = <<>> /\ chan[k][i] = <<>> /\ got[i][k] = <<>> /\ i \notin replicas[k] /\ k \notin replicas[i]
  BY <1>0, <1>3 DEF StreamInv, StreamOK
<1>5. /\ \A a, b \in Server : b \in replicas'[a] <=> b \in replicas[a] \/ (a = k /\ b = i)
      /\ \A a, b \in Server : <<a, b>> # <<k, i>> => joinAt'[a][b] = joinAt[a][b] /\ chan'[a][b] = chan[a][b]
      /\ joinAt'[k][i] = log[k] /\ log' = log /\ got' = got /\ log[k] \in Nat
      /\ chan'[k][i] = IF link'[<<i, k>>] = "up" THEN Append(chan[k][i], 0) ELSE chan[k][i]
  BY <1>0 DEF replicationHandler, Join, Inv, TypeOK
<1>6. StreamInv(i, k)'
  BY <1>0, <1>3, <1>4, <1>5 DEF StreamInv, StreamOK, Server
<1>7. StreamInv(k, i)'
  <2>1. Carry(<<0>>, 1, log[k], log[k])
    BY <1>5 DEF Carry
  <2>2. chan'[k][i] = IF link'[<<i, k>>] = "up" THEN <<0>> ELSE <<>>
    BY <1>4, <1>5
  <2> QED BY <1>0, <1>3, <1>4, <1>5, <2>1, <2>2 DEF StreamInv, StreamOK
<1>8. ASSUME NEW a \in Server, NEW b \in Server, a # b PROVE StreamInv(a, b)'
  <2>1. CASE <<a, b>> \in {<<i, k>>, <<k, i>>}
    BY <2>1, <1>6, <1>7
  <2>2. CASE <<a, b>> \notin {<<i, k>>, <<k, i>>}
    <3>1. PairOf(a, b) \in Pair /\ PairOf(a, b) # <<i, k>> /\ StreamInv(a, b)
      BY <1>8, <2>2, PairOfServers DEF PairOf, Inv
    <3> QED BY <3>1, <2>2, <1>0, <1>5, Untouched
  <2> QED BY <2>1, <2>2
<1>9. \A a \in Server : a \notin replicas'[a] /\ chan'[a][a] = <<>>
  BY <1>3, <1>5 DEF Inv
<1> QED BY <1>1, <1>2, <1>8, <1>9 DEF Inv

\* A connection that goes takes what was in flight along, in both directions, and
\* nothing of the others; lg may have grown.
LEMMA BreakStreams ==
  ASSUME Inv, NEW S \in SUBSET Pair, \A p \in S : link[p] = "up", Break(S),
         replicas' = replicas, got' = got, joinAt' = joinAt,
         \A a \in Server : log'[a] \in Nat /\ log'[a] >= log[a],
         \A a \in Server, p \in Pair :
           (p[1] = a \/ p[2] = a) /\ link[p] = "up" /\ p \notin S => log'[a] = log[a]
  PROVE  /\ link' \in [Pair -> {"none", "connecting", "up", "broken"}]
         /\ chan' \in [Server -> [Server -> Seq(Nat)]]
         /\ \A p \in Pair : link[p] = "none" => link'[p] = "none"
         /\ \A a \in Server : chan'[a][a] = <<>>
         /\ \A a, b \in Server : a # b => StreamInv(a, b)'
<1>1. /\ link' \in [Pair -> {"none", "connecting", "up", "broken"}]
      /\ \A p \in Pair : link'[p] = IF p \in S THEN "broken" ELSE link[p]
  BY DEF Inv, TypeOK, Break
<1>2. /\ chan' \in [Server -> [Server -> Seq(Nat)]]
      /\ \A a, b \in Server : chan'[a][b] = IF PairOf(a, b) \in S THEN <<>> ELSE chan[a][b]
  BY DEF Inv, TypeOK, Break
<1>3. ASSUME NEW a \in Server, NEW b \in Server, a # b PROVE StreamInv(a, b)'
  <2>1. /\ PairOf(a, b) \in Pair /\ StreamInv(a, b)
        /\ PairOf(a, b)[1] = a \/ PairOf(a, b)[2] = a
    BY <1>3, PairOfServers DEF Inv, PairOf
  <2>2. CASE PairOf(a, b) \in S
    <3>1. link[PairOf(a, b)] = "up" /\ link'[PairOf(a, b)] = "broken" /\ chan'[a][b] = <<>>
      BY <1>1, <1>2, <2>1, <2>2
    <3>2. log[a] \in Nat /\ log'[a] \in Nat /\ log'[a] >= log[a]
      BY DEF Inv, TypeOK
    <3> QED BY <2>1, <3>1, <3>2 DEF StreamInv, StreamOK
  <2>3. CASE PairOf(a, b) \notin S /\ link[PairOf(a, b)] = "up"
    BY <2>1, <2>3, <1>1, <1>2, Untouched
  <2>4. CASE PairOf(a, b) \notin S /\ link[PairOf(a, b)] # "up"
    <3>1. link'[PairOf(a, b)] = link[PairOf(a, b)] /\ chan'[a][b] = chan[a][b]
      BY <1>1, <1>2, <2>1, <2>4
    <3>2. log[a] \in Nat /\ log'[a] \in Nat /\ log'[a] >= log[a]
      BY DEF Inv, TypeOK
    <3> QED BY <2>1, <2>4, <3>1, <3>2 DEF StreamInv, StreamOK
  <2> QED BY <2>2, <2>3, <2>4
<1>4. \A p \in Pair : link[p] = "none" => link'[p] = "none"
  BY <1>1
<1>5. \A a \in Server : chan'[a][a] = <<>>
  BY <1>2 DEF Inv
<1> QED BY <1>1, <1>2, <1>3, <1>4, <1>5

\* A lost connection keeps the invariant.
LEMMA ResetInv ==
  ASSUME Inv, NEW p \in Pair, ConnectionReset(p)
  PROVE  Inv'
<1>1. /\ {p} \in SUBSET Pair /\ \A q \in {p} : link[q] = "up"
      /\ Break({p}) /\ replicas' = replicas /\ got' = got /\ joinAt' = joinAt /\ log' = log
  BY DEF ConnectionReset
<1>2. \A a \in Server : log'[a] \in Nat /\ log'[a] >= log[a]
  BY <1>1 DEF Inv, TypeOK
<1>3. /\ link' \in [Pair -> {"none", "connecting", "up", "broken"}]
      /\ chan' \in [Server -> [Server -> Seq(Nat)]]
      /\ \A q \in Pair : link[q] = "none" => link'[q] = "none"
      /\ \A a \in Server : chan'[a][a] = <<>>
      /\ \A a, b \in Server : a # b => StreamInv(a, b)'
  BY <1>1, <1>2, BreakStreams
<1>4. TypeOK' /\ Ordered'
  BY <1>3 DEF Inv, TypeOK, Ordered, ConnectionReset
<1> QED BY <1>3, <1>4 DEF Inv, ConnectionReset

\* So does the kill of a server.
LEMMA KillInv ==
  ASSUME Inv, NEW a \in Server, Kill(a)
  PROVE  Inv'
<1>1. /\ LinksOf(a) \in SUBSET Pair /\ \A q \in LinksOf(a) : link[q] = "up"
      /\ Break(LinksOf(a)) /\ replicas' = replicas /\ got' = got /\ joinAt' = joinAt /\ log' = log
  BY DEF Kill, LinksOf
<1>2. \A b \in Server : log'[b] \in Nat /\ log'[b] >= log[b]
  BY <1>1 DEF Inv, TypeOK
<1>3. /\ link' \in [Pair -> {"none", "connecting", "up", "broken"}]
      /\ chan' \in [Server -> [Server -> Seq(Nat)]]
      /\ \A q \in Pair : link[q] = "none" => link'[q] = "none"
      /\ \A b \in Server : chan'[b][b] = <<>>
      /\ \A b, c \in Server : b # c => StreamInv(b, c)'
  BY <1>1, <1>2, BreakStreams
<1>4. TypeOK' /\ Ordered'
  BY <1>3 DEF Inv, TypeOK, Ordered, Kill
<1> QED BY <1>3, <1>4 DEF Inv, Kill

\* So does the freeing of a closed client.
LEMMA FreeInv ==
  ASSUME Inv, NEW a \in Server, NEW b \in Server, freeClient(a, b)
  PROVE  Inv'
<1>1. TypeOK' /\ Ordered'
  BY DEF Inv, TypeOK, Ordered, freeClient
<1>2. ASSUME NEW c \in Server, NEW d \in Server, c # d PROVE StreamInv(c, d)'
  BY <1>2, Untouched DEF Inv, freeClient
<1> QED BY <1>1, <1>2 DEF Inv, freeClient

\* The command is appended to every stream of a that is up; or a crashes, and all
\* its streams end.
LEMMA UpdateInv ==
  ASSUME Inv, NEW a \in Server, Update(a)
  PROVE  Inv'
<1>1. /\ log' = [log EXCEPT ![a] = @ + 1] /\ log' \in [Server -> Nat] /\ log[a] \in Nat
      /\ UNCHANGED <<step, known, replicas, dangling, got, joinAt>>
      /\ \A b \in Server : log'[b] = IF b = a THEN log[a] + 1 ELSE log[b]
  BY DEF Update, replicationBroadcast, Inv, TypeOK
<1>2. CASE chan' = Written(a, log[a] + 1) /\ UNCHANGED <<link, down>>
  <2>1. /\ chan' \in [Server -> [Server -> Seq(Nat)]]
        /\ \A b, c \in Server : chan'[b][c] =
             IF b = a /\ c \in replicas[b] /\ link[PairOf(b, c)] = "up"
             THEN Append(chan[b][c], log[a] + 1) ELSE chan[b][c]
    <3>1. chan \in [Server -> [Server -> Seq(Nat)]] /\ log[a] + 1 \in Nat
      BY <1>1 DEF Inv, TypeOK
    <3>2. chan' = [chan EXCEPT ![a] =
                     [c \in Server |-> IF c \in replicas[a] /\ link[PairOf(a, c)] = "up"
                                       THEN Append(chan[a][c], log[a] + 1) ELSE chan[a][c]]]
      BY <1>2, <3>1 DEF Written
    <3>3. \A c \in Server : Append(chan[a][c], log[a] + 1) \in Seq(Nat)
      BY <3>1
    <3>4. [c \in Server |-> IF c \in replicas[a] /\ link[PairOf(a, c)] = "up"
                            THEN Append(chan[a][c], log[a] + 1) ELSE chan[a][c]]
            \in [Server -> Seq(Nat)]
      BY <3>1, <3>3
    <3>5. chan' \in [Server -> [Server -> Seq(Nat)]]
      BY <3>1, <3>2, <3>4
    <3> QED BY <3>1, <3>2, <3>5
  <2>2. TypeOK' /\ Ordered'
    BY <1>1, <1>2, <2>1 DEF Inv, TypeOK, Ordered
  <2>3. ASSUME NEW b \in Server, NEW c \in Server, b # c PROVE StreamInv(b, c)'
    <3>1. StreamInv(b, c) /\ chan[b][c] \in Seq(Nat)
      BY <2>3 DEF Inv, TypeOK
    <3>2. CASE b # a
      BY <3>1, <3>2, <1>1, <1>2, <2>1, Untouched
    <3>3. CASE b = a /\ c \in replicas[b] /\ link[PairOf(b, c)] = "up"
      <4> DEFINE hs == IF b \in replicas[c] THEN 0 ELSE 1
                 d == IF got[c][b] = <<>> THEN joinAt[b][c] ELSE got[c][b][Len(got[c][b])]
      <4>1. d \in Nat /\ d <= log[b] /\ Carry(chan[b][c], hs, d, log[b])
        BY <3>1, <3>3 DEF StreamInv, StreamOK
      <4>2. hs \in {0, 1} /\ log[b] \in Nat
        BY <1>1, <3>3
      <4> HIDE DEF hs, d
      <4>3. Carry(Append(chan[b][c], log[b] + 1), hs, d, log[b] + 1)
        BY <3>1, <4>1, <4>2, CarryAppend
      <4>4. chan'[b][c] = Append(chan[b][c], log[b] + 1) /\ log'[b] = log[b] + 1
        BY <1>1, <2>1, <3>3
      <4>5. d <= log[b] + 1
        BY <4>1, <4>2
      <4> QED BY <3>1, <3>3, <4>1, <4>3, <4>4, <4>5, <1>1, <1>2 DEF StreamInv, StreamOK, hs, d
    <3>4. CASE b = a /\ ~(c \in replicas[b] /\ link[PairOf(b, c)] = "up")
      <4>1. chan'[b][c] = chan[b][c] /\ log'[b] = log[b] + 1 /\ log[b] \in Nat
        BY <1>1, <2>1, <3>4
      <4> QED BY <3>1, <3>4, <4>1, <1>1, <1>2 DEF StreamInv, StreamOK
    <3> QED BY <3>2, <3>3, <3>4
  <2>4. \A b \in Server : b \notin replicas'[b] /\ chan'[b][b] = <<>>
    BY <1>1, <2>1 DEF Inv
  <2> QED BY <2>2, <2>3, <2>4 DEF Inv
<1>3. CASE down' = down \cup {a} /\ Break(LinksOf(a))
  <2>1. /\ LinksOf(a) \in SUBSET Pair /\ \A q \in LinksOf(a) : link[q] = "up"
        /\ replicas' = replicas /\ got' = got /\ joinAt' = joinAt
    BY <1>1 DEF LinksOf
  <2>2. \A b \in Server : log'[b] \in Nat /\ log'[b] >= log[b]
    BY <1>1 DEF Inv, TypeOK
  <2>3. \A b \in Server, p \in Pair :
          (p[1] = b \/ p[2] = b) /\ link[p] = "up" /\ p \notin LinksOf(a) => log'[b] = log[b]
    BY <1>1 DEF LinksOf
  <2>4. /\ link' \in [Pair -> {"none", "connecting", "up", "broken"}]
        /\ chan' \in [Server -> [Server -> Seq(Nat)]]
        /\ \A q \in Pair : link[q] = "none" => link'[q] = "none"
        /\ \A b \in Server : chan'[b][b] = <<>>
        /\ \A b, c \in Server : b # c => StreamInv(b, c)'
    BY <1>3, <2>1, <2>2, <2>3, BreakStreams
  <2>5. TypeOK' /\ Ordered'
    BY <1>1, <1>3, <2>4 DEF Inv, TypeOK, Ordered
  <2> QED BY <1>1, <2>4, <2>5 DEF Inv
<1> QED BY <1>2, <1>3 DEF Update, replicationBroadcast

\* What may be said of a stream with something in flight.
LEMMA Flowing ==
  ASSUME Inv, NEW a \in Server, NEW b \in Server, chan[a][b] # <<>>
  PROVE  /\ a # b /\ PairOf(a, b) \in Pair /\ PairOf(b, a) = PairOf(a, b)
         /\ link[PairOf(a, b)] = "up" /\ b \in replicas[a]
         /\ chan[a][b] \in Seq(Nat) /\ Delivered(a, b) \in Nat /\ log[a] \in Nat
         /\ Carry(chan[a][b], IF a \in replicas[b] THEN 0 ELSE 1, Delivered(a, b), log[a])
         /\ Head(chan[a][b]) = 0 <=> a \notin replicas[b]
<1>1. a # b /\ StreamInv(a, b) /\ chan[a][b] \in Seq(Nat) /\ log[a] \in Nat
  BY DEF Inv, TypeOK
<1>2. PairOf(a, b) \in Pair /\ PairOf(b, a) = PairOf(a, b)
  BY <1>1, PairOfServers
<1>3. /\ link[PairOf(a, b)] = "up" /\ b \in replicas[a] /\ Delivered(a, b) \in Nat
      /\ Carry(chan[a][b], IF a \in replicas[b] THEN 0 ELSE 1, Delivered(a, b), log[a])
  BY <1>1 DEF StreamInv, StreamOK, Delivered
<1>4. Head(chan[a][b]) = 0 <=> (IF a \in replicas[b] THEN 0 ELSE 1) = 1
  BY <1>1, <1>3, CarryHead
<1> QED BY <1>1, <1>2, <1>3, <1>4

\* The acceptor joins: the stream back to the opener begins, empty.
LEMMA HandshakeInv ==
  ASSUME Inv, NEW a \in Server, NEW b \in Server, ReadHandshake(a, b)
  PROVE  Inv' /\ a # b /\ a \notin replicas[b] /\ got[a][b] = <<>>
<1>1. chan[a][b] # <<>> /\ Head(chan[a][b]) = 0 /\ b \notin down
  BY DEF ReadHandshake, Read
<1>2. /\ a # b /\ PairOf(a, b) \in Pair /\ PairOf(b, a) = PairOf(a, b)
      /\ link[PairOf(a, b)] = "up" /\ b \in replicas[a]
      /\ chan[a][b] \in Seq(Nat) /\ Delivered(a, b) \in Nat /\ log[a] \in Nat
      /\ a \notin replicas[b] /\ Carry(chan[a][b], 1, Delivered(a, b), log[a])
  BY <1>1, Flowing
<1>3. StreamInv(a, b) /\ StreamInv(b, a) /\ log[b] \in Nat
  BY <1>2 DEF Inv, TypeOK
<1>4. got[a][b] = <<>> /\ chan[b][a] = <<>> /\ b < a
  BY <1>2, <1>3 DEF StreamInv, StreamOK, Server
<1>5. /\ UNCHANGED <<step, known, link, dangling, log, got, down>>
      /\ replicas' \in [Server -> SUBSET Server] /\ joinAt' \in [Server -> [Server -> Nat]]
      /\ chan' \in [Server -> [Server -> Seq(Nat)]]
      /\ \A c, d \in Server : d \in replicas'[c] <=> d \in replicas[c] \/ (c = b /\ d = a)
      /\ \A c, d \in Server : <<c, d>> # <<b, a>> => joinAt'[c][d] = joinAt[c][d]
      /\ \A c, d \in Server : <<c, d>> # <<a, b>> => chan'[c][d] = chan[c][d]
      /\ joinAt'[b][a] = log[b] /\ chan'[a][b] = Tail(chan[a][b])
  <2>1. /\ replicas' \in [Server -> SUBSET Server] /\ joinAt' \in [Server -> [Server -> Nat]]
        /\ \A c, d \in Server : d \in replicas'[c] <=> d \in replicas[c] \/ (c = b /\ d = a)
        /\ \A c, d \in Server : <<c, d>> # <<b, a>> => joinAt'[c][d] = joinAt[c][d]
        /\ joinAt'[b][a] = log[b]
    BY <1>3 DEF ReadHandshake, Join, Inv, TypeOK
  <2>2. /\ chan' \in [Server -> [Server -> Seq(Nat)]]
        /\ \A c, d \in Server : <<c, d>> # <<a, b>> => chan'[c][d] = chan[c][d]
        /\ chan'[a][b] = Tail(chan[a][b])
    <3>1. chan \in [Server -> [Server -> Seq(Nat)]] /\ Tail(chan[a][b]) \in Seq(Nat)
      BY <1>1, <1>2 DEF Inv, TypeOK
    <3>2. chan' = [chan EXCEPT ![a][b] = Tail(chan[a][b])]
      BY <3>1 DEF ReadHandshake
    <3> QED BY <3>1, <3>2
  <2> QED BY <2>1, <2>2 DEF ReadHandshake
<1>6. TypeOK'
  BY <1>5 DEF Inv, TypeOK
<1>7. Ordered'
  <2>1. b \in known
    <3>1. PairOf(a, b) = <<b, a>>
      BY <1>4 DEF PairOf, Server
    <3>2. a < step
      BY <1>2, <3>1 DEF Inv, Ordered
    <3> QED BY <1>1, <1>4, <3>2 DEF Inv, Ordered, TypeOK, Server
  <2> QED BY <1>5, <2>1 DEF Inv, Ordered
<1>8. StreamInv(a, b)'
  <2>1. Carry(Tail(chan[a][b]), 0, Delivered(a, b), log[a])
    BY <1>1, <1>2, CarryHandshake
  <2> QED BY <2>1, <1>2, <1>3, <1>5 DEF StreamInv, StreamOK, Delivered
<1>9. StreamInv(b, a)'
  <2>1. Carry(<<>>, 0, log[b], log[b])
    BY <1>3 DEF Carry
  <2>2. /\ link'[PairOf(b, a)] = "up" /\ a \in replicas'[b] /\ b \in replicas'[a]
        /\ got'[a][b] = <<>> /\ joinAt'[b][a] = log[b] /\ chan'[b][a] = <<>> /\ log'[b] = log[b]
    BY <1>2, <1>4, <1>5
  <2>3. log[b] \in Nat /\ log[b] <= log[b]
    BY <1>3
  <2>4. StreamOK("up", TRUE, TRUE, <<>>, log[b], <<>>, log[b], a < b)
    BY <2>1, <2>3 DEF StreamOK
  <2>5. StreamOK("up", a \in replicas'[b], b \in replicas'[a], <<>>, log[b], <<>>, log[b], a < b)
    BY <2>2, <2>4 DEF StreamOK
  <2> QED BY <2>2, <2>5 DEF StreamInv
<1>10. ASSUME NEW c \in Server, NEW d \in Server, c # d PROVE StreamInv(c, d)'
  <2>1. CASE <<c, d>> \notin {<<a, b>>, <<b, a>>}
    <3>1. /\ StreamInv(c, d) /\ chan'[c][d] = chan[c][d] /\ joinAt'[c][d] = joinAt[c][d]
          /\ d \in replicas'[c] <=> d \in replicas[c]
          /\ c \in replicas'[d] <=> c \in replicas[d]
      BY <1>10, <2>1, <1>5 DEF Inv
    <3> QED BY <3>1, <1>5, Untouched
  <2> QED BY <2>1, <1>8, <1>9
<1>11. \A c \in Server : c \notin replicas'[c] /\ chan'[c][c] = <<>>
  <2> SUFFICES ASSUME NEW c \in Server PROVE c \notin replicas'[c] /\ chan'[c][c] = <<>>
    OBVIOUS
  <2>1. c \notin replicas[c] /\ chan[c][c] = <<>>
    BY DEF Inv
  <2>2. <<c, c>> # <<a, b>> /\ ~(c = b /\ c = a)
    BY <1>2
  <2>3. chan'[c][c] = chan[c][c]
    BY <1>5, <2>2
  <2>4. c \notin replicas'[c]
    BY <1>5, <2>1, <2>2
  <2> QED BY <2>1, <2>3, <2>4
<1> QED BY <1>2, <1>4, <1>6, <1>7, <1>10, <1>11 DEF Inv

\* The reader runs the command after the last it ran.
LEMMA CommandInv ==
  ASSUME Inv, NEW a \in Server, NEW b \in Server, ReadCommand(a, b)
  PROVE  /\ Inv' /\ a # b /\ b \in replicas[a]
         /\ Delivered(a, b) < log[a]
         /\ \A c, d \in Server : c # d =>
              Delivered(c, d)' = IF c = a /\ d = b THEN Delivered(c, d) + 1 ELSE Delivered(c, d)
<1>1. chan[a][b] # <<>> /\ a \in replicas[b]
  BY DEF ReadCommand, Read
<1>2. /\ a # b /\ link[PairOf(a, b)] = "up" /\ b \in replicas[a]
      /\ chan[a][b] \in Seq(Nat) /\ Delivered(a, b) \in Nat /\ log[a] \in Nat
      /\ Carry(chan[a][b], 0, Delivered(a, b), log[a])
  BY <1>1, Flowing
<1>3. /\ Head(chan[a][b]) = Delivered(a, b) + 1
      /\ Delivered(a, b) < log[a]
      /\ Carry(Tail(chan[a][b]), 0, Delivered(a, b) + 1, log[a])
  BY <1>1, <1>2, CarryCommand
<1>4. got[b][a] \in Seq(Nat) /\ StreamInv(a, b)
  BY <1>2 DEF Inv, TypeOK
<1> DEFINE run == Append(got[b][a], Delivered(a, b) + 1)
<1>5. run \in Seq(Nat) /\ run # <<>> /\ run[Len(run)] = Delivered(a, b) + 1
  <2>1. Delivered(a, b) + 1 \in Nat
    BY <1>2
  <2>2. run \in Seq(Nat) /\ Len(run) = Len(got[b][a]) + 1 /\ Len(got[b][a]) \in Nat
    BY <1>4, <2>1
  <2>3. run[Len(got[b][a]) + 1] = Delivered(a, b) + 1
    BY <1>4, <2>1
  <2> QED BY <2>2, <2>3
<1> HIDE DEF run
<1>6. /\ UNCHANGED <<step, known, link, replicas, dangling, log, joinAt, down>>
      /\ chan' \in [Server -> [Server -> Seq(Nat)]]
      /\ got' \in [Server -> [Server -> Seq(Nat)]]
      /\ \A c, d \in Server : <<c, d>> # <<a, b>> => chan'[c][d] = chan[c][d] /\ got'[d][c] = got[d][c]
      /\ chan'[a][b] = Tail(chan[a][b]) /\ got'[b][a] = run
  <2>1. /\ chan \in [Server -> [Server -> Seq(Nat)]] /\ Tail(chan[a][b]) \in Seq(Nat)
        /\ got \in [Server -> [Server -> Seq(Nat)]]
    <3>1. Tail(chan[a][b]) \in Seq(Nat)
      BY <1>1, <1>2
    <3> QED BY <3>1 DEF Inv, TypeOK
  <2>2. chan' = [chan EXCEPT ![a][b] = Tail(chan[a][b])] /\ got' = [got EXCEPT ![b][a] = run]
    BY <1>3, <2>1 DEF ReadCommand, run
  <2>3. /\ chan' \in [Server -> [Server -> Seq(Nat)]] /\ chan'[a][b] = Tail(chan[a][b])
        /\ \A c, d \in Server : <<c, d>> # <<a, b>> => chan'[c][d] = chan[c][d]
    BY <2>1, <2>2
  <2>4. /\ got' \in [Server -> [Server -> Seq(Nat)]] /\ got'[b][a] = run
        /\ \A c, d \in Server : <<c, d>> # <<a, b>> => got'[d][c] = got[d][c]
    BY <1>5, <2>1, <2>2
  <2> QED BY <2>3, <2>4 DEF ReadCommand
<1>7. TypeOK' /\ Ordered'
  BY <1>6 DEF Inv, TypeOK, Ordered
<1>8. StreamInv(a, b)'
  <2>1. /\ link'[PairOf(a, b)] = "up" /\ b \in replicas'[a] /\ a \in replicas'[b]
        /\ got'[b][a] = run /\ chan'[a][b] = Tail(chan[a][b]) /\ log'[a] = log[a]
    BY <1>1, <1>2, <1>6
  <2>2. Delivered(a, b) + 1 \in Nat /\ Delivered(a, b) + 1 <= log[a]
    BY <1>2, <1>3
  <2> QED BY <2>1, <2>2, <1>3, <1>5 DEF StreamInv, StreamOK
<1>9. ASSUME NEW c \in Server, NEW d \in Server, c # d PROVE StreamInv(c, d)'
  <2>1. CASE <<c, d>> # <<a, b>>
    <3>1. StreamInv(c, d) /\ chan'[c][d] = chan[c][d] /\ got'[d][c] = got[d][c]
      BY <1>9, <2>1, <1>6 DEF Inv
    <3> QED BY <3>1, <1>6, Untouched
  <2> QED BY <2>1, <1>8
<1>10. \A c \in Server : c \notin replicas'[c] /\ chan'[c][c] = <<>>
  BY <1>2, <1>6 DEF Inv
<1>11. ASSUME NEW c \in Server, NEW d \in Server, c # d
       PROVE  Delivered(c, d)' = IF c = a /\ d = b THEN Delivered(c, d) + 1 ELSE Delivered(c, d)
  <2>1. CASE <<c, d>> # <<a, b>>
    BY <2>1, <1>6 DEF Delivered
  <2>2. CASE c = a /\ d = b
    <3>1. Delivered(a, b)' = run[Len(run)]
      BY <1>5, <1>6 DEF Delivered
    <3> QED BY <2>2, <3>1, <1>5
  <2> QED BY <2>1, <2>2
<1> QED BY <1>2, <1>3, <1>7, <1>9, <1>10, <1>11 DEF Inv
-----------------------------------------------------------------------------
(* The theorems.                                                           *)

\* Every step keeps the invariant.
LEMMA StepInv == Inv /\ [Next]_vars => Inv'
<1> SUFFICES ASSUME Inv, [Next]_vars PROVE Inv'
  OBVIOUS
<1>1. ASSUME NEW k \in Server, Replicate(k) PROVE Inv'
  BY <1>1, ReplicateInv
<1>2. ASSUME NEW p \in Pair, replicationHandler(p[1], p[2]) PROVE Inv'
  <2>1. p[1] \in Server /\ p[2] \in Server /\ p[1] < p[2]
    BY DEF Pair
  <2> QED BY <1>2, <2>1, HandlerInv
<1>3. ASSUME NEW a \in Server, Update(a) PROVE Inv'
  BY <1>3, UpdateInv
<1>4. ASSUME NEW a \in Server, NEW b \in Server, ReadHandshake(a, b) \/ ReadCommand(a, b) PROVE Inv'
  BY <1>4, HandshakeInv, CommandInv
<1>5. ASSUME NEW p \in Pair, ConnectionReset(p) PROVE Inv'
  BY <1>5, ResetInv
<1>6. ASSUME NEW a \in Server, Kill(a) PROVE Inv'
  BY <1>6, KillInv
<1>7. ASSUME NEW a \in Server, NEW b \in Server, freeClient(a, b) PROVE Inv'
  BY <1>7, FreeInv
<1>8. CASE UNCHANGED vars
  <2>1. TypeOK' /\ Ordered'
    BY <1>8 DEF Inv, TypeOK, Ordered, vars
  <2>2. ASSUME NEW c \in Server, NEW d \in Server, c # d PROVE StreamInv(c, d)'
    BY <1>8, <2>2, Untouched DEF Inv, vars
  <2> QED BY <1>8, <2>1, <2>2 DEF Inv, vars
<1> QED BY <1>1, <1>2, <1>3, <1>4, <1>5, <1>6, <1>7, <1>8 DEF Next

\* The inductive invariant holds of the mesh.
THEOREM MeshInvariance == Spec => []Inv
  BY InitInv, StepInv, PTL DEF Spec

\* No update is stamped before its server is configured, however the handshakes
\* and the faults fall.
THEOREM ConfiguredFirst == Spec => []ConfiguredBeforeUpdates
<1>1. Inv => ConfiguredBeforeUpdates
  BY DEF Inv, Ordered, ConfiguredBeforeUpdates
<1> QED BY <1>1, MeshInvariance, PTL

\* A command of a peer always runs as an effect.
THEOREM EffectsOnly == Spec => []PeerCommandsAreEffects
<1>1. Inv => PeerCommandsAreEffects
  BY Flowing DEF PeerCommandsAreEffects
<1> QED BY <1>1, MeshInvariance, PTL

\* A connection that is up carries all that its reader has not run.
THEOREM NoGaps == Spec => []GaplessStreams
<1>1. ASSUME Inv PROVE GaplessStreams
  <2>1. ASSUME NEW a \in Server, NEW b \in Server,
               a # b, link[PairOf(a, b)] = "up", b \in replicas[a]
        PROVE  Carry(chan[a][b], IF a \in replicas[b] THEN 0 ELSE 1, Delivered(a, b), log[a])
    BY <1>1, <2>1 DEF Inv, StreamInv, StreamOK, Delivered
  <2> QED BY <2>1 DEF GaplessStreams, Carry
<1>2. Inv => GaplessStreams
  BY <1>1
<1> QED BY <1>2, MeshInvariance, PTL

\* The mesh implements module Streams: joining the list joins the stream, reading
\* a command delivers the next one, an update issues one, whether its server
\* survives it or not, and nothing else is visible.
THEOREM MeshKeepsPromise == Spec => KeepsPromise
<1> DEFINE Pairs == {t \in Server \X Server : t[1] # t[2]}
<1>1. Init => Promise!Init
  <2> SUFFICES ASSUME Init PROVE Promise!Init
    OBVIOUS
  <2>1. \A s \in Pairs : joinAt[s[1]][s[2]] = 0 /\ Delivered(s[1], s[2]) = 0
    BY DEF Init, Delivered
  <2>2. log = [a \in Server |-> 0]
    BY DEF Init
  <2> QED BY <2>1, <2>2 DEF Promise!Init, Promise!Stream
<1>2. Inv /\ [Next]_vars => [Promise!Next]_Promise!vars
  <2> SUFFICES ASSUME Inv, [Next]_vars PROVE [Promise!Next]_Promise!vars
    OBVIOUS
  <2>1. ASSUME UNCHANGED <<log, replicas, got, joinAt>> PROVE UNCHANGED Promise!vars
    BY <2>1 DEF Promise!vars, Delivered
  <2>2. ASSUME NEW a \in Server, Update(a) PROVE Promise!Next
    <3>1. Promise!Issue(a)
      BY <2>2 DEF Promise!Issue, Update, replicationBroadcast, Delivered
    <3> QED BY <3>1 DEF Promise!Next
  <2>3. ASSUME NEW a \in Server, NEW b \in Server, a # b, Join(a, b),
               b \notin replicas[a], got[b][a] = <<>>, UNCHANGED <<log, got>>
        PROVE  Promise!Next
    <3>1. <<a, b>> \in Pairs
      BY <2>3
    <3>2. \A s \in Pairs :
            /\ s[2] \in replicas'[s[1]] <=> (s = <<a, b>> \/ s[2] \in replicas[s[1]])
            /\ joinAt'[s[1]][s[2]] = IF s = <<a, b>> THEN log[a] ELSE joinAt[s[1]][s[2]]
      <4>1. \A c, d \in Server :
              /\ d \in replicas'[c] <=> ((c = a /\ d = b) \/ d \in replicas[c])
              /\ joinAt'[c][d] = IF c = a /\ d = b THEN log[a] ELSE joinAt[c][d]
        BY <2>3 DEF Join, Inv, TypeOK
      <4>2. \A s \in Pairs : s[1] \in Server /\ s[2] \in Server /\ (s = <<a, b>> <=> (s[1] = a /\ s[2] = b))
        OBVIOUS
      <4> QED BY <4>1, <4>2
    <3>3. \A s \in Pairs :
            Delivered(s[1], s[2])' = IF s = <<a, b>> THEN log[a] ELSE Delivered(s[1], s[2])
      <4>1. got' = got /\ got[b][a] = <<>>
        BY <2>3
      <4> QED BY <3>2, <4>1 DEF Delivered
    <3>4. Promise!Join(<<a, b>>)
      <4>1. [s \in Pairs |-> s[2] \in replicas'[s[1]]] =
              [[s \in Pairs |-> s[2] \in replicas[s[1]]] EXCEPT ![<<a, b>>] = TRUE]
        <5> DEFINE after(s) == s[2] \in replicas'[s[1]]
                   before(s) == s[2] \in replicas[s[1]]
        <5>1. ASSUME NEW s \in Pairs PROVE after(s) = IF s = <<a, b>> THEN TRUE ELSE before(s)
          <6>1. s[2] \in replicas'[s[1]] <=> (s = <<a, b>> \/ s[2] \in replicas[s[1]])
            BY <3>2
          <6>2. CASE s = <<a, b>>
            BY <6>1, <6>2
          <6>3. CASE s # <<a, b>> /\ s[2] \in replicas[s[1]]
            <7>1. after(s) = TRUE /\ before(s) = TRUE
              BY <6>1, <6>3
            <7> QED BY <6>3, <7>1
          <6>4. CASE s # <<a, b>> /\ s[2] \notin replicas[s[1]]
            <7>1. after(s) = FALSE /\ before(s) = FALSE
              BY <6>1, <6>4
            <7> QED BY <6>4, <7>1
          <6> QED BY <6>2, <6>3, <6>4
        <5> HIDE DEF after, before, Pairs
        <5>2. [s \in Pairs |-> after(s)] = [[s \in Pairs |-> before(s)] EXCEPT ![<<a, b>>] = TRUE]
          BY <5>1
        <5> QED BY <5>2 DEF after, before
      <4>2. [s \in Pairs |-> joinAt'[s[1]][s[2]]] =
              [[s \in Pairs |-> joinAt[s[1]][s[2]]] EXCEPT ![<<a, b>>] = log[a]]
        BY <3>1, <3>2
      <4>3. [s \in Pairs |-> Delivered(s[1], s[2])'] =
              [[s \in Pairs |-> Delivered(s[1], s[2])] EXCEPT ![<<a, b>>] = log[a]]
        BY <3>1, <3>3
      <4>4. ~[s \in Pairs |-> s[2] \in replicas[s[1]]][<<a, b>>]
        BY <2>3, <3>1
      <4> QED BY <2>3, <4>1, <4>2, <4>3, <4>4 DEF Promise!Join
    <3> QED BY <3>1, <3>4 DEF Promise!Next, Promise!Stream
  <2>4. ASSUME NEW p \in Pair, replicationHandler(p[1], p[2]) PROVE Promise!Next
    <3>1. p[1] \in Server /\ p[2] \in Server /\ p[2] # p[1] /\ p = <<p[1], p[2]>>
      BY DEF Pair, Server
    <3>2. PairOf(p[2], p[1]) = p
      BY <3>1 DEF Pair, PairOf, Server
    <3>3. StreamInv(p[2], p[1]) /\ link[p] = "connecting"
      BY <2>4, <3>1 DEF Inv, replicationHandler
    <3>4. p[1] \notin replicas[p[2]] /\ got[p[1]][p[2]] = <<>>
      BY <3>2, <3>3 DEF StreamInv, StreamOK
    <3> QED BY <2>3, <2>4, <3>1, <3>4 DEF replicationHandler
  <2>5. ASSUME NEW a \in Server, NEW b \in Server, ReadHandshake(a, b) PROVE Promise!Next
    <3>1. a # b /\ a \notin replicas[b] /\ got[a][b] = <<>>
      BY <2>5, HandshakeInv
    <3> QED BY <2>3, <2>5, <3>1 DEF ReadHandshake
  <2>6. ASSUME NEW a \in Server, NEW b \in Server, ReadCommand(a, b) PROVE Promise!Next
    <3>1. /\ a # b /\ b \in replicas[a] /\ Delivered(a, b) < log[a]
          /\ \A c, d \in Server : c # d =>
               Delivered(c, d)' = IF c = a /\ d = b THEN Delivered(c, d) + 1 ELSE Delivered(c, d)
          /\ UNCHANGED <<log, replicas, joinAt>>
      BY <2>6, CommandInv DEF ReadCommand
    <3>2. <<a, b>> \in Pairs
      BY <3>1
    <3>3. \A s \in Pairs :
            Delivered(s[1], s[2])' = IF s = <<a, b>> THEN Delivered(a, b) + 1 ELSE Delivered(s[1], s[2])
      BY <3>1
    <3>4. Promise!Deliver(<<a, b>>)
      BY <3>1, <3>2, <3>3 DEF Promise!Deliver
    <3> QED BY <3>2, <3>4 DEF Promise!Next, Promise!Stream
  <2>7. ASSUME NEW k \in Server, Replicate(k) PROVE UNCHANGED Promise!vars
    BY <2>1, <2>7 DEF Replicate
  <2>8. ASSUME NEW p \in Pair, ConnectionReset(p) PROVE UNCHANGED Promise!vars
    BY <2>1, <2>8 DEF ConnectionReset
  <2>9. ASSUME NEW a \in Server, Kill(a) PROVE UNCHANGED Promise!vars
    BY <2>1, <2>9 DEF Kill
  <2>10. ASSUME NEW a \in Server, NEW b \in Server, freeClient(a, b) PROVE UNCHANGED Promise!vars
    BY <2>1, <2>10 DEF freeClient
  <2>11. CASE UNCHANGED vars
    BY <2>1, <2>11 DEF vars
  <2> QED BY <2>2, <2>4, <2>5, <2>6, <2>7, <2>8, <2>9, <2>10, <2>11 DEF Next
<1> QED BY <1>1, <1>2, MeshInvariance, PTL DEF Spec, KeepsPromise, Promise!Spec
=============================================================================
