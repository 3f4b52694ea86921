-------------------------------- MODULE Mesh --------------------------------
(***************************************************************************)
(* How the replication streams come to be, and what their loss does:       *)
(* p2p.c, and the part of networking.c and connection.c it rests on.       *)
(* construct_repl (exp_env.h) sends REPLICATE to servers 0, 1, ... in      *)
(* turn, each with the addresses of the servers before it; a server        *)
(* connects to each of them and writes a handshake, which makes the        *)
(* connection a stream of commands in both directions.                     *)
(*                                                                         *)
(* link[<<i, k>>], i < k, is the connection k opens to i; chan[a][b] what  *)
(* a has written to b that b has not read (0 is the handshake, n > 0 a's   *)
(* n-th command); replicas[a] is server.replicas, whose freed clients are  *)
(* dangling[a].  joinAt[a][b] is a history variable: how many commands a   *)
(* had run when b entered replicas[a].                                     *)
(***************************************************************************)
EXTENDS Integers, Sequences

CONSTANTS
  N,          \* servers
  MaxOps,     \* bound: commands of each server's clients
  MaxFaults   \* bound: connections reset and servers killed

ASSUME NAssumption == N \in Nat \ {0}

Server == 0..N-1
Pair == {p \in Server \X Server : p[1] < p[2]}
PairOf(a, b) == IF a < b THEN <<a, b>> ELSE <<b, a>>

VARIABLES step, known, link, replicas, dangling, chan, log, got, joinAt, down, faults

vars == <<step, known, link, replicas, dangling, chan, log, got, joinAt, down, faults>>

Init ==
  /\ step = 0
  /\ known = {}
  /\ link = [p \in Pair |-> "none"]
  /\ replicas = [a \in Server |-> {}]
  /\ dangling = [a \in Server |-> {}]
  /\ chan = [a \in Server |-> [b \in Server |-> <<>>]]
  /\ log = [a \in Server |-> 0]
  /\ got = [a \in Server |-> [b \in Server |-> <<>>]]
  /\ joinAt = [a \in Server |-> [b \in Server |-> 0]]
  /\ down = {}
  /\ faults = 0
-----------------------------------------------------------------------------
(* Construction.                                                           *)

\* Mutant of Replicate: the servers are told in the opposite order.
Replicate_reversed(k) ==
  /\ step = N - 1 - k
  /\ step' = step + 1
  /\ known' = known \cup ({k} \ down)
  /\ link' = [p \in Pair |-> IF p[2] = k /\ k \notin down THEN "connecting" ELSE link[p]]
  /\ UNCHANGED <<replicas, dangling, chan, log, got, joinAt, down, faults>>

\* Server k gets REPLICATE with its id, the number of servers and the addresses
\* of 0..k-1.  The connections are non-blocking: the reply does not wait for them.
Replicate(k) ==
  /\ step = k
  /\ step' = k + 1
  /\ known' = known \cup ({k} \ down)
  /\ link' = [p \in Pair |-> IF p[2] = k /\ k \notin down THEN "connecting" ELSE link[p]]
  /\ UNCHANGED <<replicas, dangling, chan, log, got, joinAt, down, faults>>

\* a's client for b becomes a replica.
Join(a, b) ==
  /\ replicas' = [replicas EXCEPT ![a] = @ \cup {b}]
  /\ joinAt' = [joinAt EXCEPT ![a][b] = log[a]]

\* Mutant of replicationHandler: no handshake is written.
replicationHandler_silent(i, k) ==
  /\ link[<<i, k>>] = "connecting" /\ k \notin down
  /\ Join(k, i)
  /\ link' = [link EXCEPT ![<<i, k>>] = IF i \in down THEN "broken" ELSE "up"]
  /\ UNCHANGED <<step, known, dangling, chan, log, got, down, faults>>

\* replicationHandler runs when the connection is established, and also when it
\* has failed: it does not look at the connection's state.
replicationHandler(i, k) ==
  /\ link[<<i, k>>] = "connecting" /\ k \notin down
  /\ Join(k, i)
  /\ IF i \notin down
     THEN /\ link' = [link EXCEPT ![<<i, k>>] = "up"]
          /\ chan' = [chan EXCEPT ![k][i] = Append(@, 0)]
     ELSE link' = [link EXCEPT ![<<i, k>>] = "broken"] /\ UNCHANGED chan
  /\ UNCHANGED <<step, known, dangling, log, got, down, faults>>
-----------------------------------------------------------------------------
(* Commands.                                                               *)

REPLICATION_MODE(a) == replicas[a] # {} \/ a \in known

LinksOf(a) == {p \in Pair : a \in {p[1], p[2]} /\ link[p] = "up"}

\* The connections in S are gone, with what was in flight.
Break(S) ==
  /\ link' = [p \in Pair |-> IF p \in S THEN "broken" ELSE link[p]]
  /\ chan' = [a \in Server |-> [b \in Server |-> IF PairOf(a, b) \in S THEN <<>> ELSE chan[a][b]]]

\* Mutant of Written: a replica with pending output is passed over.
Written_idle(a, n) ==
  [chan EXCEPT ![a] = [b \in Server |-> IF b \in replicas[a] /\ link[PairOf(a, b)] = "up" /\ @[b] = <<>>
                                        THEN Append(@[b], n) ELSE @[b]]]

\* replicationBroadcast writes command n to every replica; what is written to a
\* connection that is gone is lost.
Written(a, n) ==
  [chan EXCEPT ![a] = [b \in Server |-> IF b \in replicas[a] /\ link[PairOf(a, b)] = "up"
                                        THEN Append(@[b], n) ELSE @[b]]]

\* A freed client in the list is undefined behaviour: its memory may still read
\* as a client without a connection, which is skipped, or the server crashes.
replicationBroadcast(a) ==
  /\ log' = [log EXCEPT ![a] = @ + 1]
  /\ \/ chan' = Written(a, log[a] + 1) /\ UNCHANGED <<link, down>>
     \/ dangling[a] # {} /\ down' = down \cup {a} /\ Break(LinksOf(a))

\* A client of a issues a CRDT update.
Update(a) ==
  /\ a \notin down
  /\ REPLICATION_MODE(a)
  /\ log[a] < MaxOps[a]
  /\ replicationBroadcast(a)
  /\ UNCHANGED <<step, known, replicas, dangling, got, joinAt, faults>>

Read(a, b) ==
  /\ b \notin down
  /\ chan[a][b] # <<>>

\* replicateCommand with "replica handshake".
ReadHandshake(a, b) ==
  /\ Read(a, b) /\ Head(chan[a][b]) = 0
  /\ Join(b, a)
  /\ chan' = [chan EXCEPT ![a][b] = Tail(@)]
  /\ UNCHANGED <<step, known, link, dangling, log, got, down, faults>>

\* Mutant of ReadCommand: a command is read once the next one has begun.
ReadCommand_batched(a, b) ==
  /\ Read(a, b) /\ Head(chan[a][b]) > 0 /\ a \in replicas[b] /\ Len(chan[a][b]) > 1
  /\ got' = [got EXCEPT ![b][a] = Append(@, Head(chan[a][b]))]
  /\ chan' = [chan EXCEPT ![a][b] = Tail(@)]
  /\ UNCHANGED <<step, known, link, replicas, dangling, log, joinAt, down, faults>>

\* Mutant of ReadCommand: the last command written is read first.
ReadCommand_lifo(a, b) ==
  /\ Read(a, b) /\ Head(chan[a][b]) > 0 /\ a \in replicas[b]
  /\ got' = [got EXCEPT ![b][a] = Append(@, chan[a][b][Len(chan[a][b])])]
  /\ chan' = [chan EXCEPT ![a][b] = SubSeq(@, 1, Len(@) - 1)]
  /\ UNCHANGED <<step, known, link, replicas, dangling, log, joinAt, down, faults>>

\* call() for a CLIENT_REPLICA: the effect phase only.
ReadCommand(a, b) ==
  /\ Read(a, b) /\ Head(chan[a][b]) > 0 /\ a \in replicas[b]
  /\ got' = [got EXCEPT ![b][a] = Append(@, Head(chan[a][b]))]
  /\ chan' = [chan EXCEPT ![a][b] = Tail(@)]
  /\ UNCHANGED <<step, known, link, replicas, dangling, log, joinAt, down, faults>>
-----------------------------------------------------------------------------
(* Faults.                                                                 *)

ConnectionReset(p) ==
  /\ faults < MaxFaults /\ faults' = faults + 1
  /\ link[p] = "up"
  /\ Break({p})
  /\ UNCHANGED <<step, known, replicas, dangling, log, got, joinAt, down>>

Kill(a) ==
  /\ faults < MaxFaults /\ faults' = faults + 1
  /\ a \notin down
  /\ down' = down \cup {a}
  /\ Break(LinksOf(a))
  /\ UNCHANGED <<step, known, replicas, dangling, log, got, joinAt>>

\* The read or write handler sees that the connection is gone and frees the
\* client.  freeClient takes slaves and monitors off their lists, not replicas.
freeClient(a, b) ==
  /\ a \notin down
  /\ b \in replicas[a] \ dangling[a]
  /\ link[PairOf(a, b)] = "broken"
  /\ dangling' = [dangling EXCEPT ![a] = @ \cup {b}]
  /\ UNCHANGED <<step, known, link, replicas, chan, log, got, joinAt, down, faults>>

Next ==
  \/ \E k \in Server : Replicate(k)
  \/ \E p \in Pair : replicationHandler(p[1], p[2])
  \/ \E a \in Server : Update(a)
  \/ \E a, b \in Server : ReadHandshake(a, b) \/ ReadCommand(a, b)
  \/ \E p \in Pair : ConnectionReset(p)
  \/ \E a \in Server : Kill(a)
  \/ \E a, b \in Server : a # b /\ freeClient(a, b)

Spec == Init /\ [][Next]_vars

\* The script goes on, and each event loop (external) serves every socket.
FairSpec ==
  /\ Spec
  /\ \A k \in Server : WF_vars(Replicate(k))
  /\ \A p \in Pair : WF_vars(replicationHandler(p[1], p[2]))
  /\ \A a, b \in Server : WF_vars(ReadHandshake(a, b) \/ ReadCommand(a, b))
-----------------------------------------------------------------------------
TypeOK ==
  /\ step \in 0..N
  /\ known \subseteq Server
  /\ link \in [Pair -> {"none", "connecting", "up", "broken"}]
  /\ replicas \in [Server -> SUBSET Server]
  /\ dangling \in [Server -> SUBSET Server]
  /\ chan \in [Server -> [Server -> Seq(Nat)]]
  /\ log \in [Server -> Nat]
  /\ got \in [Server -> [Server -> Seq(Nat)]]
  /\ joinAt \in [Server -> [Server -> Nat]]
  /\ down \subseteq Server

\* REPLICATION_MODE lets updates in as soon as one peer has shaken hands.  Even
\* so, no update is stamped before the server has its id and the number of
\* servers, because REPLICATE reaches a server before its address reaches others.
ConfiguredBeforeUpdates ==
  \A a \in Server : replicas[a] # {} => a \in known

\* A command of a peer is always read on a connection that has shaken hands, so
\* that it runs as an effect, and is not taken for a client's command, prepared
\* again and broadcast again.
PeerCommandsAreEffects ==
  \A a, b \in Server :
    chan[a][b] # <<>> => (Head(chan[a][b]) = 0) # (a \in replicas[b])

\* The last command of a that b has run since it joined.
Delivered(a, b) == IF got[b][a] = <<>> THEN joinAt[a][b] ELSE got[b][a][Len(got[b][a])]

Promise == INSTANCE Streams WITH
             joined <- [s \in {t \in Server \X Server : t[1] # t[2]} |-> s[2] \in replicas[s[1]]],
             from <- [s \in {t \in Server \X Server : t[1] # t[2]} |-> joinAt[s[1]][s[2]]],
             to <- [s \in {t \in Server \X Server : t[1] # t[2]} |-> Delivered(s[1], s[2])]

\* The mesh keeps the promise of the replication layer: whatever is reset, killed
\* or left dangling in server.replicas, and whenever the updates begin, a server
\* runs a gapless part of each peer's commands, from the moment it is in the
\* peer's list.
KeepsPromise == Promise!Spec

\* Nothing is missing on a connection that is up: what its origin issued since
\* the reader joined has been run by the reader or is in the stream, in order,
\* after the handshake if that is still unread.
\* The loss of one connection, and the freed client it leaves in
\* server.replicas, take nothing from the others.
GaplessStreams ==
  \A a, b \in Server :
    a # b /\ link[PairOf(a, b)] = "up" /\ b \in replicas[a] =>
      LET hs == IF a \in replicas[b] THEN 0 ELSE 1
          d  == Delivered(a, b)
      IN /\ Len(chan[a][b]) = log[a] - d + hs
         /\ \A n \in 1..Len(chan[a][b]) : chan[a][b][n] = IF n <= hs THEN 0 ELSE d + n - hs

\* Unless something fails, every two servers end up in each other's lists; and
\* what a connection that stays up carries is all read in the end.
StreamsDrain ==
  \A a, b \in Server :
    a # b => <>[](/\ faults = 0 => b \in replicas[a]
                  /\ link[PairOf(a, b)] = "up" => Delivered(a, b) = log[a])
=============================================================================
