--------------------------------- MODULE P2P ---------------------------------
(***************************************************************************)
(* The replication layer once the mesh is up: every server is in every     *)
(* other server's server.replicas (p2p.c), and call() (server.c) hands the *)
(* command of a local client, with the arguments its prepare phase added,  *)
(* to replicationBroadcast, which writes it to each replica's TCP stream.  *)
(* Streams are FIFO and lose nothing; two streams are not ordered with     *)
(* respect to each other, so a command can overtake one it depends on.     *)
(*                                                                         *)
(* sent[i] is all that server i has broadcast.  rcvd[j][i] counts the      *)
(* commands of i whose effect j has run, and rcvd[i][i] those i ran for    *)
(* its own clients.  A stream's content is thus a suffix of sent[i].       *)
(* seen is a history variable: seen[i][n] is rcvd[i] just before the n-th  *)
(* command of i, that is, what the prepare phase of that command observed. *)
(***************************************************************************)
EXTENDS VectorClock, Sequences

CONSTANT MaxOps   \* bound: how many updates the clients of each server issue

ASSUME MaxOpsAssumption == MaxOps \in [Server -> Nat]

VARIABLES sent, rcvd, seen

p2pVars == <<sent, rcvd, seen>>

P2PInit ==
  /\ sent = [i \in Server |-> <<>>]
  /\ rcvd = [j \in Server |-> [i \in Server |-> 0]]
  /\ seen = [i \in Server |-> <<>>]

CanIssue(i) == Len(sent[i]) < MaxOps[i]

replicationBroadcast(i, m) ==
  /\ sent' = [sent EXCEPT ![i] = Append(@, m)]
  /\ rcvd' = [rcvd EXCEPT ![i][i] = @ + 1]
  /\ seen' = [seen EXCEPT ![i] = Append(@, rcvd[i])]

InFlight(i, j) == rcvd[j][i] < Len(sent[i])

\* The command at the front of the stream from i to j.
NextCmd(i, j) == sent[i][rcvd[j][i] + 1]

\* Mutant of ReadFromReplica: one command is run, the buffer is emptied.
ReadFromReplica_flush(i, j) ==
  /\ rcvd' = [rcvd EXCEPT ![j][i] = Len(sent[i])]
  /\ UNCHANGED <<sent, seen>>

ReadFromReplica(i, j) ==
  /\ rcvd' = [rcvd EXCEPT ![j][i] = @ + 1]
  /\ UNCHANGED <<sent, seen>>

\* The event loop (ae.c, external) keeps reading every socket that has data, and
\* an effect phase never blocks: each stream advances while it is not empty.
FairStreams ==
  \A i, j \in Server : WF_p2pVars(InFlight(i, j) /\ ReadFromReplica(i, j))

Promise == INSTANCE Streams WITH
             log <- [i \in Server |-> Len(sent[i])],
             joined <- [s \in {t \in Server \X Server : t[1] # t[2]} |-> TRUE],
             from <- [s \in {t \in Server \X Server : t[1] # t[2]} |-> 0],
             to <- [s \in {t \in Server \X Server : t[1] # t[2]} |-> rcvd[s[2]][s[1]]]

\* The containers use the streams as the replication layer promises them, all
\* joined before the first command.
StreamsAsPromised == Promise!Spec
-----------------------------------------------------------------------------
(* An operation is named by its origin and its rank there.                 *)

Cmd(o) == sent[o[1]][o[2]]

\* The operations covered by a count per origin.
Covered(counts) == UNION {{<<i, n>> : n \in 1..counts[i]} : i \in Server}

\* The operations whose effect has run at r.
Executed(r) == Covered(rcvd[r])

\* What the origin of o had executed when it prepared o.
Observed(o) == Covered(seen[o[1]][o[2]])

\* r and s have executed the same operations, in whatever order.
SameOps(r, s) == rcvd[r] = rcvd[s]
=============================================================================
